------------------------------ MODULE CallPath ------------------------------
(***************************************************************************)
(* From a CCM call to the devices: the line that CcmApi builds for each    *)
(* call, read as Protocol reads it, is a request that Scheduler executes.  *)
(*                                                                         *)
(* The CCM functions of this version build the line and return; whoever    *)
(* sends it to the gateway is not part of the repository, and neither is   *)
(* whoever adds the PIN to it, which no CCM function does.                 *)
(***************************************************************************)
EXTENDS Scheduler, CcmApi

CONSTANTS Calls,      \* the calls the client may make
          SenderPin,  \* what the sender adds as user_pin; NoPin: nothing
          NumberOf    \* the device ids of the texts, NoId for the empty one

\* A call of one of the functions has at most two keys to use and two to fill
\* in; the source of each is one of the five of ccm_key_source_t (Keys), as the
\* CCM functions do not verify.  The decimal digits, which TLC knows and a proof
\* does not, are those of append_token.
ASSUME CallsAssumption ==
  \A c \in Calls : /\ c.function \in DOMAIN Functions /\ c.alg \in Nat
                   /\ c.keys \in Seq(Keys) /\ Len(c.keys) <= 2
                   /\ c.out \in Seq(Keys) /\ Len(c.out) <= 2
ASSUME DecimalAssumption == \A n \in 0 .. 4 : ToString(n) = <<"0", "1", "2", "3", "4">>[n + 1]
ASSUME NumberOfAssumption == NumberOf[""] = NoId

\* An id that arrives as it was written.  append_key_ref writes ids as they are
\* and key_ref_get_token splits the reference at each semicolon; an id with one
\* would be read as several tokens.  The other characters are those that
\* append_json_string writes as two, and thus lengthen the line.
Plain(id) == \A i \in 1 .. StrLen(id) : SubSeq(id, i, i) \notin {";", "\"", "\\", "\n", "\r", "\t"}

ASSUME IdsAssumption ==
  \A c \in Calls : \A keys \in {c.keys, c.out} : \A i \in DOMAIN keys :
    Plain(keys[i].keyId) /\ Plain(keys[i].deviceId)

(***************************************************************************)
(* The lengths of texts, which TLC knows too.  In a call, alg, usage and   *)
(* source of a key are ids of ccm_algorithm_id_t, ccm_key_usage_t and      *)
(* ccm_key_source_t.  Unif_KeyRef has unsigned ints for them, which        *)
(* append_key_ref does not verify; with ten digits in each, one reference  *)
(* of otherwise greatest length would not fit.  A number is an unsigned    *)
(* int of 32 bits, a pointer an address of 47 bits or "(nil)", and an id   *)
(* fits the 64 characters that Unif_KeyRef has for it; a PIN fits the      *)
(* gateway's buffer.  The words are those of the tables above.             *)
(***************************************************************************)
Narrow(key) ==
  /\ StrLen(ToString(key.alg)) \in 1 .. 2
  /\ StrLen(ToString(key.usage)) = 1 /\ StrLen(ToString(key.source)) = 1
  /\ StrLen(key.index) \in 1 .. 10
  /\ StrLen(key.handle) \in 1 .. 14 /\ StrLen(key.external) \in 1 .. 14
  /\ StrLen(key.keyId) \in 0 .. 63 /\ StrLen(key.deviceId) \in 0 .. 63

ASSUME ArgumentLengths ==
  /\ StrLen(SenderPin) \in 0 .. 255
  /\ \A c \in Calls :
       /\ StrLen(c.index) \in 1 .. 10 /\ StrLen(c.number) \in 1 .. 10 /\ StrLen(c.pointer) \in 1 .. 14
       /\ \A i \in DOMAIN c.keys : Narrow(c.keys[i])
       /\ \A i \in DOMAIN c.out : Narrow(c.out[i])

ASSUME KeyWordLengths ==
  /\ StrLen("alg") = 3 /\ StrLen("usage") = 5 /\ StrLen("source") = 6
  /\ StrLen("key_index") = 9 /\ StrLen("key_handle") = 10 /\ StrLen("external_key") = 12
  /\ StrLen("key_id") = 6 /\ StrLen("device_id") = 9

ASSUME WordLengths ==
  /\ \A i \in DOMAIN FieldOrder : StrLen(FieldOrder[i]) \in 1 .. 11
  /\ \A i \in DOMAIN AlgorithmNames : StrLen(AlgorithmNames[i]) \in 1 .. 10
  /\ \A word \in {"auto", "mode", "padding", "hash_alg", "security_level", "ex_params", "len",
                   "pqc"} : StrLen(word) \in 1 .. 14
  /\ StrLen("") = 0 /\ StrLen("asym::classic:sm2>pqc::pqc:dilithium3") \in 1 .. 40
  /\ \A f \in DOMAIN Functions :
       /\ StrLen(f) \in 1 .. 63
       /\ StrLen(Functions[f].domain) \in 1 .. 6 /\ StrLen(Functions[f].action) \in 1 .. 17
       /\ \A names \in {Functions[f].payload, Functions[f].aux} :
            \A i \in DOMAIN names : StrLen(names[i]) \in 1 .. 14

Sent(line) ==
  IF SenderPin = NoPin THEN line
  ELSE [field \in DOMAIN line \cup {"user_pin"} |->
          IF field = "user_pin" THEN Word(SenderPin) ELSE line[field]]

\* parse_request_json, and what the scheduler reads in key_ref; the call is
\* what the request comes from, which no part of the gateway reads.
Request(call) ==
  LET line   == Sent(Line(call))
      tokens == Field(line, "key_ref", <<>>)
      action == line.action.says
  IN  [op |-> <<line.domain.says, action,
                NormalAlgorithm(Field(line, "algorithm", DefaultAlgorithm(action)))>>,
       pin        |-> Field(line, "user_pin", NoPin),
       hint       |-> NumberOf[Field(line, "device_hint", "")],
       preference |-> Preference(Field(line, "preference", "")),
       sequence   |-> Field(line, "sequence", NoSequence),
       source     |-> Source(tokens),
       keyDevice  |-> NumberOf[Token(tokens, "device_id")],
       keyId      |-> Token(tokens, "key_id"),
       call       |-> call]

\* The requests that reach a worker.
CallRequests ==
  {Request(c) : c \in {d \in Calls : Returns(d) = "CCM_OK" /\ ~Rejected(Line(d))}}

ASSUME RequestsOfCalls == Requests \subseteq CallRequests
ASSUME NoSequenceAssumption == \A action \in Actions : HybridSteps(action).says # NoSequence

-----------------------------------------------------------------------------
Executing(w) == req[w] # NoRequest

\* The steps of its request for which worker w has or had a device, each with
\* that device.
Served(w) ==
  {<<i, selected[w][i]>> : i \in DOMAIN selected[w]}
    \cup {<<step[w], s>> : s \in {dev[w]} \ {0}}

\* The key that a step is meant to use: of two, the second is the PQC key.
StepKey(w, i) ==
  LET keys == req[w].call.keys
  IN  keys[IF Len(keys) = 2 /\ Steps(req[w])[i].op[1] = "pqc" THEN 2 ELSE 1]

\* An internal key is used on the device that its reference names and on no
\* other, and one whose reference names none is not used at all: the reference
\* written by append_key_ref (ccm_api.c:139), whatever the lengths of its ids,
\* is the one that resolve_device_hint_from_key_ref reads (scheduler.c:132).
InternalKeyBound ==
  \A w \in Workers : Executing(w) =>
    \A x \in Served(w) : req[w].call.keys # <<>> =>
      LET key == StepKey(w, x[1])
      IN  key.source = 1 => /\ key.deviceId # ""
                            /\ Devices[x[2]].id = NumberOf[key.deviceId]

\* A device is given a key only if one of its capabilities allows keys of that
\* source, the number CCM writes being the bit of the mask that the loader made
\* of the source's name (config.c:12, resource.c:46).
SourceAllowed ==
  \A w \in Workers : Executing(w) =>
    \A x \in Served(w) : req[w].call.keys # <<>> =>
      Supports(x[2], Steps(req[w])[x[1]].op, StepKey(w, x[1]).source)

\* Everything a CCM function writes arrives: no field is too long for the
\* gateway's buffer of it, nor the line for the buffer of 2048 characters, and
\* the gateway reads of the keys what was written.  The sizes are declared twice,
\* in ccm_api.c:6-14 and common.h:7-9, and differ: one key with ids of any length
\* fits, and so do two whose ids are short, but not two of the greatest length.
WholeLineArrives ==
  \A w \in Workers : Executing(w) =>
    LET line == Sent(Line(req[w].call))
    IN  /\ \A field \in DOMAIN line : Has(line, field)
        /\ LineWidth(line) < 2048
        /\ Field(line, "key_ref", <<>>) = KeyTokens(req[w].call)

=============================================================================
