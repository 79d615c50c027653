---------------------------- MODULE MCScheduler ----------------------------
(***************************************************************************)
(* Scheduler over the devices of configs/devices.conf and the GM3000 of    *)
(* configs/gm3000-devices.conf.  The limits are scaled down (8 and 8 in    *)
(* the file) so that three workers reach them.  A capability stands for    *)
(* those lines of the files that some request below uses.                  *)
(***************************************************************************)
EXTENDS Scheduler

sign == <<"asym", "sign", "sm2">>
hash == <<"hash", "hash", "sm3">>
pqcSign == <<"pqc", "sign", "dilithium3">>
readFile == <<"file", "read_file", "auto">>
checkPin == <<"auth", "check_pin", "auto">>

classic1 == 1
gm3000 == 2
pqc1 == 3
softlib1 == 4
misspelt1 == 5

Cap(op, sources) == Append(op, sources)

MCDevices == <<
  [id |-> classic1, type |-> "classic", profile |-> "swsds-classic", priority |-> 100,
   enabled |-> TRUE, max |-> 2, security |-> 70, efficiency |-> 95,
   caps |-> {Cap(sign, KeySources), Cap(hash, KeySources), Cap(readFile, KeySources)}],
  [id |-> pqc1, type |-> "pqc", profile |-> "swsds-pqc", priority |-> 200,
   enabled |-> TRUE, max |-> 1, security |-> 98, efficiency |-> 70,
   caps |-> {Cap(pqcSign, KeySources), Cap(hash, KeySources), Cap(readFile, KeySources)}],
  [id |-> softlib1, type |-> "classic", profile |-> "softlib", priority |-> 300,
   enabled |-> TRUE, max |-> 2, security |-> 60, efficiency |-> 100,
   caps |-> {Cap(sign, {3}), Cap(hash, KeySources)}],
  [id |-> gm3000, type |-> "classic", profile |-> "gm3000-skf", priority |-> 300,
   enabled |-> TRUE, max |-> 1, security |-> 90, efficiency |-> 60,
   caps |-> {Cap(sign, KeySources)}] >>

\* A file in which a second, slower entry has the id of pqc-1, and a third one,
\* whose limit is below zero; the last line has a type that nobody knows.
TwinDevices == MCDevices \o <<
  [id |-> pqc1, type |-> "pqc", profile |-> "swsds-pqc", priority |-> 400,
   enabled |-> TRUE, max |-> 1, security |-> 90, efficiency |-> 50,
   caps |-> {Cap(hash, KeySources)}],
  [id |-> pqc1, type |-> "pqc", profile |-> "swsds-pqc", priority |-> 10,
   enabled |-> TRUE, max |-> -1, security |-> 90, efficiency |-> 50,
   caps |-> {Cap(hash, KeySources)}],
  [id |-> misspelt1, type |-> "unknown", profile |-> "swsds-classic", priority |-> 1,
   enabled |-> TRUE, max |-> 1, security |-> 99, efficiency |-> 99,
   caps |-> {Cap(pqcSign, KeySources)}] >>

Plain == [op |-> sign, pin |-> "123456", hint |-> 0, source |-> 0, keyDevice |-> 0,
          keyId |-> "", preference |-> "balanced", sequence |-> NoSequence]

S(op, type) == [op |-> op, type |-> type]

\* The mixed sequence of tests/test_runner.c and of the documentation.
Mixed == <<S(sign, "classic"), S(pqcSign, "pqc")>>

SecureSign    == [Plain EXCEPT !.preference = "secure"]
SoftSign      == [Plain EXCEPT !.preference = "efficient", !.source = 3]
SoftHash      == [Plain EXCEPT !.preference = "efficient", !.op = hash]
PqcSign       == [Plain EXCEPT !.op = pqcSign]
HintedHash    == [Plain EXCEPT !.op = hash, !.hint = pqc1]
InternalBound == [Plain EXCEPT !.source = 1, !.keyDevice = gm3000]
InternalFree  == [Plain EXCEPT !.source = 1]
InternalTwice == [Plain EXCEPT !.source = 1, !.keyDevice = classic1, !.hint = pqc1]
InternalSoft  == [Plain EXCEPT !.source = 1, !.hint = softlib1]
MixedSequence == [Plain EXCEPT !.sequence = Mixed]
\* Every step is hinted by the key to pqc-1, whatever type it names.
HomeSequence  == [Plain EXCEPT !.source = 1, !.keyDevice = pqc1, !.hint = pqc1,
                               !.sequence = <<S(hash, "classic"), S(pqcSign, "pqc"), S(sign, "classic")>>]
TooLong       == [Plain EXCEPT !.sequence = Mixed \o Mixed \o <<S(hash, "pqc")>>]
Garbled       == [Plain EXCEPT !.sequence = <<S(hash, "classic"), S(hash, "unknown")>>]
WrongPin      == [Plain EXCEPT !.pin = "000000", !.sequence = Mixed]
CheckPin      == [Plain EXCEPT !.op = checkPin]
ManagedSecure == [Plain EXCEPT !.op = hash, !.source = 4, !.keyId = "k", !.preference = "secure"]
ManagedPlain  == [Plain EXCEPT !.op = hash, !.source = 4, !.keyId = "k"]
\* ">" is a sequence with no token.
NoTokens      == [Plain EXCEPT !.sequence = <<>>]

AllRequests == {Plain, SecureSign, SoftSign, SoftHash, HintedHash, InternalBound,
                InternalFree, InternalTwice, InternalSoft, MixedSequence, HomeSequence,
                TooLong, Garbled, WrongPin, CheckPin, NoTokens}

\* The requests that compete for devices, for three workers.
Competing == {Plain, SecureSign, PqcSign, HintedHash, InternalBound, MixedSequence}

ManagedRequests == {ManagedSecure, ManagedPlain}
=============================================================================
