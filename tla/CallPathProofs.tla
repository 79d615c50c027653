--------------------------- MODULE CallPathProofs ---------------------------
(***************************************************************************)
(* Proofs about CallPath: the path of a key from the CCM call that refers  *)
(* to it to the device that uses it.                                       *)
(***************************************************************************)
EXTENDS LineProofs, SchedulerProofs

-----------------------------------------------------------------------------
(* What a key reference says *)

\* The position of a token of that name before which there is none.
IsFirst(tokens, name, i) ==
  /\ i \in DOMAIN tokens /\ tokens[i][1] = name
  /\ \A j \in DOMAIN tokens : tokens[j][1] = name => i <= j

\* key_ref_get_token finds the first token of a name.
LEMMA TokenFirst ==
  ASSUME NEW S, NEW tokens \in Seq(S), NEW name, NEW i, IsFirst(tokens, name, i)
  PROVE  Token(tokens, name) = tokens[i][2]
<1> DEFINE named == {j \in DOMAIN tokens : tokens[j][1] = name}
<1>1. DOMAIN tokens \subseteq Nat
  OBVIOUS
<1>2. i \in named /\ (\A j \in named : i <= j) /\ named \subseteq Nat
  BY <1>1 DEF IsFirst
<1>3. Token(tokens, name) = tokens[CHOOSE k \in named : \A j \in named : k <= j][2]
  BY <1>2 DEF Token
<1> HIDE DEF named
<1>4. ASSUME NEW k, k \in named, \A j \in named : k <= j PROVE k = i
  BY <1>2, <1>4
<1>5. (CHOOSE k \in named : \A j \in named : k <= j) = i
  BY <1>2, <1>4
<1> QED
  BY <1>3, <1>5

LEMMA TokenAbsent ==
  ASSUME NEW tokens, NEW name, \A i \in DOMAIN tokens : tokens[i][1] # name
  PROVE  Token(tokens, name) = ""
  BY DEF Token

\* key_ref_source_value of the digits that append_token writes.
LEMMA SourceOfDigit ==
  ASSUME NEW tokens, NEW n \in 0 .. 4, Token(tokens, "source") = ToString(n)
  PROVE  Source(tokens) = n
<1> DEFINE names == [i \in 1 .. 4 |->
                       {<<"internal_index", "session_handle", "external_key", "managed_key">>[i],
                        <<"1", "2", "3", "4">>[i]}]
<1>1. /\ names[1] = {"internal_index", "1"} /\ names[2] = {"session_handle", "2"}
      /\ names[3] = {"external_key", "3"} /\ names[4] = {"managed_key", "4"}
      /\ DOMAIN names = 1 .. 4
  OBVIOUS
<1>2. Source(tokens) = Named(names, Token(tokens, "source"), 0)
  BY DEF Source
<1> HIDE DEF names
<1>3. \A i \in 1 .. 4 : (Token(tokens, "source") \in names[i]) <=> i = n
  BY <1>1, DecimalAssumption
<1> QED
  BY <1>1, <1>2, <1>3 DEF Named

-----------------------------------------------------------------------------
(* The reference of a key, and of two *)

\* tokens with the one token x more.
IsMore(longer, tokens, x) ==
  /\ Len(longer) = Len(tokens) + 1 /\ DOMAIN longer = 1 .. Len(tokens) + 1
  /\ longer[Len(tokens) + 1] = x
  /\ \A i \in 1 .. Len(tokens) : longer[i] = tokens[i]

LEMMA OneMore ==
  ASSUME NEW S, NEW tokens \in Seq(S), NEW x \in S
  PROVE  tokens \o <<x>> \in Seq(S) /\ IsMore(tokens \o <<x>>, tokens, x)
  BY DEF IsMore

LEMMA MorePlaces ==
  ASSUME NEW S, NEW tokens \in Seq(S), NEW longer, NEW x, IsMore(longer, tokens, x)
  PROVE  /\ Len(tokens) \in Nat
         /\ \A i \in 1 .. Len(longer) : i \in 1 .. Len(tokens) \/ i = Len(tokens) + 1
<1>1. Len(tokens) \in Nat
  OBVIOUS
<1> QED
  BY <1>1 DEF IsMore

LEMMA AddOptional ==
  ASSUME NEW S, NEW tokens \in Seq(S), NEW x \in S, NEW text
  PROVE  LET longer == tokens \o (IF text = "" THEN <<>> ELSE <<x>>)
         IN  /\ longer \in Seq(S)
             /\ text = "" => longer = tokens
             /\ text # "" => IsMore(longer, tokens, x)
<1>1. CASE text = ""
  <2>1. tokens \o <<>> = tokens
    OBVIOUS
  <2> QED
    BY <1>1, <2>1
<1>2. CASE text # ""
  BY <1>2, OneMore
<1> QED
  BY <1>1, <1>2

\* The source is in the third place of the tokens and nowhere else.
SourceThird(tokens, source) ==
  /\ Len(tokens) >= 6
  /\ tokens[3][1] = "source" /\ tokens[3][2] = source
  /\ \A i \in 1 .. Len(tokens) : tokens[i][1] = "source" => i = 3

NoToken(tokens, name) == \A i \in 1 .. Len(tokens) : tokens[i][1] # name

LEMMA SourceStaysThird ==
  ASSUME NEW S, NEW tokens \in Seq(S), NEW longer, NEW x, NEW source,
         SourceThird(tokens, source), IsMore(longer, tokens, x), x[1] # "source"
  PROVE  SourceThird(longer, source)
<1>1. /\ Len(tokens) \in Nat
      /\ \A i \in 1 .. Len(longer) : i \in 1 .. Len(tokens) \/ i = Len(tokens) + 1
  BY MorePlaces
<1>2. 3 \in 1 .. Len(tokens)
  BY <1>1 DEF SourceThird
<1>3. Len(longer) >= 6 /\ longer[3] = tokens[3]
  BY <1>1, <1>2 DEF SourceThird, IsMore
<1>4. ASSUME NEW i \in 1 .. Len(longer), longer[i][1] = "source" PROVE i = 3
  <2>1. i \in 1 .. Len(tokens) \/ i = Len(tokens) + 1
    BY <1>1
  <2> QED
    BY <1>4, <2>1 DEF SourceThird, IsMore
<1> QED
  BY <1>3, <1>4 DEF SourceThird

LEMMA NoTokenStays ==
  ASSUME NEW S, NEW tokens \in Seq(S), NEW longer, NEW x, NEW name,
         NoToken(tokens, name), IsMore(longer, tokens, x), x[1] # name
  PROVE  NoToken(longer, name)
<1>1. /\ Len(tokens) \in Nat
      /\ \A i \in 1 .. Len(longer) : i \in 1 .. Len(tokens) \/ i = Len(tokens) + 1
  BY MorePlaces
<1>2. ASSUME NEW i \in 1 .. Len(longer) PROVE longer[i][1] # name
  <2>1. i \in 1 .. Len(tokens) \/ i = Len(tokens) + 1
    BY <1>1
  <2> QED
    BY <2>1 DEF NoToken, IsMore
<1> QED
  BY <1>2 DEF NoToken

\* What append_key_ref writes of the device: nothing, or it is in the last
\* place and nowhere else.
OnlyLast(tokens, device) ==
  /\ tokens[Len(tokens)][1] = "device_id" /\ tokens[Len(tokens)][2] = device
  /\ \A i \in 1 .. Len(tokens) : tokens[i][1] = "device_id" => i = Len(tokens)

DeviceLast(tokens, device) ==
  IF device = "" THEN NoToken(tokens, "device_id") ELSE OnlyLast(tokens, device)

LEMMA DeviceAdded ==
  ASSUME NEW S, NEW tokens \in Seq(S), NEW longer, NEW x, NEW device,
         device # "", x[1] = "device_id", x[2] = device,
         NoToken(tokens, "device_id"), IsMore(longer, tokens, x)
  PROVE  DeviceLast(longer, device)
<1>1. /\ Len(tokens) \in Nat
      /\ \A i \in 1 .. Len(longer) : i \in 1 .. Len(tokens) \/ i = Len(tokens) + 1
  BY MorePlaces
<1>2. Len(longer) = Len(tokens) + 1 /\ longer[Len(longer)] = x
  BY <1>1 DEF IsMore
<1>3. ASSUME NEW i \in 1 .. Len(longer), longer[i][1] = "device_id" PROVE i = Len(longer)
  <2>1. i \in 1 .. Len(tokens) \/ i = Len(tokens) + 1
    BY <1>1
  <2> QED
    BY <1>3, <2>1 DEF NoToken, IsMore
<1> QED
  BY <1>2, <1>3 DEF DeviceLast, OnlyLast

LEMMA KeyRefShape ==
  ASSUME NEW key, NEW S, TokensOf(key) \subseteq S
  PROVE  /\ KeyRef(key) \in Seq(S)
         /\ SourceThird(KeyRef(key), ToString(key.source))
         /\ DeviceLast(KeyRef(key), key.deviceId)
<1> DEFINE six == << <<"alg", ToString(key.alg)>>, <<"usage", ToString(key.usage)>>,
                     <<"source", ToString(key.source)>>, <<"key_index", key.index>>,
                     <<"key_handle", key.handle>>, <<"external_key", key.external>> >>
<1>1. six \in Seq(S)
  BY DEF TokensOf
<1>2. SourceThird(six, ToString(key.source)) /\ NoToken(six, "device_id")
  BY DEF SourceThird, NoToken
<1>3. PICK id \in S : id = <<"key_id", key.keyId>>
  BY DEF TokensOf
<1>4. PICK device \in S : device = <<"device_id", key.deviceId>>
  BY DEF TokensOf
<1> DEFINE more == six \o (IF key.keyId = "" THEN <<>> ELSE <<id>>)
           all  == more \o (IF key.deviceId = "" THEN <<>> ELSE <<device>>)
<1>5. KeyRef(key) = all
  BY <1>3, <1>4 DEF KeyRef, Optional
<1>6. id[1] = "key_id" /\ device[1] = "device_id" /\ device[2] = key.deviceId
  BY <1>3, <1>4
<1>7. id \in S /\ device \in S
  BY <1>3, <1>4
<1> HIDE DEF six
<1>8. /\ more \in Seq(S)
      /\ key.keyId = "" => more = six
      /\ key.keyId # "" => IsMore(more, six, id)
  BY <1>1, <1>7, AddOptional
<1> HIDE DEF more
<1>9. SourceThird(more, ToString(key.source)) /\ NoToken(more, "device_id")
  <2>1. CASE key.keyId = ""
    BY <1>2, <1>8, <2>1
  <2>2. CASE key.keyId # ""
    BY <1>1, <1>2, <1>6, <1>8, <2>2, SourceStaysThird, NoTokenStays
  <2> QED
    BY <2>1, <2>2
<1>10. /\ all \in Seq(S)
       /\ key.deviceId = "" => all = more
       /\ key.deviceId # "" => IsMore(all, more, device)
  BY <1>7, <1>8, AddOptional
<1> HIDE DEF all
<1>11. SourceThird(all, ToString(key.source))
  BY <1>6, <1>8, <1>9, <1>10, SourceStaysThird
<1>12. DeviceLast(all, key.deviceId)
  <2>1. CASE key.deviceId = ""
    BY <1>9, <1>10, <2>1 DEF DeviceLast
  <2>2. CASE key.deviceId # ""
    BY <1>6, <1>8, <1>9, <1>10, <2>2, DeviceAdded
  <2> QED
    BY <2>1, <2>2
<1> QED
  BY <1>5, <1>10, <1>11, <1>12

\* What is appended to a key reference hides nothing in it.
LEMMA FirstStays ==
  ASSUME NEW S, NEW s \in Seq(S), NEW t \in Seq(S), NEW name, NEW i, IsFirst(s, name, i)
  PROVE  IsFirst(s \o t, name, i) /\ (s \o t)[i] = s[i]
<1> DEFINE both == s \o t
<1>1. /\ Len(s) \in Nat /\ Len(t) \in Nat
      /\ DOMAIN s = 1 .. Len(s) /\ DOMAIN both = 1 .. Len(s) + Len(t)
      /\ \A j \in 1 .. Len(s) : both[j] = s[j]
  OBVIOUS
<1> HIDE DEF both
<1>2. i \in 1 .. Len(s) /\ i \in DOMAIN both /\ both[i] = s[i]
  BY <1>1 DEF IsFirst
<1>3. ASSUME NEW j \in DOMAIN both, both[j][1] = name PROVE i <= j
  <2>1. j \in 1 .. Len(s) \/ j > Len(s)
    BY <1>1
  <2> QED
    BY <1>1, <1>2, <1>3, <2>1 DEF IsFirst
<1>4. IsFirst(both, name, i)
  BY <1>2, <1>3 DEF IsFirst
<1> QED
  BY <1>2, <1>4 DEF both

LEMMA NoneInEither ==
  ASSUME NEW S, NEW s \in Seq(S), NEW t \in Seq(S), NEW name,
         NoToken(s, name), NoToken(t, name)
  PROVE  \A i \in DOMAIN (s \o t) : (s \o t)[i][1] # name
<1> DEFINE both == s \o t
<1>1. /\ Len(s) \in Nat /\ Len(t) \in Nat /\ DOMAIN both = 1 .. Len(s) + Len(t)
      /\ \A j \in 1 .. Len(s) : both[j] = s[j]
      /\ \A j \in Len(s) + 1 .. Len(s) + Len(t) : both[j] = t[j - Len(s)]
  OBVIOUS
<1> HIDE DEF both
<1>2. ASSUME NEW i \in DOMAIN both PROVE both[i][1] # name
  <2>1. i \in 1 .. Len(s) \/ (i \in Len(s) + 1 .. Len(s) + Len(t) /\ i - Len(s) \in 1 .. Len(t))
    BY <1>1
  <2> QED
    BY <1>1, <2>1 DEF NoToken
<1> QED
  BY <1>2 DEF both

\* key_ref_get_token finds it there.
LEMMA FirstCounts ==
  ASSUME NEW S, NEW s \in Seq(S), NEW t \in Seq(S), NEW name, NEW i, IsFirst(s, name, i)
  PROVE  Token(s \o t, name) = s[i][2]
<1>1. s \o t \in Seq(S)
  OBVIOUS
<1> DEFINE both == s \o t
<1>2. both \in Seq(S) /\ IsFirst(both, name, i) /\ both[i] = s[i]
  BY <1>1, FirstStays
<1> HIDE DEF both
<1>3. Token(both, name) = both[i][2]
  BY <1>2, TokenFirst
<1> QED
  BY <1>2, <1>3 DEF both

LEMMA ShapeFirst ==
  ASSUME NEW S, NEW tokens \in Seq(S), NEW source, SourceThird(tokens, source)
  PROVE  IsFirst(tokens, "source", 3)
<1>1. DOMAIN tokens = 1 .. Len(tokens) /\ Len(tokens) \in Nat
  BY Places
<1> QED
  BY <1>1 DEF SourceThird, IsFirst

LEMMA DeviceFirst ==
  ASSUME NEW S, NEW tokens \in Seq(S), Len(tokens) >= 6, NEW device, OnlyLast(tokens, device)
  PROVE  IsFirst(tokens, "device_id", Len(tokens)) /\ tokens[Len(tokens)][2] = device
<1>1. DOMAIN tokens = 1 .. Len(tokens) /\ Len(tokens) \in Nat
  BY Places
<1>2. /\ tokens[Len(tokens)][1] = "device_id" /\ tokens[Len(tokens)][2] = device
      /\ \A i \in 1 .. Len(tokens) : tokens[i][1] = "device_id" => i = Len(tokens)
  BY DEF OnlyLast
<1>3. Len(tokens) \in 1 .. Len(tokens)
  BY <1>1
<1>4. ASSUME NEW j \in DOMAIN tokens, tokens[j][1] = "device_id" PROVE Len(tokens) <= j
  <2>1. j = Len(tokens)
    BY <1>1, <1>2, <1>4, Zenon
  <2> QED
    BY <1>1, <2>1
<1> QED
  BY <1>1, <1>2, <1>3, <1>4 DEF IsFirst

\* Two keys are alike: they have one source and live on one device, or on none.
Alike(keys) ==
  \A i, j \in DOMAIN keys : keys[i].source = keys[j].source /\ keys[i].deviceId = keys[j].deviceId

\* Of one key, or of two that are alike, the gateway reads the source and the
\* device that the call gave.
LEMMA KeysArrive ==
  ASSUME NEW keys \in Seq(Keys), keys # <<>>, Len(keys) <= 2, Alike(keys)
  PROVE  /\ Source(KeyRefs(keys)) = keys[1].source
         /\ Token(KeyRefs(keys), "device_id") = keys[1].deviceId
<1> DEFINE S      == TokensOf(keys[1]) \cup TokensOf(keys[2])
           one    == KeyRef(keys[1])
           two    == IF 2 \in DOMAIN keys THEN KeyRef(keys[2]) ELSE <<>>
<1>1. 1 \in DOMAIN keys /\ keys[1] \in Keys
  BY Places
<1>2. KeyRefs(keys) = one \o two
  BY <1>1 DEF KeyRefs
<1>3. keys[1].source \in 0 .. 4
  BY <1>1 DEF Keys
<1>4. /\ one \in Seq(S) /\ SourceThird(one, ToString(keys[1].source))
      /\ DeviceLast(one, keys[1].deviceId)
  <2>1. TokensOf(keys[1]) \subseteq S
    OBVIOUS
  <2> QED
    BY <2>1, KeyRefShape
<1>5. two \in Seq(S) /\ (keys[1].deviceId = "" => NoToken(two, "device_id"))
  <2>1. CASE 2 \in DOMAIN keys
    <3>1. TokensOf(keys[2]) \subseteq S
      OBVIOUS
    <3>2. keys[2].deviceId = keys[1].deviceId
      BY <1>1, <2>1 DEF Alike
    <3> QED
      BY <2>1, <3>1, <3>2, KeyRefShape DEF DeviceLast
  <2>2. CASE 2 \notin DOMAIN keys
    <3>1. two = <<>>
      BY <2>2
    <3> HIDE DEF two, S
    <3> QED
      BY <3>1 DEF NoToken
  <2> QED
    BY <2>1, <2>2
<1>6. Len(one) >= 6
  BY <1>4 DEF SourceThird
<1> HIDE DEF S, one, two
<1>7. IsFirst(one, "source", 3) /\ one[3][2] = ToString(keys[1].source)
  BY <1>4, ShapeFirst DEF SourceThird
<1>8. Token(one \o two, "source") = ToString(keys[1].source)
  <2>1. PICK i : i = 3
    OBVIOUS
  <2>2. IsFirst(one, "source", i) /\ one[i][2] = ToString(keys[1].source)
    BY <1>7, <2>1
  <2>3. Token(one \o two, "source") = one[i][2]
    BY <1>4, <1>5, <2>2, FirstCounts
  <2> QED
    BY <2>2, <2>3
<1>9. Token(one \o two, "device_id") = keys[1].deviceId
  <2>1. CASE keys[1].deviceId = ""
    <3>1. NoToken(one, "device_id") /\ NoToken(two, "device_id")
      BY <1>4, <1>5, <2>1 DEF DeviceLast
    <3>2. \A i \in DOMAIN (one \o two) : (one \o two)[i][1] # "device_id"
      BY <1>4, <1>5, <3>1, NoneInEither
    <3> QED
      BY <2>1, <3>2, TokenAbsent
  <2>2. CASE keys[1].deviceId # ""
    <3>1. IsFirst(one, "device_id", Len(one)) /\ one[Len(one)][2] = keys[1].deviceId
      BY <1>4, <1>6, <2>2, DeviceFirst DEF DeviceLast
    <3> QED
      BY <1>4, <1>5, <3>1, FirstCounts
  <2> QED
    BY <2>1, <2>2
<1> QED
  BY <1>2, <1>3, <1>8, <1>9, SourceOfDigit

-----------------------------------------------------------------------------
(* The request that the gateway makes of a call *)

\* The gateway reads of the keys of a call what was written of them.
KeysRead(c) == Field(Sent(Line(c)), "key_ref", <<>>) = KeyTokens(c)

\* No CCM function writes a device_hint (ccm_api.c:104-123).
LEMMA NoHint ==
  ASSUME NEW c
  PROVE  Field(Sent(Line(c)), "device_hint", "") = ""
<1>1. "device_hint" \notin DOMAIN Line(c)
  BY DEF Line
<1>2. "device_hint" \notin DOMAIN Sent(Line(c))
  <2> DEFINE line == Line(c)
  <2>1. "device_hint" \notin DOMAIN line
    BY <1>1
  <2> HIDE DEF line
  <2>2. "device_hint" \notin DOMAIN Sent(line)
    BY <2>1 DEF Sent
  <2> QED
    BY <2>2 DEF line
<1> QED
  BY <1>2 DEF Field, Has

\* CCM_GenerateKeyPair and CCM_GenerateSymKey have no key to use.
LEMMA KeysWritten ==
  ASSUME NEW c \in Calls, c.keys # <<>>, Returns(c) = "CCM_OK"
  PROVE  KeyTokens(c) = KeyRefs(c.keys)
<1>1. Len(c.keys) >= 1
  BY CallsAssumption, Places
<1>2. c.function \notin BareIndex
  <2> SUFFICES ASSUME c.function \in BareIndex PROVE FALSE
    OBVIOUS
  <2>1. c.function \in DOMAIN Required /\ Required[c.function][1] = 0
    BY DEF BareIndex, Required
  <2>2. <<Len(c.keys), Len(c.out)>> = Required[c.function]
    BY <2>1 DEF Returns, Incomplete
  <2> QED
    BY <1>1, <2>1, <2>2
<1> QED
  BY <1>2 DEF KeyTokens

\* The request carries the source and the device of the call's keys.
Carries(r, c) ==
  /\ r.call = c
  /\ r.hint = NoId
  /\ c.keys # <<>> => /\ r.source = c.keys[1].source
                      /\ r.keyDevice = NumberOf[c.keys[1].deviceId]

LEMMA RequestCarries ==
  ASSUME NEW c \in Calls, Returns(c) = "CCM_OK", KeysRead(c), Alike(c.keys)
  PROVE  Carries(Request(c), c)
<1>1. Request(c).call = c /\ Request(c).hint = NoId
  BY NoHint, NumberOfAssumption DEF Request
<1>2. ASSUME c.keys # <<>>
      PROVE  /\ Request(c).source = c.keys[1].source
             /\ Request(c).keyDevice = NumberOf[c.keys[1].deviceId]
  <2>1. Field(Sent(Line(c)), "key_ref", <<>>) = KeyRefs(c.keys)
    BY <1>2, KeysWritten DEF KeysRead
  <2>2. /\ Source(KeyRefs(c.keys)) = c.keys[1].source
        /\ Token(KeyRefs(c.keys), "device_id") = c.keys[1].deviceId
    BY <1>2, CallsAssumption, KeysArrive
  <2>3. /\ Request(c).source = Source(Field(Sent(Line(c)), "key_ref", <<>>))
        /\ Request(c).keyDevice
             = NumberOf[Token(Field(Sent(Line(c)), "key_ref", <<>>), "device_id")]
    BY DEF Request
  <2> QED
    BY <2>1, <2>2, <2>3
<1> QED
  BY <1>1, <1>2 DEF Carries

-----------------------------------------------------------------------------
(***************************************************************************)
(* Which devices serve a request, whatever it comes from: the device that  *)
(* a worker holds supports the current step, and of the steps before it    *)
(* each was executed by a device that supports it, all with the source     *)
(* that the gateway read.  The step of a device among the selected is its  *)
(* place there because a worker finishes one step after the other: that is *)
(* WorkInv.                                                                *)
(***************************************************************************)
FitSafe(v) ==
  /\ pc[v] = "idle" => selected[v] = <<>>
  /\ dev[v] # 0 => Supports(dev[v], Current(v).op, req[v].source)
  /\ \A i \in DOMAIN selected[v] : Supports(selected[v][i], Steps(req[v])[i].op, req[v].source)

FitInv == \A v \in Workers : FitSafe(v)

\* registry_acquire_candidate gives a device that supports the step.
LEMMA ChoiceSupports ==
  ASSUME NEW w, NEW s \in Choice(w)
  PROVE  Supports(s, Current(w).op, req[w].source)
  BY DEF Choice, Candidate, First, Best, Available, Fits

LEMMA AppendSupports ==
  ASSUME NEW steps, NEW source, NEW past \in Seq(Slots), NEW s \in Slots, NEW n,
         Len(past) = n - 1, n \in Nat, Supports(s, steps[n].op, source),
         \A i \in DOMAIN past : Supports(past[i], steps[i].op, source)
  PROVE  \A i \in DOMAIN Append(past, s) : Supports(Append(past, s)[i], steps[i].op, source)
<1>1. \A i \in DOMAIN Append(past, s) :
        \/ i \in DOMAIN past /\ Append(past, s)[i] = past[i]
        \/ Append(past, s)[i] = s /\ i = n
  OBVIOUS
<1> QED
  BY <1>1

LEMMA NextFitInv ==
  ASSUME TypeOK, WorkInv, FitInv, [Next]_vars
  PROVE  FitInv'
<1> SUFFICES ASSUME NEW v \in Workers PROVE FitSafe(v)'
  BY DEF FitInv
<1>1. FitSafe(v)
  BY DEF FitInv
<1> USE DEF TypeOK, FitSafe, Current
\* A step of another worker leaves everything that FitSafe(v) mentions alone.
<1>2. ASSUME UNCHANGED <<pc[v], req[v], step[v], dev[v], selected[v]>>
      PROVE  FitSafe(v)'
  BY <1>1, <1>2
<1>3. ASSUME NEW w \in Workers, NEW r \in Requests,
             Denied(w, r) \/ PinOk(w, r) \/ Malformed(w, r) \/ EmptySequence(w, r) \/ Start(w, r)
      PROVE  FitSafe(v)'
  <2>1. /\ pc[w] = "idle"
        /\ req' = [req EXCEPT ![w] = r]
        /\ UNCHANGED <<dev, selected>>
    BY <1>3 DEF Denied, PinOk, Malformed, EmptySequence, Start, Begin
  <2>2. pc'[w] # "idle" /\ (v # w => pc'[v] = pc[v] /\ step'[v] = step[v])
    BY <1>3 DEF Denied, PinOk, Malformed, EmptySequence, Start, Answer
  <2>3. CASE v = w
    <3>1. dev'[v] = 0 /\ selected'[v] = <<>>
      BY <1>1, <2>1, <2>3
    <3> QED
      BY <2>2, <2>3, <3>1
  <2>4. CASE v # w
    BY <1>2, <2>1, <2>2, <2>4
  <2> QED
    BY <2>3, <2>4
<1>4. ASSUME NEW w \in Workers, Acquire(w) PROVE FitSafe(v)'
  <2>1. PICK s \in Choice(w) : dev' = [dev EXCEPT ![w] = s]
    BY <1>4 DEF Acquire
  <2>2. Supports(s, Steps(req[w])[step[w]].op, req[w].source)
    BY <2>1, ChoiceSupports
  <2>3. /\ pc' = [pc EXCEPT ![w] = "holding"]
        /\ UNCHANGED <<req, step, selected>>
    BY <1>4 DEF Acquire
  <2> QED
    BY <1>1, <2>1, <2>2, <2>3
<1>5. ASSUME NEW w \in Workers, NoDevice(w) \/ StepFailed(w) PROVE FitSafe(v)'
  <2>1. /\ selected' = [selected EXCEPT ![w] = <<>>]
        /\ pc' = [pc EXCEPT ![w] = "reply"]
        /\ step' = [step EXCEPT ![w] = 0]
        /\ req' = req
    BY <1>5 DEF NoDevice, StepFailed, GiveBack, AnswerError, Answer
  <2>2. dev'[w] = 0 /\ (v # w => dev'[v] = dev[v])
    BY <1>5 DEF NoDevice, StepFailed, GiveBack
  <2>3. CASE v = w
    BY <2>1, <2>2, <2>3
  <2>4. CASE v # w
    BY <1>2, <2>1, <2>2, <2>4
  <2> QED
    BY <2>3, <2>4
<1>6. ASSUME NEW w \in Workers, Execute(w) PROVE FitSafe(v)'
  BY <1>1, <1>6 DEF Execute
<1>7. ASSUME NEW w \in Workers, NextStep(w) \/ LastStep(w) PROVE FitSafe(v)'
  <2>1. /\ pc[w] = "release"
        /\ dev' = [dev EXCEPT ![w] = 0]
        /\ selected' = [selected EXCEPT ![w] = Append(@, dev[w])]
        /\ req' = req
    BY <1>7 DEF NextStep, LastStep, StepDone, GiveBack
  <2>2. pc'[w] # "idle" /\ (v # w => pc'[v] = pc[v] /\ step'[v] = step[v])
    BY <1>7 DEF NextStep, LastStep, Answer
  <2>3. CASE v = w
    <3>1. dev[v] \in Slots /\ selected[v] \in Seq(Slots) /\ dev[v] # 0
      BY <2>1, <2>3
    <3>2. step[v] \in Nat /\ Len(selected[v]) = step[v] - 1
      BY <2>1, <2>3 DEF WorkInv, WorkSafe
    <3>3. \A i \in DOMAIN Append(selected[v], dev[v]) :
            Supports(Append(selected[v], dev[v])[i], Steps(req[v])[i].op, req[v].source)
      BY <1>1, <3>1, <3>2, AppendSupports
    <3>4. selected'[v] = Append(selected[v], dev[v]) /\ dev'[v] = 0 /\ req'[v] = req[v]
      BY <2>1, <2>3
    <3> QED
      BY <2>2, <2>3, <3>3, <3>4
  <2>4. CASE v # w
    BY <1>2, <2>1, <2>2, <2>4
  <2> QED
    BY <2>3, <2>4
<1>8. ASSUME NEW w \in Workers, Reset(w) PROVE FitSafe(v)'
  BY <1>1, <1>8 DEF Reset
<1>9. CASE UNCHANGED vars
  BY <1>2, <1>9 DEF vars
<1> QED
  BY <1>3, <1>4, <1>5, <1>6, <1>7, <1>8, <1>9 DEF Next

-----------------------------------------------------------------------------
(***************************************************************************)
(* The three properties of the path.  That the line arrives whole is what  *)
(* the other two rest on: a key_ref that is too long is read as if there   *)
(* were none, and the key is then used on any device.  What the theorems   *)
(* suppose of the calls is about hybrid calls only: that the ids of the    *)
(* two keys are short, and that the keys are alike, which the run          *)
(* Calls_hybrid shows to be necessary.                                     *)
(***************************************************************************)

\* Everything that a CCM function writes arrives, for every function and all
\* arguments that their types allow: one key of any length, or two whose ids
\* have at most 20 characters together (ccm_api.c:139, protocol.c:222).
THEOREM WholeLineArrivesCorrect ==
  ASSUME ShortPairs
  PROVE  SafeSpec => []WholeLineArrives
<1>1. ASSUME TypeOK PROVE WholeLineArrives
  <2> SUFFICES ASSUME NEW w \in Workers, Executing(w), NEW line, line = Sent(Line(req[w].call))
               PROVE  /\ \A field \in DOMAIN line : Has(line, field)
                      /\ LineWidth(line) < 2048
                      /\ Field(line, "key_ref", <<>>) = KeyTokens(req[w].call)
    BY DEF WholeLineArrives
  <2>1. req[w] \in Requests
    BY <1>1 DEF TypeOK, Executing
  <2>2. PICK c \in Calls : Returns(c) = "CCM_OK" /\ req[w] = Request(c)
    BY <2>1, RequestsOfCalls DEF CallRequests
  <2>3. req[w].call = c
    <3>1. Request(c).call = c
      BY DEF Request
    <3> QED
      BY <2>2, <3>1
  <2> QED
    BY <2>2, <2>3, CallArrives
<1> QED
  BY <1>1, TypeCorrect, PTL

KeysAlike == \A c \in Calls : Alike(c.keys)

LEMMA ExecutingCarries ==
  ASSUME TypeOK, WholeLineArrives, KeysAlike, NEW w \in Workers, Executing(w)
  PROVE  req[w].call \in Calls /\ Carries(req[w], req[w].call)
<1>1. req[w] \in Requests
  BY DEF TypeOK, Executing
<1>2. PICK c \in Calls : Returns(c) = "CCM_OK" /\ req[w] = Request(c)
  BY <1>1, RequestsOfCalls DEF CallRequests
<1>3. req[w].call = c
  <2>1. Request(c).call = c
    BY DEF Request
  <2> QED
    BY <1>2, <2>1
<1>4. KeysRead(c)
  BY <1>3 DEF WholeLineArrives, KeysRead
<1> QED
  BY <1>2, <1>3, <1>4, RequestCarries DEF KeysAlike

\* The key of any step is like the first one.
LEMMA StepKeyAlike ==
  ASSUME NEW w \in Workers, NEW i, req[w].call \in Calls, KeysAlike, req[w].call.keys # <<>>
  PROVE  /\ StepKey(w, i).source = req[w].call.keys[1].source
         /\ StepKey(w, i).deviceId = req[w].call.keys[1].deviceId
<1> DEFINE keys == req[w].call.keys
           n    == IF Len(keys) = 2 /\ Steps(req[w])[i].op[1] = "pqc" THEN 2 ELSE 1
<1>1. keys \in Seq(Keys) /\ Alike(keys)
  BY CallsAssumption DEF KeysAlike
<1>2. StepKey(w, i) = keys[n]
  BY DEF StepKey
<1> HIDE DEF keys
<1>3. 1 \in DOMAIN keys /\ DOMAIN keys = 1 .. Len(keys)
  BY <1>1, Places DEF keys
<1>4. n \in DOMAIN keys
  BY <1>3
<1> HIDE DEF n
<1> QED
  BY <1>1, <1>2, <1>3, <1>4 DEF Alike, keys

\* A device is given a key only if one of its capabilities allows keys of that
\* source, for every registry, every call and every number of workers, as long
\* as the keys of a hybrid call are alike and their ids short
\* (ccm_api.c:139, scheduler.c:118, resource.c:46).
THEOREM SourceAllowedCorrect ==
  ASSUME KeysAlike, ShortPairs
  PROVE  SafeSpec => []SourceAllowed
<1>1. Init => WorkInv /\ FitInv
  <2>1. Init => WorkInv
    BY DEF Init, WorkInv, WorkSafe, PayloadPerWorker
  <2>2. Init => FitInv
    BY DEF Init, FitInv, FitSafe
  <2> QED
    BY <2>1, <2>2
<1>2. ASSUME TypeOK, FitInv, WholeLineArrives PROVE SourceAllowed
  <2> SUFFICES ASSUME NEW w \in Workers, Executing(w), NEW x \in Served(w), req[w].call.keys # <<>>
               PROVE  Supports(x[2], Steps(req[w])[x[1]].op, StepKey(w, x[1]).source)
    BY DEF SourceAllowed
  <2>1. req[w].call \in Calls /\ req[w].source = req[w].call.keys[1].source
    BY <1>2, ExecutingCarries DEF Carries
  <2>2. Supports(x[2], Steps(req[w])[x[1]].op, req[w].source)
    BY <1>2 DEF FitInv, FitSafe, Served, Current
  <2>3. StepKey(w, x[1]).source = req[w].source
    BY <2>1, StepKeyAlike
  <2> QED
    BY <2>2, <2>3
<1> QED
  BY <1>1, <1>2, InitTypeOK, NextTypeOK, NextWorkInv, NextFitInv, WholeLineArrivesCorrect, PTL
     DEF SafeSpec

\* An internal key is used on the device that the caller's reference names and
\* on no other, and not at all if it names none, under the same two hypotheses:
\* what append_key_ref wrote (ccm_api.c:139) is what binds the request to the
\* device (scheduler.c:132).
THEOREM InternalKeyBoundCorrect ==
  ASSUME KeysAlike, ShortPairs
  PROVE  SafeSpec => []InternalKeyBound
<1>1. ASSUME TypeOK, InternalKeyStaysHome, WholeLineArrives PROVE InternalKeyBound
  <2> SUFFICES ASSUME NEW w \in Workers, Executing(w), NEW x \in Served(w),
                      req[w].call.keys # <<>>, StepKey(w, x[1]).source = 1
               PROVE  /\ StepKey(w, x[1]).deviceId # ""
                      /\ Devices[x[2]].id = NumberOf[StepKey(w, x[1]).deviceId]
    BY DEF InternalKeyBound
  <2>1. /\ req[w].call \in Calls
        /\ req[w].hint = NoId
        /\ req[w].source = req[w].call.keys[1].source
        /\ req[w].keyDevice = NumberOf[req[w].call.keys[1].deviceId]
    BY <1>1, ExecutingCarries DEF Carries
  <2>2. /\ StepKey(w, x[1]).source = req[w].source
        /\ NumberOf[StepKey(w, x[1]).deviceId] = req[w].keyDevice
    BY <2>1, StepKeyAlike
  <2>3. ~Unbound(req[w]) /\ Devices[x[2]].id = req[w].keyDevice
    <3>1. x[2] \in Slots /\ x[2] \in {dev[w]} \cup {selected[w][i] : i \in DOMAIN selected[w]}
      BY <1>1 DEF Served, TypeOK
    <3>2. x[2] # 0
      BY <3>1 DEF Slots
    <3> QED
      BY <1>1, <2>1, <2>2, <3>1, <3>2 DEF InternalKeyStaysHome, Executing
  <2>4. req[w].keyDevice # NoId
    BY <2>1, <2>2, <2>3 DEF Unbound
  <2> QED
    BY <2>2, <2>3, <2>4, NumberOfAssumption
<1> QED
  BY <1>1, TypeCorrect, InternalKeyStaysHomeCorrect, WholeLineArrivesCorrect, PTL

-----------------------------------------------------------------------------
(***************************************************************************)
(* The path as a whole: the gateway executes what was called.              *)
(***************************************************************************)

\* A line that a CCM function returns CCM_OK for is never refused by
\* parse_request_json (protocol.c:222), which has its own tables of domains,
\* actions and algorithm names; and the steps the scheduler makes of it are the
\* ones that the function stands for, under the names that CCM gives them
\* (ccm_api.c:35, protocol.c:157).
THEOREM EveryCallUnderstood ==
  ASSUME ShortPairs
  PROVE  \A c \in Calls : Returns(c) = "CCM_OK" =>
           ~Rejected(Line(c)) /\ Steps(Request(c)) = Asked(c)
  BY CallUnderstood

\* A request that a worker has is a call's.
LEMMA OfCall ==
  ASSUME ShortPairs, NEW r \in Requests
  PROVE  /\ r.call \in Calls
         /\ Steps(r) = Asked(r.call)
         /\ r.sequence = IF r.call.function \in Hybrid THEN Asked(r.call) ELSE NoSequence
         /\ ~IsCheckPin(r)
<1>1. PICK c \in Calls : Returns(c) = "CCM_OK" /\ r = Request(c)
  BY RequestsOfCalls DEF CallRequests
<1>2. r.call = c
  <2>1. Request(c).call = c
    BY DEF Request
  <2> QED
    BY <1>1, <2>1
<1>3. /\ Steps(r) = Asked(c)
      /\ r.sequence = IF c.function \in Hybrid THEN Asked(c) ELSE NoSequence
      /\ <<r.op[1], r.op[2]>> # CheckPinOp
  BY <1>1, CallUnderstood
<1> QED
  BY <1>2, <1>3 DEF IsCheckPin

\* parse_sequence accepts what the hybrid functions write.
LEMMA NeverBadSequence ==
  ASSUME ShortPairs, MaxSteps \in Nat, MaxSteps >= 2, NEW r \in Requests
  PROVE  ~BadSequence(r)
<1>1. CASE r.call.function \in Hybrid
  <2>1. r.sequence = Asked(r.call)
    BY <1>1, OfCall
  <2>2. PICK a, b : Asked(r.call) = <<a, b>> /\ a.type = "classic" /\ b.type = "pqc"
    BY <1>1 DEF Asked
  <2>3. \A i \in DOMAIN <<a, b>> : <<a, b>>[i] = a \/ <<a, b>>[i] = b
    OBVIOUS
  <2>4. Len(<<a, b>>) = 2 /\ a.type # "unknown" /\ b.type # "unknown"
    BY <2>2
  <2> QED
    BY <2>1, <2>2, <2>3, <2>4 DEF BadSequence
<1>2. CASE r.call.function \notin Hybrid
  BY <1>2, OfCall DEF BadSequence
<1> QED
  BY <1>1, <1>2

NeverBad == \A w \in Workers : status[w] # BadRequest

LEMMA NextNeverBad ==
  ASSUME ShortPairs, MaxSteps \in Nat, MaxSteps >= 2, TypeOK, NeverBad, [Next]_vars
  PROVE  NeverBad'
<1> USE DEF TypeOK, NeverBad
<1>0. /\ OK # BadRequest /\ Unauthorized # BadRequest
      /\ \A r : FailStatus(r) # BadRequest
  BY DEF OK, Unauthorized, BadRequest, FailStatus, NoResource, BackendFail
<1>1. ASSUME NEW w \in Workers, NEW r \in Requests, Malformed(w, r) PROVE FALSE
  BY <1>1, NeverBadSequence DEF Malformed
<1>2. ASSUME NEW w \in Workers, NEW r \in Requests,
             Denied(w, r) \/ PinOk(w, r) \/ EmptySequence(w, r) \/ Start(w, r)
      PROVE  NeverBad'
  BY <1>0, <1>2 DEF Denied, PinOk, EmptySequence, Start, Answer
<1>3. ASSUME NEW w \in Workers, Acquire(w) \/ Execute(w) \/ NextStep(w) PROVE NeverBad'
  BY <1>3 DEF Acquire, Execute, NextStep
<1>4. ASSUME NEW w \in Workers, NoDevice(w) \/ StepFailed(w) \/ LastStep(w) \/ Reset(w)
      PROVE  NeverBad'
  BY <1>0, <1>4 DEF NoDevice, StepFailed, LastStep, Reset, AnswerError, Answer
<1>5. CASE UNCHANGED vars
  BY <1>5 DEF vars
<1> QED
  BY <1>1, <1>2, <1>3, <1>4, <1>5 DEF Next

\* A call is never answered "bad request", and an answer OK carries the results
\* of the operations it asked for, all of them, in order, and of no others.
AnswersCall ==
  \A w \in Workers : Executing(w) =>
    /\ status[w] # BadRequest
    /\ pc[w] = "reply" /\ status[w] = OK =>
         payload[w] = [i \in DOMAIN Asked(req[w].call) |-> Asked(req[w].call)[i].op]

\* From the caller to the devices and back: whatever CCM function is called with
\* whatever algorithm and keys, the gateway never calls the line malformed
\* (scheduler.c:288), and when it answers OK the result is that of the caller's
\* own operations, whatever the other workers do (ccm_api.c:104, scheduler.c:295).
\* The build's MAX_SEQUENCE_STEPS must leave room for a hybrid call's two steps.
THEOREM AnswersCallCorrect ==
  ASSUME ShortPairs, MaxSteps \in Nat, MaxSteps >= 2
  PROVE  SafeSpec => []AnswersCall
<1>1. Init => NeverBad
  BY DEF Init, NeverBad, OK, BadRequest
<1>2. ASSUME TypeOK, NeverBad, ReplyMatchesWork PROVE AnswersCall
  <2> SUFFICES ASSUME NEW w \in Workers, Executing(w), pc[w] = "reply", status[w] = OK
               PROVE  payload[w] = [i \in DOMAIN Asked(req[w].call) |-> Asked(req[w].call)[i].op]
    BY <1>2 DEF AnswersCall, NeverBad
  <2>1. req[w] \in Requests
    BY <1>2 DEF TypeOK, Executing
  <2>2. Steps(req[w]) = Asked(req[w].call) /\ ~IsCheckPin(req[w])
    BY <2>1, OfCall
  <2>3. payload[w] = [i \in DOMAIN Steps(req[w]) |-> Steps(req[w])[i].op]
    BY <1>2, <2>2 DEF ReplyMatchesWork
  <2> QED
    BY <2>2, <2>3
<1>3. TypeOK /\ NeverBad /\ [Next]_vars => NeverBad'
  BY NextNeverBad
<1> QED
  BY <1>1, <1>2, <1>3, TypeCorrect, ReplyMatchesWorkCorrect, PTL DEF SafeSpec

=============================================================================
