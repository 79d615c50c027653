---------------------------- MODULE ConfigLoader ----------------------------
(***************************************************************************)
(* main.c and config.c: how the gateway starts.  It reads the file of      *)
(* devices line by line and capability by capability, then the file of     *)
(* settings, and serves only if both were good.                            *)
(*                                                                         *)
(* A file of devices is a sequence of lines.  A line is a comment or has   *)
(* some filled columns; the first eight describe the device, the ninth is  *)
(* its list of capabilities.  A capability is the sequence of its parts,   *)
(* which ":" separates in the text.  A file of settings is a sequence of   *)
(* lines <<key, value>>.                                                   *)
(***************************************************************************)
EXTENDS Protocol, Integers, FiniteSets

CONSTANTS DeviceFiles,    \* the files of devices the gateway may be started with
          SettingsFiles,  \* the files of settings
          NoFile,         \* a file that cannot be opened
          NoPin,          \* the empty gateway_pin
          MaxDevices,     \* MAX_DEVICES
          MaxCaps,        \* MAX_CAPS
          ColumnSize      \* sizeof(caps), the buffer of the ninth column

VARIABLES
  phase,      \* what the program is doing
  devices,    \* the file of devices
  settings,   \* the file of settings
  at,         \* the line it reads
  todo,       \* the capabilities of this line that are left to parse
  caps,       \* device.caps[0 .. cap_count - 1]
  registry,   \* registry.devices[0 .. count - 1]
  pin         \* gateway_settings.gateway_pin

vars == <<phase, devices, settings, at, todo, caps, registry, pin>>

Phases == {"devices", "capabilities", "settings", "serving", "failed"}

Columns == 9

-----------------------------------------------------------------------------
(***************************************************************************)
(* Texts.  snprintf keeps the first ColumnSize - 1 characters of the       *)
(* column, so the capability they end in may lose its end.                 *)
(***************************************************************************)
Least(m, n) == IF m < n THEN m ELSE n

\* Where item i begins in items of these widths with one separator between.
Offset(widths, i) ==
  LET before[k \in 1 .. Len(widths)] ==
        IF k = 1 THEN 0 ELSE before[k - 1] + widths[k - 1] + 1
  IN  before[i]

PartWidths(parts) == [i \in DOMAIN parts |-> Len(parts[i])]

Width(parts) == Offset(PartWidths(parts), Len(parts)) + Len(parts[Len(parts)])

\* The parts that the first n characters of the text have.
Cut(parts, n) ==
  LET begins == [i \in DOMAIN parts |-> Offset(PartWidths(parts), i)]
      kept   == Cardinality({i \in DOMAIN parts : begins[i] <= n})
  IN  [i \in 1 .. kept |-> SubSeq(parts[i], 1, Least(Len(parts[i]), n - begins[i]))]

\* The column as the loader gets it.
Column(texts) ==
  LET begins == [i \in DOMAIN texts |-> Offset([j \in DOMAIN texts |-> Width(texts[j])], i)]
      kept   == Cardinality({i \in DOMAIN texts : begins[i] < ColumnSize - 1})
  IN  [i \in 1 .. kept |-> Cut(texts[i], ColumnSize - 1 - begins[i])]

-----------------------------------------------------------------------------
\* key_source_mask_for, as the set of the sources in the mask.
Mask(text) ==
  IF text \in {"", "any"} THEN 1 .. 4 ELSE {Source(<< <<"source", text>> >>)} \ {0}

\* parse_capability: the fourth part reaches to the end of the text, so a
\* text of five parts names a source that does not exist.
Valid(parts) ==
  /\ Len(parts) \in {3, 4}
  /\ parts[1] \in Domains
  /\ parts[2] \in Actions
  /\ Len(parts) = 4 => Mask(parts[4]) # {}

Capability(parts) ==
  <<parts[1], parts[2], NormalAlgorithm(parts[3]),
    IF Len(parts) = 3 THEN 1 .. 4 ELSE Mask(parts[4])>>

Device(line, list) ==
  [id |-> line.id, type |-> DeviceType(line.type), profile |-> line.profile,
   priority |-> line.priority, enabled |-> line.enabled = "1", max |-> line.max,
   security |-> line.security, efficiency |-> line.efficiency, caps |-> list]

IsDevice(line) == ~line.comment /\ line.columns >= Columns

-----------------------------------------------------------------------------
(* The constants *)

\* A text is a sequence of characters.
IsText(text) == Len(text) \in Nat /\ SubSeq(text, 1, Len(text)) = text

\* What a column lists: strtok_r never returns an empty item, so each of them
\* has a first part.
IsColumn(texts) ==
  /\ texts \in Seq(Seq(STRING) \ {<<>>})
  /\ \A i \in DOMAIN texts : \A j \in DOMAIN texts[i] : IsText(texts[i][j])

ASSUME LimitsAssumption == MaxDevices \in Nat /\ MaxCaps \in Nat /\ ColumnSize \in Nat \ {0}

ASSUME DeviceFilesAssumption ==
  \A file \in DeviceFiles \ {NoFile} :
    /\ file \in Seq({file[i] : i \in DOMAIN file})
    /\ \A i \in DOMAIN file : IsDevice(file[i]) => IsColumn(file[i].caps)

ASSUME SettingsFilesAssumption == SettingsFiles \ {NoFile} \subseteq Seq(STRING \X STRING)

-----------------------------------------------------------------------------
Init ==
  /\ phase = "devices"
  /\ devices \in DeviceFiles
  /\ settings \in SettingsFiles
  /\ at = 1
  /\ todo = <<>> /\ caps = <<>> /\ registry = <<>>
  /\ pin = NoPin

Fail ==
  /\ phase' = "failed"
  /\ UNCHANGED <<devices, settings, at, todo, caps, registry, pin>>

ReadingDevices == phase = "devices" /\ devices # NoFile /\ at <= Len(devices)

\* A comment, an empty line, or one with a column missing.
SkipLine ==
  /\ ReadingDevices
  /\ ~IsDevice(devices[at])
  /\ at' = at + 1
  /\ UNCHANGED <<phase, devices, settings, todo, caps, registry, pin>>

\* A plausible error in the code: the record of the device is not cleared.
ReadColumnsUncleared ==
  /\ ReadingDevices
  /\ IsDevice(devices[at])
  /\ phase' = "capabilities"
  /\ todo' = Column(devices[at].caps)
  /\ UNCHANGED <<devices, settings, at, caps, registry, pin>>

ReadColumns ==
  /\ ReadingDevices
  /\ IsDevice(devices[at])
  /\ phase' = "capabilities"
  /\ todo' = Column(devices[at].caps)
  /\ caps' = <<>>
  /\ UNCHANGED <<devices, settings, at, registry, pin>>

RefuseCapability ==
  /\ phase = "capabilities" /\ todo # <<>>
  /\ Len(caps) >= MaxCaps \/ ~Valid(Head(todo))
  /\ Fail

\* A plausible error in the code: the limit is not tested.
ReadCapabilityUnbounded ==
  /\ phase = "capabilities" /\ todo # <<>>
  /\ Valid(Head(todo))
  /\ caps' = Append(caps, Capability(Head(todo)))
  /\ todo' = Tail(todo)
  /\ UNCHANGED <<phase, devices, settings, at, registry, pin>>

ReadCapability ==
  /\ phase = "capabilities" /\ todo # <<>>
  /\ Len(caps) < MaxCaps /\ Valid(Head(todo))
  /\ caps' = Append(caps, Capability(Head(todo)))
  /\ todo' = Tail(todo)
  /\ UNCHANGED <<phase, devices, settings, at, registry, pin>>

\* registry_add refuses the device.
RegistryFull ==
  /\ phase = "capabilities" /\ todo = <<>>
  /\ Len(registry) >= MaxDevices
  /\ Fail

\* A plausible error in the code: a full registry drops the device.
RegisterDropped ==
  /\ phase = "capabilities" /\ todo = <<>>
  /\ registry' = IF Len(registry) < MaxDevices
                 THEN Append(registry, Device(devices[at], caps)) ELSE registry
  /\ phase' = "devices"
  /\ at' = at + 1
  /\ UNCHANGED <<devices, settings, todo, caps, pin>>

Register ==
  /\ phase = "capabilities" /\ todo = <<>>
  /\ Len(registry) < MaxDevices
  /\ registry' = Append(registry, Device(devices[at], caps))
  /\ phase' = "devices"
  /\ at' = at + 1
  /\ UNCHANGED <<devices, settings, todo, caps, pin>>

EndOfDevices ==
  /\ phase = "devices" /\ devices # NoFile
  /\ at > Len(devices)
  /\ phase' = "settings"
  /\ at' = 1
  /\ UNCHANGED <<devices, settings, todo, caps, registry, pin>>

CannotOpen ==
  /\ \/ phase = "devices" /\ devices = NoFile
     \/ phase = "settings" /\ settings = NoFile
  /\ Fail

\* The last gateway_pin of the file counts, also an empty one.
ReadSetting ==
  /\ phase = "settings" /\ settings # NoFile
  /\ at <= Len(settings)
  /\ pin' = IF settings[at][1] = "gateway_pin" THEN settings[at][2] ELSE pin
  /\ at' = at + 1
  /\ UNCHANGED <<phase, devices, settings, todo, caps, registry>>

SettingsRead == phase = "settings" /\ settings # NoFile /\ at > Len(settings)

PinMissing ==
  /\ SettingsRead
  /\ pin = NoPin
  /\ Fail

\* A plausible error in the code: it is enough that the key is in the file.
ServeIfNamed ==
  /\ SettingsRead
  /\ \E i \in DOMAIN settings : settings[i][1] = "gateway_pin"
  /\ phase' = "serving"
  /\ UNCHANGED <<devices, settings, at, todo, caps, registry, pin>>

\* server_run
Serve ==
  /\ SettingsRead
  /\ pin # NoPin
  /\ phase' = "serving"
  /\ UNCHANGED <<devices, settings, at, todo, caps, registry, pin>>

Next == \/ SkipLine \/ ReadColumns \/ ReadCapability \/ RefuseCapability
        \/ Register \/ RegistryFull \/ EndOfDevices \/ CannotOpen
        \/ ReadSetting \/ PinMissing \/ Serve

SafeSpec == Init /\ [][Next]_vars

-----------------------------------------------------------------------------
TypeOK ==
  /\ phase \in Phases
  /\ at \in Nat \ {0}
  /\ Len(registry) <= MaxDevices
  /\ Len(caps) <= MaxCaps
  /\ \A i \in DOMAIN registry : Len(registry[i].caps) <= MaxCaps

\* The devices that the first n lines of a file declare, read without any limit.
Declarations(file) ==
  LET first[n \in 0 .. Len(file)] ==
        IF n = 0 THEN <<>>
        ELSE IF IsDevice(file[n]) THEN Append(first[n - 1], file[n]) ELSE first[n - 1]
  IN  first

Declared == Declarations(devices)[Len(devices)]

AsDeclared(line) == Device(line, [j \in DOMAIN line.caps |-> Capability(line.caps[j])])

ColumnFits(line) == Column(line.caps) = line.caps

\* A gateway that serves has loaded its whole file, every device with every
\* capability and nothing else, or it does not serve: one bad capability, one
\* too many or one device too many stops it, with no device half loaded
\* (config.c:99-121, main.c:30-34).  Only columns that fit the buffer are
\* promised that.
RegisteredAsDeclared ==
  phase = "serving" /\ (\A i \in DOMAIN Declared : ColumnFits(Declared[i])) =>
    /\ registry = [i \in DOMAIN Declared |-> AsDeclared(Declared[i])]
    /\ \A i \in DOMAIN Declared : \A j \in DOMAIN Declared[i].caps : Valid(Declared[i].caps[j])

\* What the 512 bytes of config.c:101 do to a longer column: the capabilities
\* that are registered are the first ones of the same line, in order, and only
\* the last of them can differ from what is written.  The devices before it and
\* after it are not touched.
OnlyTheLastIsCut ==
  devices # NoFile =>
    \A i \in DOMAIN registry :
      LET kept == registry[i].caps
      IN  /\ [registry[i] EXCEPT !.caps = <<>>] = Device(Declared[i], <<>>)
          /\ Len(kept) <= Len(Declared[i].caps)
          /\ \A j \in 1 .. Len(kept) - 1 : kept[j] = Capability(Declared[i].caps[j])

\* The scheduler takes an empty gateway_pin for "no PIN needed" (scheduler.c:39),
\* so a gateway must never serve without one: whatever lines the file has, it
\* serves with the value of the last gateway_pin, and that is not empty
\* (config.c:150-157).
ServesWithPin ==
  phase = "serving" =>
    /\ pin # NoPin
    /\ \E i \in DOMAIN settings :
         /\ settings[i] = <<"gateway_pin", pin>>
         /\ \A j \in i + 1 .. Len(settings) : settings[j][1] # "gateway_pin"

\* The registry as the scheduler sees it, where the order of a device's
\* capabilities means nothing.
Loaded == INSTANCE Registry WITH
  NoId    <- 0,
  Devices <- [i \in DOMAIN registry |->
               [registry[i] EXCEPT !.caps = {registry[i].caps[j] : j \in DOMAIN registry[i].caps}]]

\* The files say that their ninth column lists the capabilities of the device,
\* the documentation that these are declared there and that scheduling goes by
\* them; so a gateway that serves supports every capability in its file.
DeclaredIsSupported ==
  phase = "serving" =>
    \A i \in DOMAIN registry : \A j \in DOMAIN Declared[i].caps :
      Loaded!Supports(i, SubSeq(Capability(Declared[i].caps[j]), 1, 3), 0)

=============================================================================
