# UCiSDK gateway: TLA+ models, checks and proofs

This directory specifies the C program of this repository, a gateway that
accepts cryptographic requests on a Unix socket, queues them, picks a device
for each and has an adapter execute them. Paths below are relative to the
repository's root; `queue.c` and so on are under `src/server/`.

## 1. Inventory

| component (files) | state | operations | hard behaviour | what makes it correct |
|---|---|---|---|---|
| Job queue (`gateway/queue.c`) | ring `items`, `head`, `tail`, `count`, `stop`, a mutex, two condition variables | `queue_push`, `queue_pop`, `queue_stop` | lost wake-ups, spurious wake-ups, blocking at the limit, stop while threads sleep | first in first out, nothing lost or doubled, nobody sleeps beside work, stop drains and wakes everybody |
| Gateway server (`gateway/server.c`) | `g_stop`, the listening socket, descriptors in the accept loop and in jobs, the worker threads | `server_run`, `worker_main`, `read_line`, `write_response_and_close`, `on_signal` | signals against `accept`, clients that leave or stay silent, SIGPIPE, shutdown with queued jobs | each connection has one owner and is closed once; requests are answered; shutdown ends |
| Device registry (`service/resource.c`) | the devices with their `inflight` counters, one mutex | `registry_acquire_candidate`, `registry_release`, `device_supports`, `better_candidate` | limits under concurrency, release on every path | the counter is the number of holders and never exceeds the limit |
| Scheduler (`service/scheduler.c`) | none of its own; one activation per worker | `scheduler_execute`: PIN, key binding, sequences, single steps | a step of several fails, devices taken between two steps, hints against types | no device without the PIN, internal keys stay on their device, answers tell what ran |
| Translator (`service/translator.c`) | constant rule table | `translate_backend_call` | a capability without a rule | a chosen device can execute the operation |
| Simulated adapters (`driver/driver_*.c`) | none | one handler per domain | unsupported operations | as above |
| SKF adapter (`driver/skf_adapter.c`) | per call: library, device, application, container, key handles | seven handlers | failure after some handles are open | every handle is closed, the library unloaded |
| JSON protocol (`gateway/protocol.c`) | none | `parse_request_json`, `response_to_json` | a field too long for its buffer counts as absent | what is executed is what was asked |
| Configuration (`service/config.c`, `gateway/main.c`) | none; fills the registry | `load_resources_from_file`, `load_gateway_settings` | buffer limits, errors in the middle of a file, duplicate ids | the gateway serves with what its file says and a PIN, or not at all |
| CCM client API (`src/client/api`) | none | `CCM_*` build one JSON request | buffers declared twice, in client and gateway; one key_ref for two keys | the request arrives whole and is executed with the keys of the call |
| Client transport (`src/client/transport`) | one socket | connect, send, receive | partial reads and writes | one request, one response |
| `log.c` | none | log lines | - | - |

How they interact: the main thread accepts a connection, reads and parses one
line, and pushes a job (descriptor and request) into the queue. A worker pops
it, calls `scheduler_execute`, writes the response and closes the descriptor.
The scheduler asks the registry for a device, the translator for a rule and
the adapter for the result, and gives the device back. Main thread and workers
share the queue (one mutex); the workers share the registry (another mutex).
Nothing is persisted. `SIGINT` and `SIGTERM` set `g_stop`; the main thread
then stops the queue and joins the workers. Before all that `main` loads the
devices and the PIN. The client library stands apart: a CCM function builds the
line of JSON for its arguments in a local buffer, checks that it fits, and
returns. What sends a line is the separate client transport, to which the
repository's CCM functions are not connected.

## 2. Modules

| module | what it is |
|---|---|
| `FifoQueue` | abstract: what the job queue promises, a bounded FIFO that can be closed |
| `JobQueue` | `queue.c` in detail; refines `FifoQueue` |
| `JobQueueProofs` | theorems about `JobQueue` |
| `Gateway` | `server.c`, its clients and signals, composed with `FifoQueue` |
| `GatewayProofs` | theorems about `Gateway` |
| `Registry` | `resource.c` as operators on the in-flight counters |
| `Backends` | rule table, adapters' handlers and dispatch as operators |
| `Scheduler` | `scheduler.c` run by several workers, over `Registry` and `Backends` |
| `SchedulerProofs` | theorems about `Scheduler` and `Registry` |
| `DriverCall` | abstract: what an adapter promises about one call |
| `SkfAdapter` | `skf_adapter.c` in detail; refines `DriverCall` |
| `SkfAdapterProofs` | theorems about `SkfAdapter` |
| `Protocol` | `parse_request_json` and the parsers of names and key references, as operators |
| `ConfigLoader` | `config.c` and `main.c`, over `Protocol` |
| `ConfigLoaderProofs` | theorems about `ConfigLoader` |
| `CcmApi` | `ccm_api.c`: the line each CCM function builds, as operators |
| `CallPath` | `CcmApi`, `Protocol` and `Scheduler` composed: from a CCM call to a device |
| `LineProofs` | lemmas about the lines of `CcmApi`: their lengths, and what the parser makes of them |
| `CallPathProofs` | theorems about `CallPath` |
| `Descent` | the induction that the proofs about recursive functions and sums use |
| `MCJobQueue`, `MCGateway`, `MCScheduler`, `MCSkfAdapter`, `MCConfigLoader`, `MCCallPath` | instances for TLC |

Every component is checked against the abstraction of the one below it:
`Gateway` uses `FifoQueue`, which `JobQueue` is shown to implement, and lets a
worker's handling of a request be one step, which `Scheduler` details.
`Scheduler`'s `Execute` lets an adapter succeed or fail in one step and assumes
that it returns; `SkfAdapter` is shown to do that (`ImplementsDriver`,
`CallReturns`). `Scheduler` starts from a constant registry, which is what
`ConfigLoader` ends with.

### JobQueue

One action is one section of code under the mutex, from the test of the
`while` loop to the unlock or the `pthread_cond_wait`; that is the granularity
at which other threads can interfere. `at[t]` says where thread `t` is:
`"idle"` outside the queue, `"locking"` before (or about to repeat) the test,
`"waiting"` asleep, `"ended"` for a worker whose pop returned -1.

| action | code |
|---|---|
| `CallPush`, `PushWait`, `PushRefused`, `PushStore` | entry, lines 14-16, 17-20, 21-26 of `queue_push` |
| `CallPop`, `PopWait`, `PopEnd`, `PopTake` | the worker's loop, lines 31-33, 34-37, 38-43 of `queue_pop` |
| `Stop` | `queue_stop` |
| `SpuriousWakeup` | POSIX allows it |

`Signalled` lets a signal wake any one sleeper; being woken means going back
to `"locking"`, where anybody else may come first.

### Gateway

`pc` is the main thread's place in `server_run`, `conn` its `client_fd`,
`backlog` the kernel's queue for `accept`, `link`/`line` the client's end of a
connection and `answer` the gateway's end. `Recycle` gives a closed
descriptor's number to a new client. `WriteAndClose` has the outcomes of
`write_response_and_close`: answered; not written because the JSON does not
fit; or the process killed by SIGPIPE because the client left, before the
first write or between two. The program is compiled with `-std=c11`, so
`signal()` is the System V one (the binary in `bin/` imports
`__sysv_signal`): handlers run once, `SecondSignal` kills the process, and a
signal that finds the main thread in `accept` may or may not interrupt it
(the thread may not have reached the system call, or a worker ran the handler).
`AcceptFails` is every error of `accept` but EINTR.

### Scheduler, Registry, Backends

`pc[w]` is worker `w`'s place in `scheduler_execute`. `Begin` with `Denied`,
`PinOk`, `Malformed`, `EmptySequence` or `Start` is the part before the first
step; a step is `Acquire` (or `NoDevice`), `Execute`, and `GiveBack` with
`StepFailed`, `NextStep` or `LastStep`. Acquire and release are atomic (the
registry's mutex); between them every other worker may run. `Candidate` is
`registry_acquire_candidate`: the hint, or the first device type that has an
available device and the best device of that type by `better_candidate`.
`Best` says which device that is; `BestSoFar` is the loop that finds it, with
`BetterCandidate` as the code has it, and `AcquireCandidate` is the whole function
with its loops and early returns; theorems say that they agree. A device whose type
the loader does not know (`parse_device_type` answers `DEV_UNKNOWN`, and
`config.c:80` keeps the device) is in the registry too: `build_order` never tries it,
so that it serves those who name it, and nobody else.
`Release` finds the device by id (`Namesakes`), as the code does. `Outcomes` says how
translation and dispatch may end: no rule or no handler fails, the simulated
adapters succeed, the SKF adapter may do either.

Data abstraction: a request is a record of what the scheduler branches on. An
algorithm name, a key id and a PIN are constants. A payload is the list of the
operations that produced it. Texts, traces and log lines are left out.

### SkfAdapter

A call has everything on its own stack, so one call at a time is modelled, of
one vendor library that exports any subset of the optional symbols. `pc` goes
through the stages every handler shares: `"load"`, `"connect"`, `"app"`,
`"pin"`, `"container"`, `"key"`, `"work"`, and then the closing stages in the
order of `close_session` and `close_runtime`. `NeedsApp`, `NeedsContainer` and
`NeedsKey` say which stages the handler of an operation has.

| action | code |
|---|---|
| `RejectInput` | a payload or key that does not decode, before anything is open |
| `LoadFails`, `Load` | `open_runtime` |
| `Connect`, `ConnectFails` | `open_device` and `open_base` |
| `OpenApp`, `SkipPin`, `VerifyPin`, `OpenContainer`, `OpenFails` | `open_app_container` and its label `fail` |
| `OpenKey` | `SKF_SetSymmKey`, `SKF_DigestInit` |
| `Work`, `WorkFails` | the vendor's operation |
| `CloseKey` ... `Unload` | the label `done`, `finalize_error_or_success` |

`sess` is what the program believes to be open (handles that are not NULL),
`held` what is open at the vendor's; `misused` records any call with a handle
for which the two do not fit. `ready` is whether `open_device` has cleared the
session: before that, its handles are arbitrary stack contents. Any vendor call may
fail, a close too: the code ignores what a close answers (`Close`), and `refused` are
the handles that the vendor then keeps open. `Work` does the operation and sets `rc` in
one step, since no handler has anything that can fail in between. `PinBeforeKey` is about
containers that are opened: `destroy_key` deletes one with the application alone, and
the adapter asks for no PIN there (`skf_adapter.c:558`, `:600`).

### ConfigLoader and Protocol

One action is one turn of a loop: a line, a capability, a setting; or one of
the ways to fail. Texts are strings as far as the loader takes them apart:
`Column` is the ninth column cut to its buffer, with the last capability
possibly cut inside one of its parts (`Cut`), and `Valid` and `Capability` are
`parse_capability` on what is left. A line of JSON (`Protocol`) is a function
from field names to texts with a width; `Has` is whether `extract_json_string`
finds the field and it fits. Letter case and blanks are left out, and so is
that the parser searches the line for the quoted name and could find it as a
value; no value CCM writes is the name of a field.

### CcmApi and CallPath

`Line(call)` is the line a function builds, with the tokens of `key_ref`,
`payload` and `aux_payload` and the exact widths of all fields but
`request_id`, which is the function's name here and of similar length in the
code. Lengths are sums over the tokens and fields (`SumOf`, `LineWidth`). A structure
that is NULL (`Absent`) leaves out its tokens, or is an error if the function needs it
(`Required`, `NotNull`, `Incomplete`). `Returns` is the error code; CCM_ERR_BUFFER_TOO_SMALL
is not among them, as the arguments that section 5 assumes fit the client's buffers: a `key_ref`
has at most 487 of 511 characters, a payload 299 and an auxiliary payload 787 of 1023.
A text of tokens is a sequence of pairs, which is what arrives only
if no id has a semicolon: `append_key_ref` writes ids as they are (`ccm_api.c:147-154`) and
`key_ref_get_token` splits at every semicolon (`scheduler.c:98`), so that an id with
`;device_id=` in it would bind its key to another device. `IdsAssumption` excludes that, and the
characters that `append_json_string` writes as two or six. `CallPath` sends each line (with a
PIN, which no CCM function writes, added by the sender) through `Request`, the
parser, to `Scheduler`. It checks the contract between the two ends of the
protocol; it does not claim that they are connected, which they are not.

## 3. Runs

| run | instance | shows |
|---|---|---|
| `JobQueue_safety` | 2 producers, 2 workers, 4 jobs, depth 2 | `NoSleepingConsumer`, `NoSleepingProducer`, `StopWakesAll`, `EndedMeansDrained`, `OneOwner`, and every step is a step of the FIFO (`ImplementsFifo`) |
| `JobQueue_live` | the gateway's single producer, 2 workers, 3 jobs, depth 2 | `QueuedIsServed`, `StopEndsConsumers`, `PushReturns`, and the FIFO's own liveness |
| `Gateway_live` | 3 connections, 2 workers, depth 1, backlog 2, one signal that may come twice | `OneOwner`, `ClosedOnce`, `PushNeverRefused`, `ExitDrains`, and `RequestAnswered`, `BacklogServed`, `StopEnds` |
| `Scheduler_requests` | 2 workers, 16 requests, the devices of both configuration files | `InternalKeyStaysHome`, `ReplyMatchesWork`, `PinGuardsDevices`, `EveryRequestAnswered` |
| `Scheduler_load` | 3 workers, 6 requests that compete, three entries of one id, one of them with a negative limit, and a device of an unknown type | `InflightExact`, `NeverOverbooked`, `NamesakesNeverOverbooked`, `RefusedOnlyWhenBusy` |
| `Scheduler_managed` | 2 workers, 1 managed key | violated: see findings |
| `Scheduler_declared` | 1 worker | violated: see findings |
| `Skf_calls` | every operation of the device, libraries that lack symbols, application and PIN set or not | `NoMisuse`, `LeaksOnlyUnclosable`, `PinBeforeKey`, `ImplementsDriver`, `CallReturns` |
| `Config_small` | files of up to three devices and four capabilities, with limits of two and three and a buffer of 56 characters | `RegisteredAsDeclared`, `OnlyTheLastIsCut`, `ServesWithPin` |
| `Config_real` | the shipped files and the limits of the code | violated: see findings |
| `Calls_keys` | every CCM function that builds a line, keys of every source, NULL structures, short and longest arguments, devices like those of both configuration files | `InternalKeyBound`, `SourceAllowed`, `WholeLineArrives` |
| `Calls_hybrid` | `CCM_HybridSign` with two internal keys of two devices | violated: see findings |

**Bounds.** The real ring has 128 slots, there are 4 workers and limits of 8
per device. What can go wrong happens at full, empty and wrap-around: depth 2
wraps, fills and empties with two threads asleep on each condition; the
theorems cover the other depths and numbers of threads. With depth 1 and three
connections the gateway's accept loop blocks in the push while both workers
are busy and a connection waits in the backlog. Device limits are 1 and 2
so that three workers reach each of them. Sequences have up to `MaxSteps` = 4
steps as in the code (`MAX_SEQUENCE_STEPS`), and one request has five.
The loader's buffer of 56 characters lets the cut fall between two capabilities
and into each part of one, at every offset that six capabilities of three
lengths give. The longest arguments of a CCM call are ids of 63
characters (`ccm.h:99`), 32-bit numbers and 48-bit pointers, and the largest
values of the enumerations: their key reference has 243 characters, the
gateway's buffer 255. One worker is enough there: what is asked is what becomes
of a request, not what requests do to each other. The functions that use two
keys have keys of short ids there, since two long references do not fit (see
findings). A gateway loads one configuration file; the instances of `Scheduler` and
`CallPath` have the devices of both, so that software, classic, post-quantum and SKF
devices compete, and `gm3000-1` with capabilities its line declares, although the loader drops
some of them from the shipped line (`Config_real`).
Deadlock is checked in every run but those of `ConfigLoader`, where a start
ends. `Gateway` has a step `Ended` that repeats
the final state, because the process may really end; in `JobQueue` and
`Scheduler` a thread can always be called again, or is woken.

**Fairness.** `JobQueue`: every thread inside the queue runs and gets the mutex
(weak fairness), and a worker finishes its job; nothing is assumed of new jobs,
of `queue_stop` or of spurious wake-ups. `PushReturns` is about one producer:
with several, pthread mutexes give no order and one could be overtaken for
ever, so the property is not claimed there. `Scheduler`: a worker inside a request goes on.
`SkfAdapter`: vendor calls return, with success or without.
`Gateway`: main thread and workers run; clients, signals and failures are
free. `Gateway_live` assumes in addition that a connected client writes its
line or leaves (`ClientFairness`). That is not guaranteed by the server:
`read_line` has no timeout and runs in the accept loop, so a silent client
holds up everybody. The repository's own client always writes.

**What the properties exclude, on purpose.** All liveness of the gateway is
"or the process is dead" (`~alive`), since SIGPIPE and a second signal kill
it. `StopEnds` does not cover a main thread inside `accept`, which may have
missed the signal and then ends only after the next connection.

**Mutants.** The blocks "plausible errors" hold variants of a definition (a
missing signal, broadcast, release, wrap, PIN test, close, join ...). No
specification uses them; each property is violated when one of them replaces
the definition it is a variant of.

## 4. Findings

* `Scheduler_managed`: `README.md:249` says that a managed-key request is mapped
  by its `key_id` to a device and a key location, and
  `module3_scheduler_drivers.md:21` that this comes before the capability
  match. The code never reads `key_id`: only `internal_index` keys bind a
  device (`scheduler.c:141`). TLC executes one managed key on two devices.
* `Scheduler_declared`: `docs/adapter_guide.md:522` wants every supported
  capability to work end to end. `configs/devices.conf:4` declares
  `hash:hash:sm3` for `softlib-1`, the table has no rule for it
  (`translator.c:39` is the profile's only one), and a hash request that
  prefers efficiency fails although `classic-1` is free.
* `Config_real`: `README.md:204` says that the file of devices declares their
  capabilities. The column of `gm3000-1` (`configs/gm3000-devices.conf:2`) has
  837 characters; `config.c:101` keeps 511, which are 22 of its 38
  capabilities, and says nothing. The last one kept happens to be whole.
  `OnlyTheLastIsCut` (a run that passes) says what a cut can do in general;
  where it falls into the algorithm or the source of a capability the loader
  may accept what is left, and an empty rest means "any".
* `Calls_hybrid`: `README.md:249` wants every request with an internal key to
  resolve to the key's device. `CCM_HybridSign` writes two key references one
  after the other (`ccm_api.c:243`) and the scheduler reads the first token of
  each name, so the second key is used on the device of the first. With ids of
  full length the two together have 487 characters, which the client's buffer
  takes and the gateway's does not: the request is executed as if it had no key.
  The run has a `gm3000-1` with classic and post-quantum capabilities, as declared;
  as loaded from the shipped file it has none of the latter, and the second step
  finds no device.

Three observations have no run. A library without a required symbol is never
unloaded (`skf_adapter.c:134` returns from `open_runtime`, and no caller closes
the runtime), against `docs/adapter_guide.md:531-537`; `LeaksOnlyUnclosable`
states exactly this exception, and so does not catch it. `CCM_GenerateKeyPair` and `CCM_GenerateSymKey`
send a bare key index, with neither source nor device, so that any device may
be given it, against `README.md:247`; `InternalKeyBound` is about keys that have a
reference. `CCM_HashUpdate` and `CCM_HashFinal` send the algorithm `auto`, and
no shipped device declares `hash:hash:auto`.

## 5. Proofs

`JobQueueProofs`, `GatewayProofs`, `SchedulerProofs`, `SkfAdapterProofs`,
`ConfigLoaderProofs`, `LineProofs` and `CallPathProofs` are checked by TLAPS for every value of
the constants that satisfies the named assumptions. The theorems have the form
`SafeSpec => []P`, or `SafeSpec => P` where `P` is an action property or an
abstract specification; `LoopFindsBest`, `LoopsFindCandidate` and
`EveryCallUnderstood` are about operators.

**Induction over data** (`Descent`). The induction rules of the library take a
predicate as a parameter, which the installed provers cannot instantiate. The
proofs use the same principle about sets instead: a set of numbers that is not
empty has a least element (`LeastNumber`), and one that has 0 and the successor of
each of its elements has all numbers (`Climb`). A recursive function
`f[n \in 0 .. N] == ...` is by definition some function that satisfies its equation; that
there is one for every `N` is proved first (`TableExists`, `ScanExists`, `RunExists`,
`SumTable`, ...), then the equation holds (`OffsetStep`, `ScanStep`, `SumSteps`, ...), and
then it can be used, also with `Climb`. This is why these definitions are recursive
functions.

**JobQueue.** Assumptions: `Depth` is a positive natural number
(`DepthAssumption`), producers and consumers are finite and disjoint sets of
threads (`ThreadAssumption`), the two marks are not jobs (`JobAssumption`).

* `TypeCorrect`: `TypeOK` is inductive.
* `NoSleepingConsumerCorrect`, `NoSleepingProducerCorrect`, `StopWakesAllCorrect`,
  `EndedMeansDrainedCorrect`: the inductive invariant `SleepInv` is the
  conjunction of the four and `TypeOK`. The sleeping properties are not
  inductive alone: a push that is refused and a pop that ends take an awake
  thread out of the queue, which disturbs nothing only because nobody sleeps
  any more once `stop` is set. The argument for a push: while a worker
  sleeps, each queued job has a worker awake inside `queue_pop`; the push adds
  one job and its signal adds one awake worker (`OneSignalled`); a pop takes
  one of each away (`OneServed`); a worker goes to sleep only if there is no
  job. `EndedMeansDrained` holds since `stop` is never reset and nothing is
  stored once it is set.
* `OneOwnerCorrect`, `ImplementsFifoCorrect`: `RingInv` says that the live part of the
  ring ends at `tail` (`tail = (head + count) % Depth`), holds jobs, and that a
  producer has a job exactly inside `queue_push`, a consumer exactly outside
  `queue_pop`. From it `PushAppends` and `PopTakesHead` show that a push appends
  to `Contents` and a pop takes its head: the slot that is written is none of
  those that are still to be read, however often the indices have wrapped. With
  that each step is one step of `FifoQueue` or, for waiting and waking, none
  (`NextFifo`).

**Gateway.** Assumptions: at least one worker, none of them the main thread
(`ThreadAssumption`; `main` asks for `DEFAULT_WORKERS`), a queue with a slot
(`BoundsAssumption`), marks that are not connections (`ConnAssumption`). Any
number of workers, clients and signals.

* `TypeCorrect`: includes where the main thread is while it has a connection or a
  job.
* `PushNeverRefusedCorrect`, and with the next `ExitDrainsCorrect`: `ShutInv`, that the
  queue is closed exactly after the main thread has left its loop, that a
  worker told to end leaves an empty queue, and that `server_run` returns after
  all of them.
* `OneOwnerCorrect`, `ClosedOnceCorrect`: `OwnInv`, that the backlog and the queue repeat
  nothing, that a connection is held exactly from `accept` to `close`, and by one
  thread or slot. A descriptor that is closed is therefore held by nobody, so
  nobody closes it again. The proof also shows that `OneOwner`'s hypothesis that
  the process lives is not needed.

**Scheduler.** Assumptions: finitely many workers (`WorkersAssumption`);
devices are device records, their scores ints (`RegistryAssumption`); a request's
steps are a sequence of step records (`RequestsAssumption`). Several devices may have one id,
as in the code; `registry_release` goes by the id, so the theorems about single
counters speak of the devices that share their id with no other (`OwnId`), and
`NamesakesNeverOverbookedCorrect` says what remains true of namesakes.

* `TypeCorrect`: includes that a worker has a device exactly between acquire
  and release.
* `InflightExactCorrect`, `NeverOverbookedCorrect`: `DeviceMoves` reduces every step
  to one of three moves (nothing, one worker takes a device with room, one
  worker returns the device it has); `CountInv`, the conjunction of both
  properties, is preserved by each. Neither is inductive without the
  other's company: the limit is tested on the counter, not on the holders.
* `NamesakesNeverOverbookedCorrect`: `NamesakeInv` says that the counters of the
  entries of one id sum up to at least the number of workers that hold one of
  them, and that no counter is above its limit (or above zero, for a limit
  below it). An acquire adds one to both sides (`TotalChange`); a release takes one
  worker away and at most one from the sum, from whichever entry comes first
  (`ReleaseOne`). The limits then bound the sum (`TotalMonotone`). The proof
  needs that limits below zero, which `atoi` makes of "-1", count as zero: with
  the plain sum of the limits the property was false, a device with the limit -1
  taking one away from its namesakes. `Room` is the corrected sum, and
  `Scheduler_load` now has such a device.
* `LoopFindsBest`: after `n` turns the loop has the first of the best devices among
  the first `n` (`Leads`); a turn preserves that (`LeadsOn`) because the comparison of
  ranks is a strict order and leaves only devices of one rank uncompared
  (`RankOrder`), and because `better_candidate` is that comparison
  (`BetterPrecedes`).
* `LoopsFindCandidate`: the loop over the devices with the hint's id and the loop over
  the device types both return at their first result; `RunIsFirst` says what such a
  loop ends with. For the hint that is the first device of that id with room
  (`HintLoop`). For the types it is the result of the inner loop for the first
  type that has one, which by `LoopFindsBest` and `BestExists` is the first type that
  has an available device. The theorem is about orders of known types;
  `TakesAsWrittenCorrect` shows from `WorkInv` that `build_order` gives no other
  (`OrderType`), so that in every behaviour a step takes what the loops find.
* `PinGuardsDevicesCorrect`: inductive together with `TypeOK`.
* `InternalKeyStaysHomeCorrect`: the invariant `KeyInv` adds that an idle worker has
  forgotten the devices of its last request; `ChoiceAtHome` says that
  resolving the hint of an internal key leaves one device to choose from.
* `ReplyMatchesWorkCorrect`: `WorkInv` follows the request through its steps: before
  step `k` the worker has `k - 1` devices and the results of exactly the first
  `k - 1` steps, in order; an idle worker has nothing left of its last request.
* `RefusedOnlyWhenBusyCorrect`: `BestExists` shows that comparing score, priority, load
  and id one after the other always leaves a best device (each criterion is
  bounded below, since scores are ints, so that it has a least value among the
  devices still in question); hence `registry_acquire_candidate` comes back
  empty-handed only when no suitable device has room (`EmptyHanded`), and by
  `CountInv` each of them then has as many holders as it takes. A registry may hold
  devices of an unknown type; `CouldServe` says that those serve only who names them.

**SkfAdapter.** Assumptions: libraries export a subset of the known symbols
(`LibrariesAssumption`), and only operations with a translation rule arrive
(`OpsAssumption`).

* `SkfTypeCorrect`, `SkfNoMisuse`, `SkfLeaksOnlyUnclosable`: `IInv` relates, for
  each place of a handler, the handles the program believes in, what is open at
  the vendor's, and whether the session is initialised; in the closing stages,
  what is already closed or was refused. Neither property is inductive without it.
* `SkfPinBeforeKey`: `PinInv`, that the stages after the PIN have it verified.
* `SkfImplementsDriver`: every step is a step of `DriverCall` or a stutter
  (`StepRefines`), from `ResultInv`: until the work is done there is no effect and
  `rc` is -1, and afterwards both have changed together.

**ConfigLoader.** Assumptions: the limits are numbers and the buffer has room for
its zero (`LimitsAssumption`); a file is a sequence of lines, a column lists items
that are not empty, as `strtok_r` returns no other, and that are texts
(`DeviceFilesAssumption`); settings are pairs (`SettingsFilesAssumption`). Files of any
length, any limits.

* `TypeCorrect`, `RegisteredAsDeclaredCorrect`, `OnlyTheLastIsCutCorrect`: `LoadInv` has
  three parts. `FileInv` says how far the file is read and `RegistryInv` that the
  registry has one device for each of the declarations so far (`Declarations`), each
  as its line has it. `ColumnInv`
  says that what is still to be parsed of the column at hand and what has been
  parsed of it together are the column. None of the properties is inductive,
  as they do not say what is left to read. What the buffer keeps of a column is in
  `ColumnShape`: since items begin one behind the other (`OffsetGrows`), those that begin
  inside the buffer are the first ones (`FirstOnes`), all but the last of them are
  whole (`CutWhole`), and if the column fits nothing is cut.
* `ServesWithPinCorrect`: `PinInv`, that the PIN is that of the last line so far that
  has one, or empty as long as there is none.

**CallPath.** Assumptions: a call is of one of the functions and has at most two keys
to use and two to fill in, whose sources are among the five of `ccm_key_source_t`
(`CallsAssumption`; the functions do not verify it); ids have no semicolons and nothing
that is escaped (`IdsAssumption`; nothing verifies that either);
the empty text is no device (`NumberOfAssumption`); a request without a sequence is told
from one with a hybrid call's (`NoSequenceAssumption`); the requests
are those of the calls (`RequestsOfCalls`). What TLC can compute and the provers
cannot, decimals and the lengths of texts, is assumed and evaluated by TLC in both
runs: the decimals of 0 to 4 are their digits (`DecimalAssumption`); the words of the
tables have their lengths (`KeyWordLengths`, `WordLengths`); and arguments are as long
as their types allow (`ArgumentLengths`, `Narrow`): an algorithm has two digits and a
usage or a source one, as their enumerations have (`Unif_KeyRef` has unverified unsigned
ints for them: with ten digits in each, one reference could have 269 characters, and the
gateway would read none), a number at most 10 (32 bits), a
pointer at most 14 characters (`0x` and 12 digits, or `(nil)`), an id at most 63
(`char[64]`), a PIN less than the gateway's buffer of it.

Two hypotheses of the theorems are about calls with two keys only. `ShortPairs` is that
the ids of the two keys have at most 20 characters together, for which their
references have 255 characters, the most that the gateway's buffer takes. `KeysAlike` is
that the two keys have one source and one device. Neither can be left out:
`Calls_hybrid` shows what two unlike keys do, and with the widest other arguments a
pair of ids of 21 characters makes 256. The calls of `Calls_keys` satisfy both.

* `WholeLineArrivesCorrect` (`LineProofs`): `SumBoth` says that the sum over two
  sequences of tokens is the sum of their sums, and so the width of a text with one
  separator per token is additive (`FullBoth`). One key reference has at
  most 243 characters (`RefFull`), two of them 235 and their ids (`TextRefs`), the payload at
  most 299, the auxiliary payload 787 (`GivenWidths`); each is below the
  gateway's size of the field (`MostFits`), and the line with all its names, quotes and
  separators has at most 1932 of 2048 (`LineFits`).
* `SourceAllowedCorrect`, `InternalKeyBoundCorrect`: from the last theorem, since a
  `key_ref` that does not fit is read as none. `KeyRefShape`
  says where `append_key_ref` puts the source and the device, `KeysArrive` that
  `key_ref_get_token` finds those of the first key and `key_ref_source_value` reads the
  digit as the number that was written, and `NoHint` that no function writes
  another hint. `SourceAllowedCorrect` then follows from `FitInv`: the device at hand
  supports the current step, and the `i`-th selected device the `i`-th step, which needs
  `WorkInv` (a device is appended at the place of its step). `InternalKeyBoundCorrect`
  follows from `InternalKeyStaysHomeCorrect`.
* `EveryCallUnderstood`: client and gateway each have their own tables. Every
  function's domain and action is one the parser knows (`FunctionsKnown`), no name of
  `CCM_AlgorithmName` is an alias that `normalize_algorithm_name` would change
  (`NamesNormal`), and a field is found exactly if it was written (`SentSays`); so the
  line is accepted and the scheduler's steps are `Asked`, what the function stands for.
* `AnswersCallCorrect`: with `ReplyMatchesWorkCorrect` an answer OK then carries the
  results of the caller's own operations; `NeverBadSequence` and `NextNeverBad` show
  that no call is answered 400, if `MAX_SEQUENCE_STEPS` is at least 2 (it is 4).
  Before the proof `AnswersCall` was checked with TLC on the instance of `Calls_keys`.

## 6. What is only model-checked, and what is not modelled

Only model-checked is liveness (`QueuedIsServed`, `StopEndsConsumers`, `PushReturns`,
`ImplementsFifoLive`; `RequestAnswered`, `BacklogServed`, `StopEnds`;
`EveryRequestAnswered`; `CallReturns`): fairness is out of the prover's reach. Every
invariant and every action property of the passing runs is the statement of a
theorem. Not proved but computed by TLC are the lengths and decimals of section 5,
and that the registry which `ConfigLoader` ends with has device records with numbered ids, as
`Scheduler` assumes (`RegistryAssumption`), and that a call's steps are step records
(`RequestsAssumption`): `EveryCallUnderstood` says which steps they are, but none of
the provers shows that a string literal is a member of `STRING`.

Not modelled:

* `response_to_json` and the printing of numbers, escapes and texts;
  `Gateway` has the one outcome that matters to control, a response that does not fit;
* letter case and blanks in the configuration file, lines longer than the
  1024-byte buffer of `config_load_devices`, ids longer than theirs, and capability
  entries of 160 characters or more;
* the content of payloads: that a step's result of up to 2047 bytes is cut to the
  next step's 1023-byte payload (`scheduler.c:317`) has no property;
* failing `pthread_create` (`server.c:132`), whose result the code ignores;
* partial reads and writes in `client_transport.c`;
* semicolons in ids, which would be read as the end of a token, and escapes in a line
  (`append_json_string`), which would lengthen a field whose id has quotes or control
  characters: both are assumed away (`IdsAssumption`);
* the `CCM_*` functions that answer locally without a request, the log, `main`'s
  arguments.

## 7. Plan

Done: `FifoQueue`, `JobQueue`, `Gateway`, `Registry`, `Backends`, `Scheduler`,
`DriverCall`, `SkfAdapter`, `Protocol`, `ConfigLoader`, `CcmApi`, `CallPath`, their
instances and runs, and the proofs of section 5.

Left, in this order:

1. `Transport`: `client_transport.c` and `read_line`/`write_all` of `server.c` byte
   by byte, with partial reads and writes and an end of file in between; property:
   the client never takes a cut response for a whole one.
2. The cut of a result that becomes the next step's payload (`scheduler.c:317`).
3. `Gateway` with fewer threads than it asked for (`server.c:132`).
4. Proofs: that `ConfigLoader`'s registry satisfies `RegistryAssumption`, which needs
   an order of the texts of ids; at present the two modules share the record by
   convention.
