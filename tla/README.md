# TLA+ models of the Nexy gateway

The gateway is a Python asyncio application that sits between an Aritco lift and
Azure IoT Hub. It finds out which lift is attached (AHL over Modbus/RS485, or the
1k series over RS232), polls its parameters, pushes changes as telemetry, executes
the cloud's direct methods on the lift, and lets a phone set up WiFi over
Bluetooth. This directory holds TLA+ models of the parts of it whose correctness
depends on order, interleaving or failure; what TLC checks about them; and what
TLAPS proves about them. Source paths below are relative to `src/src/`.

## Inventory

| Component | State it keeps | Operations | What is hard | What makes it correct |
|---|---|---|---|---|
| Lift proxy (`liftApi/lift_proxy.py`, `lift_identifier.py`) | bound handler/lib/type, candidates, `_handler_lock`, `_force_read_all` | `create`, background identification, `_bind`, `poll_params`, reads and writes, daily push | five kinds of task interleave at awaits; serial calls run in threads that survive cancellation; binding has several awaits of its own | never half-bound; one thread per port; no closed port used; the cold-start read is not lost; a working lift is identified in the end |
| AHL cache (`lib/ahl_lib.py`, `modbus_handler.py`) | parameter cache, change flags in the lift | forced and normal sweep, write, write-and-read-back | reading the change flags clears them; the lift changes during a sweep; writes are clamped or unanswered | a stale entry is going to be read again; the cloud has what the cache has |
| 1k polling (`liftApi/rs232_handler.py`, `lib/thousand_lib.py`) | database, file round robin, saved notifications, serial buffer | `poll_lift`, `write_parameter`, generic texts | answers carry no request id and may come late; a poll may be given up half-way | changes are reported; a write changes what it should; the database settles on the lift's values |
| 1k door counters (same files) | totals and previous counters, in memory and in two files | recalculation, two saves | the lift restarts at zero, the gateway restarts, saves fail in between | no opening counted twice; the lifetime count does not fall |
| BLE WiFi onboarding (`bluetoothApi/`) | status (phase, error, current network), dispatched tasks | scan, connect, disconnect, heartbeat, stop | requests overlap while their scripts run; the heartbeat decides before and commits after an await | error and phase agree; a busy phase ends; nothing changes after stop |
| Direct methods (`cloudApi/method_request_handler.py`) | the SDK's queue of requests | dispatch, argument checks, answers | handlers queue behind long sweeps on one lock, raise, cannot send their answer, or wait for a twin patch without a timeout | requests are served in order and answered; what is said of a download is true |
| Telemetry, heartbeat (`event_sender.py`, `heartbeat_handler.py`) | telemetry tag, first-beat flag | send | the tag is a copy of proxy state | the tag fits the bound lift |
| Startup (`main.py`, `dps_client.py`, `device_client.py`, `connection_monitor.py`) | registration, client, back-off | provision, connect, fetch the twin, run, clean up | services come and go, shutdowns fail, the device is moved to another hub, cancellation at any await | one connection at a time, released at the end; failures are paced; a cloud that answers is reached |
| Modbus handler (`modbus_handler.py`, `modbus_file_record.py`) | link, closed flag, loop counters | reads, guarded writes, log retrieval, upgrade upload, packing | the LCM's read position moves with every lost answer; records are stored but not acknowledged; texts are decimal, hexadecimal or negative | values survive writing and reading back; guards hold; logs and packages are whole; closed is closed |
| Device twin | desired properties at start | report | reports may be lost | reports in LiftProxy; desired patches are only logged |
| Downloads (`cloudApi/file_download.py`, `blob_download_handler.py`) | target and temporary file | check, stream, rename, clean up | the blob changes or lies about its size; failures and restarts at any step | the target is the old or the new file, whole |
| Disk handler, time sync, logging, config, idle supervisor, simulator, error codes | none worth a model | look-ups, subprocess, logging | - | not modelled |

They interact through calls. The cloud side and the loops of the proxy share the
bound pair under `_handler_lock`; the proxy calls the handlers in worker threads;
handler and lib share the parameter database; telemetry goes through one sender
whose tag the proxy renews.

The hazards, each at its line with the properties that would catch it, are listed
in `PROJECT.json`.

## Modules

| Module | Models | Extended by |
|---|---|---|
| `LiftBinding` | abstract contract of the proxy towards its consumers: no pair, then in one step the whole right pair, for good; only the other port is ever released | - |
| `LiftProxy` | identification, binding and use of the lift, at the granularity of awaits and threads | `LiftProxyProofs`, `MCLiftProxy` |
| `AhlPolling` | parameter values of an AHL lift: change flags, cache, cloud | `AhlPollingProofs`, `MCAhlPolling` |
| `ThousandPolling` | polls and writes of a 1k lift over a line that loses and delays answers | `ThousandPollingProofs`, `MCThousandPolling` |
| `DoorCounters` | the 1k door-opening counters with their files and restarts | `DoorCountersProofs`, `MCDoorCounters` |
| `WifiController` | the BLE onboarding controller, its server and its scripts | `WifiControllerProofs`, `MCWifiController` |
| `Startup` | the process towards the cloud: provisioning, connecting, running, cleaning up | `StartupProofs`, `MCStartup` |
| `DirectMethods` | the listener for direct methods and the download it performs | `DirectMethodsProofs`, `MCDirectMethods` |
| `MethodService` | abstract contract of the cloud side: requests are served one at a time in the order of the calls, each has at most one effect and one answer, none is forgotten, and the file is only ever replaced by a whole one | - |
| `ModbusHandler` | link, coding of values, guarded writes, log retrieval, upgrade upload | `ModbusHandlerProofs`, `MCModbusHandler` |

`MC*` modules only name the model values and small sets the `.cfg` files use.
Definitions marked "Mutant" are variants of the definition below them with a
plausible programming error in it; nothing in a specification uses them. They are
there to show that each property notices some error of the code.

### LiftProxy

A step is what one task does between two awaits. A call through
`asyncio.to_thread` is two steps: the worker thread starts on a handler (`bus[t]`
names it) and ends later. Tasks are `ident` (`create()`, then `_reidentify_loop()`),
`poll`, and one per concurrent direct method (`Callers`). `pc` is the await each
task is at and `lock` the owner of `_handler_lock`. `Publish` is the block of
`_bind()` that has no await and assigns handler, lib, type, candidates and the
cold-start flag. `Shutdown` cancels all tasks at whatever await they are at;
`ThreadEnds` is a thread that runs on after that. The lift (`lift`) goes up and
down, and what answers a probe depends on it. Reports to the twin may be lost.
Left out: parameter values (in `AhlPolling`), payloads, intervals. `sent` is the
last telemetry with its tag and the type bound at that time; `TaggedUnlessClosing`
says they agree, except while `_bind()` waits for the loser to be closed, which is
before `_on_identified()` renews the tag. In that window the specification of
re-identification ("its lift-type tag reflects the identified type") is not met.

### AhlPolling

`lcm` and `flags` are the lift's parameters and change flags, `cache` is the lib's
database, `announced` what the last telemetry said. `ForcedPoll` is the cold-start
sweep with its acknowledgement read first, `NormalPoll` reads and clears the flags
and then sweeps the flagged groups, one parameter a step, so that the lift may
change in the middle. The constant `Faults` says which bus faults may happen:
`flagRead` (the read fails and the flags stay), `flagAnswerLost` (the flags are
cleared, the answer is lost, the retry reads none), `paramRead`, `readBack`,
`writeUnacked` (stored but reported as an error). A write stores any value, as
the LCM may clamp it. `missed` is a history variable: the parameters that a lost
flag answer or a failed read of a sweep has skipped, until they are read again.

### ThousandPolling

`queue` is what is left of `polled_packages`, `nextFile` the round robin over the
files, `updated` the list the poll will return. A package has a number of slots;
how a slot is unpacked from bytes is left out. `stray` is an answer whose request
has been given up: once it has arrived, any transaction consumes it, and one with
the same command takes it for its own answer, as the code compares command and
operation type only. All five parameter files share the command `readFile`. A
write of a file parameter is two transactions with nothing but the lift between
them, as polls wait for the lock. The constant `Events` says what the lift and
the line may do: `change`, `silent`, `late`, `garbled`, `short` (a package with
fewer bytes than the protocol knows, as older boards send), `raise` (the port
raises) and `badResult` (a vfdResult with fewer values than are unpacked). `unsent`
and `dropped` are history variables: what the cloud does not have, and what a poll
left out of its result. `doors` and `motor` say whether saved notifications of type
135 and vfdResult messages are waiting; how many is not counted. A bad vfdResult
makes the end of every poll raise (`PollEndRaises`) after the first list is cleared
and before the second, until newer messages push it out. A `stray` is an answer or
the confirmation of a write (`kind`): a late confirmation of one `writeFile` passes
for that of the next, which the lift then may or may not have stored. Files of
different length and the virtual parameters are not modelled, and at most one late
answer or confirmation is on its way at a time.

### DoorCounters

`count` is what the lift reports since its last start, `actual` what really
happened; `total`, `prev` and `reset` are in memory, `totalFile` and `prevFile` on
disk. A failing save leaves the old list or an empty file, which is read as
zeros; a crash loses memory and may come in the middle of a save. `losses` counts
saves that were not completed. `SendParams` puts any part of the database into
telemetry (`shown`) at any time, as the daily push and the on-change push do; neither
asks whether the poll succeeded or the totals were saved. `kept` is a
history variable: are all totals that were calculated in the file, or was one given
up before (unpacking failed behind it and the files were read again, or the process
ended)? In the last case telemetry may go on with a smaller count than it has shown,
with every save completed; `NeverFalls` names exactly that exception.

### WifiController

`task[r]` is the script a dispatched request is waiting for, `beat` the
heartbeat's refresh, `link` the network that is really there (a connection attempt
that is reported as failed may have made it). Each request decides on the
phase it finds, waits, and commits its end phase when its script returns.
`server` follows `stop()`. Sequence numbers, network lists, JSON and GATT tables
are left out.

### Startup

`pc` is the await `main()` is at. A call that needs DPS or the hub fails only while
the service is away (`dps`, `hub`) or the device has been moved to another hub since
it was registered (`assigned`, `home`). `open` counts the MQTT pipelines of both
kinds of client, `leaks` those whose shutdown failed, `hot` the failing calls since
the last pause. `Cancel` is Ctrl-C: `CancelledError` is not an `Exception`, so only
the `finally` of `main()` sees it, and only inside its `try`. What the runs leave
aside, and the code does: a cancellation during `provision_and_connect()` or inside
the `finally` block leaves the client open; a device that is moved after it has
connected makes `_create_desired_handler()` retry for ever on the old client (hence
the premise of `CloudReached`); with DPS up and the hub down the back-off never
gets beyond its first three steps, as each registration resets it.

### DirectMethods

One listener takes requests from `inbox` in order (`cur`), runs the handler, and
sends the answer or a 500. `effect` holds the requests that changed the lift or the
target file, `answer` the first answer that reached the hub, `lost` the requests
whose answer can come no more, as the connection or the process was lost. A write
that the proxy reports as done need not have changed the lift (a 1k lift is not asked
when the cached value is the requested one, and a late confirmation of another
request may stand for this one), one that is reported as failed may have; so nothing
is claimed of the truth of answers to writes. After a successful write the listener
waits for its event or twin patch (`publish`). The patch, made by `la.write.ar-number`
(`TwinWrites`), has no timeout and may never return (`blocked`), which only a restart
ends. A download is one step per await or file operation: properties, temporary file, one
step per chunk, rename, cleanup. Every download finds another version of the blob
and another cap in the desired twin if it likes; the size the blob reports is not
believed. `Restart`, the end of the process, may come at any step and leaves the files
as they are; after a power cut they need not be, as nothing is synchronised to the
disk before the rename. A request for
a file named `X.tmp` would share its name with the temporary file of `X`; there is
one target in the model.

`MethodService` has no awaits and no temporary file: what is called, taken, done and
answered. `ImplementsMethodService` maps the listener to it; the steps of a download
before the rename are stutters, the rename is the effect, and a restart gives up the
request in hand together with the queue.

### ModbusHandler

`pc` is the loop a call is in, `link`, `closed` and `client` the state of the
handler. Registers are parameterised by their number of values `HALF`, so the
packing and the signed decoding are the code's with 2^16 replaced by any even
number. A text is a number with its notation. The guarded parameters are recognised
by the text of their number: `spelt` says whether a write has it as the handler's
constants do, or padded, as in "0363", which validation accepts and `int()` turns
into the same address; such a write goes out without a guard. A guard reads the lift first
(`seen`): the fire floor for a floor lock, the rated speed for a speed, the version
for a reset of alarms, which old LCMs want shifted. The log loop starts again from
record 0 after every error, as the LCM's read position `pos` moves with each record
whether its answer arrives or not; the upgrade loop repeats the record. What a file
record looks like in bytes is left out: its answer is accepted, refused, or raises.
Two exceptions get out of a write and are named in `RaisesKnown`: `int()` of a speed
in hexadecimal, although "We know this is an int cause it was validated earlier",
and the shift by a fire floor of 0. The listener turns both into a 500.

## Runs

| Run | Result | What it shows |
|---|---|---|
| `lift_proxy` | passes | no half-bound proxy, one thread per port, no closed port in use, no lost cold start, refinement of `LiftBinding`; telemetry is tagged with the bound lift except while the loser is being closed; a lift that stays up is identified, announced and its loser released; direct methods return |
| `ahl` | passes | with every fault, stale or empty entries are pending unless a fault skipped the parameter, the cloud has the cached value or is about to get it, cache and cloud settle on the lift's values of all other parameters, and whenever the poller has nothing to do they have them already (`SettledWhenQuiet`) |
| `ahl_flags_lost` | violated | a lost answer to the self-clearing flag read loses the change |
| `thousand` | passes | with every fault, only polls that are given up or raise and short packages lose changes; notifications are drained unless a bad vfdResult stops that; the database settles on the lift's values |
| `thousand_foreign_file` | violated | a late answer is saved over another file by a parameter write |
| `wifi` | passes | error and phase agree, busy phases are real and end, stop is final |
| `wifi_one_connect` | violated | a rejected request in between lets a second connection attempt start |
| `wifi_current_expires` | violated | a network that is gone stays in the status |
| `door_counters` | passes | no opening is counted twice while no save is lost, and the count telemetry shows does not fall while also no calculated total is given up |
| `startup` | passes | one connection at a time, released at the end, failures are paced, a cloud that answers for good is reached; once it is settled every step of `main()` is a step nearer (`NearerWhenUp`) |
| `direct_methods` | passes | the target file is whole and within its cap, the cloud is told the truth about downloads, the whole implements `MethodService`, every request is answered unless connection or process was lost or a twin patch blocks the listener |
| `modbus` | passes | values survive packing and reading back, only two exceptions get out, logs and packages are whole and in order, no write whose parameter is spelt as the handler compares it gets round its guard, a closed handler stays closed, every call returns as each step leaves it less to do (`BudgetShrinks`) |

Run one with `tlc -config MCLiftProxy.cfg MCLiftProxy`.

### Disagreements with the documentation

Each violated run checks a sentence of the repository against the code; the
quotations are in `PROJECT.json` under `findings`.

- **Flags.** The Modbus handler repeats a read that clears what it reads.
- **Foreign file.** The file name of a `readFile` answer is not compared. The poll
  that read `/aritco/door` gives up, its answer arrives, a write asks for
  `/aritco/param`, gets the door file and saves it, patched, as param.
- **Second connect, expired network.** The phase is the only guard against a second
  attempt, and a heartbeat that gets no answer about the link keeps the old one.

Other gaps between documents and code are part of the properties that pass, which
say exactly how far the code goes:

- `TaggedUnlessClosing`: a heartbeat, poll or daily push while the loser of a late
  bind is being closed has the old tag.
- `OnlyAbortsDrop`: `poll_lift()` updates the database package by package, but on
  silence returns the error alone, and a short signal does the same to its package;
  the next poll sees no difference, and only the daily push sends the value.
- `StaleIsPending`, `ColdStartComplete`: a parameter that cannot be read in a sweep is
  not read again until it changes (AUD-014 of the audit backlog). `missed` names it.
- `RaisesKnown`: see `ModbusHandler` above.
- `GuardsHold`: "Prevents locking the fire floor" is true of the spelling "363" only;
  a padded write locks any floor and sets any speed that fits the registers.
- `NotesDrained`: a vfdResult with too few values is accepted by the validation and
  then makes every poll raise at its end; nothing that changed is pushed, and a forced
  read stays pending, while it is in the queue.
- `NeverFalls`: the daily push sends totals no file has yet, or ever will have.
- `Answered`: `la.write.ar-number` awaits a twin patch without the timeout that
  `_report_lift_type()` puts around the same call for the same reason.
- `DownloadsTruthful` is about downloads only, for the reasons given above.

### Bounds

- `MCLiftProxy`: one caller, two attempts in `create()`. The method listener
  executes one direct method at a time; one beside the poll and the identification
  gives every pairing of roles, and two attempts reach both "another round" and "give up".
  The safety theorems hold for any number of both.
- `MCAhlPolling`: three parameters in two groups (two share a flag), two values,
  three changes (two in `ahl_flags_lost`). A lost change takes one change, one fault and one sweep.
- `MCThousandPolling`: one package of its own command, two files sharing
  `readFile`, two values, two faults, changes or writes outside the files (writes of
  files are not counted); two slots where a write needs a neighbour, one elsewhere.
  The passing run starts with all values of the lift the same (`MCFairSpec`), which
  writes and changes undo. A late answer and its misuse take one fault, and the
  second may hit the recovery; the shortest foreign-file trace has one.
- `MCDoorCounters`: two doors, three openings, one lost save; restarts unbounded.
- `MCWifiController`: two overlapping requests, two networks; nothing else bounded.
- `MCStartup`: the code's own back-off (1 to 60) and three attempts, two hubs, two
  local failures (one may hide behind the other's handling); services change freely.
- `MCDirectMethods`: two downloads, so that one finds what the other left, one write
  (which patches the twin) and one other request; a blob that fits the cap and one that
  does not; one restart.
- `MCModbusHandler`: registers of two bits, eight texts on both sides of every limit in
  both notations and both spellings, four log records, so that a gap between two in the
  middle would pass the checks of the first and the last, two package records, budgets
  of two and three errors. The proofs are for any.

`MaxChanges`, `MaxEvents`, `MaxOpenings`, `MaxLosses`, `MaxFaults`, `MaxRestarts` are
the bounds in guards.
For `Converges` they also say that faults and changes stop at some time, which
the property needs.

Deadlock checking is off only where the system may stop: after a cancellation or
a fatal error of the application and after `stop()` of the Bluetooth server.

### Fairness

- Every serial call and script has a timeout, and asyncio runs each ready task:
  weak fairness of each task's next step.
- `asyncio.Lock` serves waiters in order, so a task that waits for it again and
  again gets it: strong fairness of the acquisitions (`PollAcquire`,
  `CallAcquire`, the binds that take the lock, `PollStart` of `ThousandPolling`).
- `ProbeHit` and `DetectTable` are strongly fair: a lift that stays up does not
  miss every probe for ever. This is about the line, not about the code.
- `Startup`: weak fairness of `Progress`, as awaited calls return or raise and sleeps
  end. Whether they succeed is up to the services, which `CloudReached` assumes.
- `DirectMethods`: weak fairness of `Listener`: reads of the stream have a timeout and
  the transfer a deadline, and a send of an answer returns or raises. The twin patch
  after a write of the AR number need not return: the fairness ends there, and
  `Answered` says so.
- `ModbusHandler`: weak fairness of `Step`: each transaction has a timeout. How often
  it fails is not limited; the loops count.
- Nothing obliges the cloud or the phone to call, the lift to change, or the
  application to be cancelled; liveness of the proxy is claimed while it is not.

## Proofs

All theorems are for every value of the constants that satisfies the named
assumptions, and for any number of steps. Three kinds are distinguished below: the
invariants and action properties of the runs; refinements; and, for each liveness
property whose argument is a safety argument plus fairness, that safety argument.

### Invariants, action properties and refinements

- **LiftProxyProofs.** `IndInv` adds to the safety properties which awaits are
  possible in which stage (`PcInv`), that the lock's owner is the one task inside
  its critical section (`LockInv`), which handler a thread uses at which await
  (`ThreadInv`), what identification has found and left (`IdentInv`), the count of
  attempts (`AttemptInv`), and that the poll in progress was started with the
  cold-start flag as it still is (`SweepInv`).
  `BusExclusive` alone is not inductive: identification probes without the lock,
  which is safe only because nothing is bound then, and the loser is closed
  without it, which is safe only because nobody uses the loser. From `IndInv`
  follow `TypeCorrect`, `NeverHalfBound`, `OneThreadPerBus`, `ClosedPortsIdle`,
  `ColdStartRetried`, and step by step `ProxyImplementsBinding`: `Publish` is
  `Bind`, the close is `Release`, everything else a stutter. `TelemetryTagged` adds
  `TagInv`: once the loser is closed the tag is that of the bound type. Assumed: callers have
  names of their own, and there is at least one attempt.
- **AhlPollingProofs.** `AnnouncedCurrent` with types and `Bookkeeping` is
  inductive (`CloudIsCurrent`, `PollingTypeCorrect`). `StaleIsRead` and
  `ColdStartFills` need `SweepCovers`: a forced sweep has read what it no longer has
  to do, or noted it in `missed`. All four are for any set of faults.
  `ReliableReadsMissNothing` is the other side of `ahl_flags_lost`: if no flag answer
  and no read of a sweep is lost, `missed` stays empty and the two hold without the
  exception.
- **ThousandPollingProofs.** `PollingTypeCorrect` for any lists of packages, from
  lemmas on the round robin, on answers and on unpacking; `NothingElseDrops` is
  inductive as it stands. Three theorems say what a better line buys, with the
  excluded `Events` as hypotheses. `QuietWriteChangesOneParam`: without late answers
  (and with the lift not changing the file in between) a write changes one parameter;
  it is the property `thousand_foreign_file` refutes when answers may be late.
  `QuietFilesCurrent`: if nothing is lost, late or garbled either (a garbled
  confirmation of a write that was stored leaves the old value), the database's values of the
  files are the lift's. `AnsweredColdStartFills`: if every request is answered in time
  and whole, the database is full once the forced read is given up, however often the
  port raises, as only an exception keeps the flag. Silence, a late, a garbled or a
  short answer each leave a hole in it, so none of the four can be allowed.
- **DoorCountersProofs.** `NoDoubleCount` and `LifetimeCountGrows`. For the second,
  `ShownInv` bounds what was shown by the database, that by memory, and the database by
  the file while `kept` is "all". For the first, the invariant
  `Sound` says of a pair of lists that they count no opening twice now nor after
  the restart they will make the gateway believe in; it holds of memory, and of
  the files except between the two saves. `SteadyLiftIsExact`: between two restarts
  of the lift lost saves and restarts of the gateway cost nothing, every
  recalculated count is the real one.
- **WifiControllerProofs.** `ErrorConsistent`, `BusyHasTask`, `StopIsFinal`,
  `TypeCorrect`, for any set of requests; `StoppedInv` says no task is left after
  `stop()`.
- **StartupProofs.** `Accounting` gives the exact number of open pipelines for every
  await, `Owed` says where a failure still waits for its pause, `AttemptsLeft` bounds
  the connects of a registration. From them `SingleSession`, `Released`,
  `RetriesPaced`, `TypeCorrect`.
- **DirectMethodsProofs.** `QueueInv` (queued requests are fresh and different),
  `RequestInv` (what the handler has done when it answers) and `TransferInv` (the
  temporary file is within the cap, and complete when it is installed) make
  `TargetWhole`, `DownloadsToldTrue` and `OnlyCompleteReplaces` inductive.
  `ListenerImplementsService` is the refinement of `MethodService`, one step per
  action.
- **ModbusHandlerProofs.** `RoundTrip` is arithmetic: for every even `HALF`, decoding
  what was packed gives the value back, from lemmas on `\div` and `%`. `ValueInv`
  carries it through writes and retries (`ReadBack`, and, for parameters spelt exactly,
  `GuardsAreKept`); `LogInv` says
  that in the middle of a log the LCM is where the loop thinks it is (`LogIsWhole`),
  `UpgradeInv` that it has every record before the current one (`PackageIsWhole`);
  `CallInv` ties loops to calls (`OnlyKnownRaises`); `ClosedInv` gives
  `ClosedStaysClosed`.

Types are proved for every module (`TypeCorrect`, `PollingTypeCorrect`); no run
repeats them.

### Behind the liveness properties

That something happens eventually under fairness is beyond the prover and stays with
TLC. What can be proved, for every value of the constants, is why: a number that
each step of the responsible process lowers, or that the state is in order whenever
the process has come to rest.

| Checked by TLC | Proved |
|---|---|
| `CallsEnd` | `CallsAreBounded`: `Left`, the transactions a call can still make, is a natural number, zero exactly when no call is in progress, and every step of a call lowers it. For the log it is errors left times records, as an error starts again from record 0 |
| `CloudReached` | `OutagesAreOvercome`: once the cloud is settled, `Ahead` (the awaits before `running`, plus the detour of the attempts still wasted on the old hub) falls with every step of `main()` |
| `Converges` (AHL) | `QuietMeansSettled`: when the poller has nothing to do, cache and cloud have the lift's values of all that was not missed. `PollerWorksOff`: `Work`, which is zero exactly when the poller has nothing to do, falls with every step of the poller, and only changes in the LCM raise it. `Work` counts entries with `Cardinality`, so the table is assumed finite |
| `Answered` | `RequestsAccounted`: a request that was made is queued, in hand, answered or counted as lost. `ServingIsBounded`: one that was taken is handled once, and `Budget` falls with every step after that until the listener is ready again or blocked by the twin patch. What bounds a download is the cap of the desired twin, not the blob |
| `CallsReturn` | `LockIsPassedOn`: the holder of `_handler_lock` is inside a transaction and never waits for the lock, keeps it for two awaits at most, and a call that has asked for it never falls back |
| `AnnouncedAndReleased` | `DoneIsReleased`: when identification has ended, the tag is the attached lift's and exactly the other port is closed |
| `BusyEnds` | `BusyHeldByCall`: a busy phase has a script call in flight, and the first call to return, whichever it is, ends it |

`IdentifiedWhenUp`, `NotesDrained` and `Converges` of the 1k lift are only
model-checked: the first depends on the line, the others on the strong fairness of
`PollStart`.

## Not modelled

Disk handler, time synchronisation, logging, configuration, the idle supervisor
and the simulator: look-ups, a subprocess, log lines, test data. Desired-property
patches are only logged. Conversion of bytes to values, JSON and GATT are data.
Telemetry that cannot be sent is dropped by design (AUD-018).
`upload_to_blob()` and, so far, log retrieval and upgrade upload are called by no
direct method; the two last are modelled as the handler offers them, while the
transport of file records (`modbus_file_record.py`, which the audit backlog reports
as not working with the current pymodbus) is only an answer that may raise. The
first-beat metadata of the heartbeat is sent once, also if the report is lost.
A WiFi script whose caller is cancelled runs on; nothing in the gateway observes it.
After a heartbeat
that asked while connected, the answer is attached to whatever phase there is when
it comes; the model has that behaviour, no run asks about it.

## Plan

What is left, in this order:

1. Composition: `LiftProxy` with `AhlPolling` and with `ThousandPolling`, so that
   the cold start flag armed by a late bind meets the values; an abstract
   "parameter mirror" that both polling modules implement; the faults of
   `AhlPolling` as what `ModbusHandler` may do.
2. `DoorCounters`: a file cut off by a power failure and the polls that fail on it.
3. The 1k bit fields, epoch times and virtual parameters as operators against a
   reference over bounded inputs.
4. The 1k log retrieval and service memory of the RS232 handler.
5. Desired properties of an unexpected type, the interval choice, and the first-beat
   metadata of the heartbeat.

Theorems worth proving next: the shared mirror as a refinement of `AhlPolling`, the
safety half of `NotesDrained` and of the 1k `Converges` (which `PollRaises` and the
round robin make harder than for AHL), and that nothing but a foreign file lets a 1k
write change another parameter when late answers do occur.
