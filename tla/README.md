# esp-console-kit in TLA+

Specifications of the parts of esp-console-kit whose correctness depends on the order in which
tasks, requests, timers and peers act; TLC configurations that check them on small instances; and
TLAPS proofs of the properties that matter most, for every value of the constants.

Source lines below are the repository's. A function of the code and the action that models it have
the same name where TLA+ allows it, and `PROJECT.json` gives the lines of every definition.

## The system

The kit is a set of ESP-IDF components: console commands, and a web server with a JSON API, over
the same services. The services are the interesting part: each keeps state that several tasks
reach -- the console's task, the web server's one task, the task of its one long operation, a pull's
task, the system event task, the timer task, the servo and holo tasks.

| Component | State | Operations | Who calls it | What is hard |
|---|---|---|---|---|
| `events` | kinds, a ring of the last happenings, listeners' wants and marks, a count | declare, changed, happened; listen, want, take, since, unlisten | any task publishes; the web server listens | numbering and storing are two critical sections; callbacks run outside the lock; the seq goes round |
| `ota_core`, `cmd_ota`, `web_ota`, `ota_pull`, the jobs of `web_server` | the update session, the handle and hash of its owner, `s_cancel`, the two slots and the boot choice; the web server's one job | begin, set_source, write, finish, fail; discard, activate; claim and release of the job; restart | console, upload job, pull task; web server's task | ownership; what is read under the lock is used after it; a reset at any step; one of many error paths forgetting something |
| `xmodem`, `xfer_session` | a receiver's or a sender's position in a transfer; the UART's settings | receive, send | `fs put`/`get`, `ota put`; a host on the other end | lost, damaged, repeated and late answers; ACK before the data is kept; two ends that must both stop |
| `fs_ops`, `cmd_fs` | files, a writer's `.part` file | list, stat, make, remove, move, copy; begin, write, abort, finish | console; upload and copy jobs | unlink then rename; two writers of one name; a reset between two steps |
| `web_events` | streams, each with wants and a seq; `s_queued`; hashes of what was last sent | open, flush, heartbeat, close, stop | web server's task; notified from any | a flush accepted and not run; the seq moved on before the data is sent |
| `web_server` | handle, routes, job; name, password, origins, in NVS and in memory | start, stop, register, settings, jobs | console; application; HTTP clients | nothing is locked: a setting is stored, then loaded; a route may be registered while the server starts or stops |
| `web_api` | none of its own | file system, network and servo requests | web server, job tasks | its calls interleave with the console's |
| `wifi_known` | known networks (NVS), the join in hand, want/have flags, retries, a timer | join, forget, enable, save; driver events; retry | console, web, event task, timer task | a decision under the lock carried out after it; which passphrase is saved when |
| `wifi_ap` | on, the time it goes off | start, start for, stop; off timer | console, web, timer task | the timer against a start to stay |
| `nvs_backup` | exclusions; an import's plan; a snapshot file | export, check, snapshot, apply | console, web | writes commit per namespace; the undo may be what is imported |
| `servo` | position, driven/released, policy, limits per servo; registers per controller | move, enable, disable, hold, tick, limits, reset | console, web, servo task, holo | outputs on the wire against outputs believed; events dropped at a limit |
| `holo` | motion, segments, timed LED states | motions, LED, `leia`, stop, tick | console, application, holo task | motions that must end; the chain of timed states |
| `i2c_bus_guard` | a mutex per bus, the driver's stale pointer | probe, receive, transmit_receive | any I2C user | a lock around calls that also time out |
| `api_core` | tables of routes, one watcher | add, watch | components at start; the web server | the tables before the server, or after |
| `cmd_wifi`, `cmd_nvs`, `cmd_network`, `cmd_system`, `cmd_i2c`, `tools/fs_xfer.py` | none that outlives a command | | | |

How they interact: publishers call `events_happened()`/`events_changed()`; the hub calls back
`web_events`' `queue_flush`, which asks the HTTP server to run `flush` on its own task. An update
comes through `xmodem` (`ota put`: the receiver's sink is `ota_core_write()`), an upload job or a
pull; each begins a session in `ota_core`, and uploads and other long operations hold the web
server's one job. `fs put` is `xmodem` over an `fs_ops` writer. A backup's snapshot is written and
moved aside through `fs_ops`. The holo task drives its axes through `servo`, whose boards are on an
I2C bus that `i2c_bus_guard` patches. The station's joins and the access point change one radio mode.

## Modules

| Module | Models | Checked by | Proved in |
|---|---|---|---|
| `Events` | `events/events.c` | `MCEvents`: ring, catchup | `EventsProofs` |
| `WebEvents` | `web_server/web_events.c`, over `Events`, which it extends; start and stop of the server around it | `MCWeb`: web | `WebProofs` |
| `WebServer` | the settings and the routes of `web_server/web_server.c`, `api_core`'s tables | `MCWeb`: web | `WebProofs` |
| `OtaCore` | `cmd_fs/ota_core.c`, `ota put`, `ota pull` and `ota activate` of `cmd_ota.c`, `web_ota.c`, `ota_pull.c`, the jobs of `web_server` | `MCOtaCore`: session, ends, one | `OtaCoreProofs` |
| `Xmodem` | `cmd_fs/xmodem.c`, both ends and the line between | `MCXmodem`: xmodem | `XmodemProofs` |
| `Transfer` | what a receiver promises: the abstract specification `Xmodem` implements | as `IsTransfer` in run xmodem | `XmodemProofs` |
| `FsOps` | the writer, removal, moves and copies of `cmd_fs/fs_ops.c`, with `fs put`, `fs rm`, `fs mv` and the requests of `web_api/web_fs.c` that call them | `MCFsOps`: fs, lost | `FsOpsProofs` |
| `WifiKnown` | `cmd_wifi/wifi_known.c`, the requests of `web_api/web_net.c`, the driver as it is used | `MCKept`: kept | `KeptProofs` |
| `WifiAp` | `cmd_wifi/wifi_ap.c`, the request of `web_net.c`, the radio mode | `MCKept`: kept | `KeptProofs` |
| `NvsBackup` | export and import of `cmd_nvs/nvs_backup.c`, the writing commands of `cmd_nvs.c` | `MCKept`: kept | `KeptProofs` |
| `Servo` | `servo`: `Servo.cpp`, `ServoManager.cpp`, `PCA9685ServoController.cpp`, `Esp32PwmServo.cpp`, `servo_api.cpp`, `cmd_servo.cpp`; `web_api/web_servo.c` | `MCMotion`: motion | `MotionProofs` |
| `Holo` | `holo/holo.c` | `MCMotion`: motion, scan | `MotionProofs` |
| `I2cBusGuard` | `i2c_bus_guard/i2c_bus_guard.c` over ESP-IDF's driver | `MCMotion`: motion | `I2cBusGuardProofs` |

Each module has definitions that begin with the comment `Mutant:`. They are not used by the
specification: they are the wrong versions of the definition below them, each of which has to make
a property fail.

Three MC modules hold components that share no variable: `MCWeb`, `MCKept` and `MCMotion` have a
variable `part`, chosen at the start, and only that component moves, so a run explores the sum of
its parts and not their product. Their constraint `Explored` says, part by part, what is not
explored beyond; a state outside it is still checked, its successors are not.

Some properties are stated "but for" something the code really does. What it is, is a history
variable named for it (`swallowed`, `unsynced`, `late`, `overtaken`, ...); the runs reach each, and
everywhere else the property has to hold. They are listed with their lines below.

### Events

Every function of `events.c` takes one recursive mutex, so a critical section is an action, and
what is between two of them lies between two actions. `events_happened()` is `Happened` (number),
`Store` (the ring's slot), `Mark` (`notify()` under the lock: marks, and collects callbacks),
`Call` for each callback, `Return`; `events_changed()` is `Changed` and the same from `Mark` on.
Masks are sets of kinds. JSON is left out, except that there may be no memory for it (`made`).
Listeners `Listen`, `Want`, `Take`, `Read` (`events_since()`) and `Unlisten` in any order; a
listener starts at `events_seq()`, as a new event stream does. The arithmetic of `seq` (`SeqOf`,
`From`, `Oldest`, `Lost`) is the code's, with 65535 as `SeqMod`. `kindOf`, `unkept`, `pos`, `got`
and `lost` are history.

- *ring*: two publishers, one listener, a state and a happening kind, a ring of 2, `SeqMod` 3, four
  happenings: enough for a publisher to be overtaken by a whole round of the ring and for the seq to
  go round. `RingKeepsLatest`, `AtMostOnce`, `LostIsCounted` (the ring); `DirtyIsAnnounced` (the mark
  and the call are two steps, a take may fall between), `DueIsWanted` (the marks).
- *catchup* shows `CatchesUp` violated: a read between another publisher's `Happened` and `Store`
  passes over the number and returns the latest seq (events.c:222, 245, 305-309), and `events.h:13-15`
  promises that a listener that missed some can catch up.

`LostIsCounted` is stated for a listener less than `SeqMod` behind: further back, `From` cannot
tell how far (events.c:297).

### WebEvents

It extends `Events`: the hub's only listener is `Web`, whose callback is `queue_flush()`. Publishers
exchange `s_queued` and ask the HTTP server for a flush (two steps, `asking` between them); the
server's task runs what was asked in the order it was (`work`), opens streams, sends, and beats; the
console's starts and stops the server. What a flush does between two things another task can see is a
step: the take, each send, the reading of the ring for each stream, the new wants. A send fails when
its connection has gone, and the stream is then dropped (`closing`). A state's JSON is the bit
`value`, its hash that bit; `system`, new each time,
is always sent (the run leaves it out). All kinds are declared before the server starts.

- *web*, part `streams`: a state and a happening; one publisher, one connection, one place, a
  client that resumes or starts anew. `QuietIsTold`: when nothing is under way, an open stream has been
  sent the present value of each state it wants and every happening since the one it began at;
  `StreamsAreConnections`: no stream outlives its connection or the server. One place is enough for
  what a stream is owed, since places share only `s_queued` and `s_sent`; a publisher against the
  console and the server's task gives three tasks.

But for: a flush the server accepted and did not run, since it was ending (`swallowed`: s_queued stays
set and no flush is asked for again until a restart); happenings a read passes over (*catchup*'s), for
which there is no memory, or which are further back than the seqs go round (`missed`; `upto` is the
count a stream's seq stands for). Dropping a stream does not narrow what the hub is asked for,
which costs calls and loses nothing. The set of `closing` sockets has no order.

### WebServer

The console's task is `cli`, PATCH's is `patch`, the application's, which starts the server and
registers routes, `app`. A setting is stored (`Put`), loaded back (`LoadHostname`, `LoadCors`) or copied
(`CopyCors`), and applied, each a step. A start is a loop over the routes (`StartNext`), a step each,
since another task may register one meanwhile; so is the server's stop. An allowlist is a set.

- *web*, part `settings`: one name besides the default, two origins of which one is the build's;
  part `routes`: two routes of a path, one of another in api_core's tables, room for four.
  `ServedAsAsked`: what is in effect is what is stored, once nobody is at it; every route, and one
  preflight a path, is with the running server; the server runs as `off` says.

But for: `web cors add` against a PATCH, which leaves the list in memory another than that in NVS
until the next change or restart (`unsynced`, web_server.c:1360-1365); `off` not stored, a result nobody
looks at (`unstored`, 1378); no memory for a registration (`unserved`). A route registered by both the
start's loop and its own `register_live()` fails the second time and is marked not live, and then a
later route of its path asks for the preflight again, and logs an error although all is served. Two
tasks in `start_httpd()` at once, and a registration that uses the handle of a server being stopped, are
not modelled: the model keeps them apart.

### OtaCore

Tasks are of four kinds: `Putters` (`ota put` on the console), `Uploaders` (PUT /ota/image, on the
job's task), `Pullers`, and `Askers`, who call `ota_core_activate()`: the console, or the web server's
task; `Followers` are those who run `ota pull`, which starts a puller and then looks at the session
until it has ended, and activates what it then finds staged. A task's place is in `pc`, and what it read
under the lock and uses later is in `local`. Images
are counted in chunks; a slot holds a whole image (`good`) or not (`torn`); the header's, hash's and
flash's verdicts are choices. Sections under `s_lock` are single steps, and what the code does outside
(opening the handle, writing, `esp_ota_end()`, `esp_ota_set_boot_partition()`) are steps of their
own. `Discard` may be called at any time; `Reset` is a power cut or restart at any step, after which the
bootloader falls back to the other slot when the chosen one does not verify.

`owners` is history: the tasks whose begin succeeded and whose session has not ended. `intruded` is
set when a task ends a session that is not its own, which the code lets two calls do: `Selected`
(activation's last section) and `Fail` (a late `ota_core_fail()`).

- *session*: `ota put`, `ota pull` and `ota activate` on the console against a pull on its own task,
  slots of two chunks. `Exclusive`, `HandleIsOwned`, `StagedIsWhole` hold until a task intrudes;
  `InProgressIsOwned` and `AlwaysBoots` hold throughout.
- *ends*: an upload and a pull, under fairness: `UpdateEnds`, `JobIsReleased`.
- *one* shows `OneUpdateAtATime` (ota_core.h:2) violated: an activation of the other slot by name is
  not refused during an update, and its last section writes `ACTIVE` over `RECEIVING`
  (ota_core.c:505, 522-530); the next begin is then accepted.

Two more things the model reaches and no property excludes: `ota put` reads the session after XMODEM has
wound up and then fails it (cmd_ota.c:178-180), and by then it may be another's; `ota pull` activates
whatever its last look found staged (cmd_ota.c:255-286), which may be another's image.

Fairness (`Fairness`): a task that has begun something goes on with it -- FreeRTOS runs it, and each
wait has a timeout (three receive timeouts in `upload_run`, XMODEM's retries, the HTTP client's). No task
has to begin anything, nobody has to discard or activate, and power need not fail.

Slots of two chunks tell apart nothing written, partly written and full; `SlotSize + 1` is also tried,
for what does not fit. More tasks of a kind add no new place to stand: the proofs are for any number.

### Xmodem

A sender and a receiver on two lines. A line is the sequence of what the other end reads at once: a
block (its place in the file, and whether its CRC will hold) or a byte. The clock is left out, but for
one thing: a wait times out whenever there is nothing to read, and `late` counts the waits that ended while
what they waited for was still coming, as when a sink erases flash; `MaxLate` bounds them. `Fault` loses or
damages what is first on a line, a block's header included (what follows is then noise, or taken for
EOT or CAN). `Num` is the block number, 256 being `NumMod`. A block that is read whole is one step; a
bad block takes with it all that is on its way (`wait_quiet()`). `MAX_NOISE` is a choice between
skipping and giving up.

`Transfer` is the abstract specification: a sequence of blocks grows in the order of the file, a block
a step, and a transfer that ends well has them all. `Xmodem`'s receiver implements it (`IsTransfer`,
with what the sink was handed as the sequence), whatever is lost, damaged, late or repeated.

- *xmodem*: five blocks, numbers modulo 4, one 'C' that is polled, one late answer, `MAX_ERRORS` 2, two
  faults. `IsTransfer`, `AckedIsKept`, `BothEnd`. The file is longer than the numbers go round.

`NumberAssumption` (`NumMod > MaxPolls + MaxLate + 1`) is what a block number rests on, and TLC finds
`IsTransfer` violated without it. The sender counts an ACK of an earlier copy for the block it has just
sent (xmodem.c:428), so every answer that comes after its timeout leaves one more copy on the lines for
the rest of the file, and the sender runs ahead by one more block; so does each 'C' it answers late.
With 256 numbers, and the 60 'C's of a start that was asked for nothing else
(`cfg->start_timeout_ms`, which no caller sets), 194 late answers in a file are as many as there is room
for; the code does not count them. A file that met more could have a block taken for the one 256
before it.

One disagreement has no run of its own: xmodem.h:68 says "On any failure the other end is sent CAN
CAN", and a file shorter than announced is found out after the ACK of its EOT (xmodem.c:201, 210-212).

Fairness: each end takes what has come or, when nothing has, times out; the receiver's linger ends.
The lines need not deliver anything.

### FsOps

Tasks are `Consoles`, `Jobs` (the web server's one long operation: uploads and copies) and `Servers`
(its own task: deletes and moves). Each call of the volume that changes something is a step, since
nothing in the code keeps two tasks from the same name: a writer is `Begin` (the look at the name),
`OpenPart`, `Write` a chunk at a time, `Close` (with the hash's verdict a choice) or `Cut`
(`fs_write_abort()`), `Check`, `UnlinkOld`, `RenamePart`, and `Drop` for every path that takes the
`.part` away. `fs_move()` is `Move`, `ClearTo`, `MoveFile`; `fs_remove()` of a file is `Remove`,
`RemoveFile`. `Reset` may come between any two. The change hook keeps no state of the kit's and is left
out, as are directories and the space that is left.

The volume is POSIX: an open handle follows its file through renames, and what is written to a file
without a name is gone. The volume may also refuse (`Failing`: LittleFS, for one, when the file is
open). Of a file's data only its length is kept: `NamesAreWhole` tells a whole file from one cut short,
which is what the `.part` is for. `had`, `cost`, `left` and `shared` are history.

- *fs*: one task of each kind, two names (one like the other: symmetric), any call may fail, resets.
  `NamesAreWhole` holds until two have written one `.part` at once (`shared`): after that the second
  has emptied the file the first is about to put in place. `FilesAreKept` and `PartsAreTemporary`
  hold throughout. A file of one chunk tells empty from whole; longer ones are what the proofs cover.
- *lost* shows `FailedWriteCostsNothing` (fs_ops.h:73-75, cmd_fs.c:494) violated with no call failing
  of itself: `fs put` and an upload write one name; one has unlinked the old file when the other's end
  renames or unlinks the `.part` they share, its rename finds nothing, and no file is left
  (fs_ops.c:417-418, 475-486). With a rename that fails of itself, one writer is enough.

### WifiKnown

The store and the join share `s_lock` with the flags; everything is decided under it and done after it,
so a caller, the event task and the timer's each stand between a decision and its driver call: `call`,
`evt`, `fire`. A join is `Join` (the join in flight, under the lock), `Leave`, `Config`, `JoinConnect`, and
`JoinFailed` when the driver refuses; a forget is `Forget` (the store), `ForgetJoin` (the join and the
flags), `Leave`, `Config`. The driver is external: it connects to what it is configured for, posts an
event for each address and each loss to a queue, and a right passphrase may fail too. What a web
request checks first (`Requests`) differs from what the commands check. `Restart` keeps the store.

- *kept*, part `known`: two networks, a right passphrase, a wrong one and none, a store of one entry (so
  that each network evicts the other), one fast retry, two events waiting, one caller. One fast retry
  tells "at once" from "by the timer". `WantedIsPursued`: a station that is wanted and has a network has
  an address, is connecting, or has its timer running; `OffIsOff`: one that is not wanted is down;
  `ForgottenStays`: a forgotten network is not written back.

But for: a connect the driver refuses, after which the station is wanted and nothing pursues it
(`refused`); a call of the driver decided on before the station was given up on, asked for or joined
anew, and made after (`late`: the comment in `wifi_known_forget()` orders the calls against it, the
decision under the lock and the call outside it still leave the window, wifi_known.c:282 and 365). With
two callers that is also a `wifi off` whose disconnect comes after another task's join has connected:
the loss says ASSOC_LEAVE, so it does not end the join (327), which stays in flight with the link down and
no timer: wanted and given up. And but for an event of the former connection taken for the join in flight,
or one that comes between a forget's erase and its clearing of the join (`crossed`, 657): an address is
not asked which network it is of. A join that fails because its network is away is stored, a mistyped
passphrase over one that worked with it, where wifi_known.c:12-14 has "so a typo never replaces a
passphrase that worked"; and `KNOWN_MAX` may evict the network to rejoin. `s_join_result` is shared by all
joins: `wifi_save` may report another's, and no state depends on it.

### WifiAp

There is no lock: each look at the mode and each change of it is a step of a caller, of the web server's
request, or of the timer's callback; the station's joins change the same mode (`sta`). Two sets of
credentials, a caller besides the server.

- *kept*, part `ap`. `ApKeepsItsWord`: an access point turned on to stay stays on, a count has its timer,
  the board is on the air when it says so, and with the credentials that are stored.

But for `beaten`: a change made on a look that was no longer true, as when the timer's callback has seen its
deadline and the console turns the access point on to stay before it stops it (wifi_ap.c:238).

### NvsBackup

An entry holds a value of a type, or nothing; a file is what it holds (`text`), whether it is this
board's and whether it is whole. An import is `Import` (the check, and the differences), `Snapshot`,
`MoveAside`, `MoveIn`, then entry by entry `EraseOne`, `SetOne` or `WriteFails`, `Succeed`; `NvsRestart` may
come anywhere. Other tasks write their own entries (`Other`), and the console's `nvs_set`, `nvs_erase` and
`nvs_export` come between imports. `good` is the configuration before the first of the imports that
have not ended well.

- *kept*, part `nvs`: two namespaces, four entries of which one is excluded, two values of two types,
  three files (one that retypes, one with only an excluded entry in a namespace, one damaged), one edit by
  others, up to the third snapshot. `UndoStays`: after an import that failed or was cut, and one undo that
  went the same way, the configuration before is in one of the two snapshots. `ImportedIsAsked`:
  an import that ends well has done what its file and its options say, and nothing to an excluded entry.

But for: a snapshot that could not be moved aside, whose result is ignored (`bare`, nvs_backup.c:1529),
and a third import after two failures, which moves the original out: `UndoStays` counts to two. An export
reads entry after entry and is not one cut of the configuration. An `ERANGE` left in errno by an
earlier number makes a later `nvs_set` of a good one fail (`SetValue`). An undo imported without
`--replace` leaves what the failed import added, though cmd_nvs.c:842 offers it as the way back.

### Servo

A call of the API runs under the manager's lock and is one step; so is a frame: the policy's tick of each
servo, then the board's one write (`ServoTasks`: the servo task, or a caller that must not wait for it). The
listener is told after the lock, event by event (`Tell`). A typed command takes no lock: `MoveServo` is
whole when it meets nobody, and `MoveMeets` leaves every flag it shares to chance when it meets the tick.
A pulse is a position of 1 to 3, a range is asked for and an inverted one, a policy releases one zone;
settling is one tick.

- *motion*, part `board`: a channel of a PCA9685 under commands, frames, resets, plain PWM and failed writes;
  part `pin`: an MCPWM output, whose timer may fail; part `range`: calibration and policy in NVS, key by
  key. `WireFollows`: once a frame has gone out, the chip puts out the servo's last command while the servo
  says it is driven, and nothing otherwise; `ListenerIsCurrent`: the last told is what is; `RangeIsWhole` (in
  `TypeOK`): a servo works in a range that was asked for, or in its default.

But for: a servo the board was reset under, which goes on saying it is driven and whose next
`servo_move_us()` does not enable it (`limp`, Servo.cpp:261), and a pin whose timer did not start, which a
timer enabled and not started leaves jammed; a write that failed, which nobody repeats until the next
change (`stale`); a save that failed midway over an older record (`mixed`, Servo.cpp:123); a task overtaken
by another with newer events, or more changes in a tick than `MAX_EVENTS` (`overtaken`,
ServoManager.cpp:98, 109); a typed move that met the tick (both, cmd_servo.cpp:159, while
ServoManager.hpp:73 speaks of "The lock every per-servo command takes"). The last is checked for the
one step, since anything may hold after it.

The header promises two things the code does otherwise, neither a hazard: `servo_move_us()` "Does not
enable it", and `MoveToValue()` does; the listener is called "from the servo task", and is from a caller's.

### Holo

One task animates; a command takes `s_lock`, changes the holo, lets it go, and then wakes the task (`Wake`:
a step of its own). `Frame` is one frame of every holo: the leg's next place, its end and the next leg,
the hooks' refusal, arming, the light's time. Places are on a grid of three by three, a leg takes
`Frames` frames, a circle four legs, and a time that was asked for is `running` and then `over`.

- *motion*, parts `motion` and `light`: one holo, one caller against the task, every motion, a swing to the edge of the
  travel (so that clamping happens), at most one fault at a time. `LightComesBack`: of any chain of timed
  lights, leias and steady ones, what a light goes back to is the steady one asked for last; `ReturnsHome`:
  wag, nod and circle end where they began, the axes sent there; `AwakeWhileBusy`: the task that sleeps until
  told has nothing to animate.
- *scan* shows `HoldsFromThen` violated, under fairness of the task's frames: a scan's leg ends and the
  next begins in one tick, so that the look at the time (holo.c:443), made only between legs, is never made.
  holo.c:82: "twitch and scan with -t: hold from then".

Arming is looked at every frame; an axis that loses its calibration in flight is refused only by the
next command. Neither is claimed otherwise by the code.

### I2cBusGuard

A task asks for a probe, a read or a write of a bus (`Request`); the first two take the patch's mutex
(`EnterGuard`, `GuardTimeOut`), a probe looks for a stale read and clears it under the driver's lock
(`LookForStale`, `ClearStale`), and then the driver: its lock, the wire, the interrupt. A read that times out
leaves `containsRead` set. The driver is modelled as the comment of i2c_bus_guard.c describes it.

- *motion*, part `bus`: a reader, a writer that waits forever and a third, two buses. `ProbeIsAlone`: no
  probe is on the wire of a bus with a failed read's state, no mutex is left with a task that has gone.

## What the composite runs leave unexplored

| Run | Part | Beyond `Explored` |
|---|---|---|
| web | streams | nothing: bounded by one happening, one place, one connection |
| web | settings | what follows a registration that had no memory, or an `off` not stored; routes but the built-in one |
| web | routes | nothing: registrations, the server's start and stop and a restart are all that runs in it |
| kept | known | what follows `crossed` or `late` |
| kept | ap | what follows `beaten` |
| kept | nvs | what follows the third snapshot; an import without a snapshot over an older file |
| motion | board, pin | what follows `overtaken`; two-step commands together with plain PWM or a failed write |
| motion | motion | lights, and two faults at once |
| motion | light | every fault, and motions but plain moves |

A state beyond has its invariants checked like any other; its successors are cut off. What is cut off
is what the history variables excuse, and products of two things that share no state.

## Proofs

All proofs are for arbitrary constants satisfying the modules' assumptions.

`EventsProofs`. `Typed` is type correctness. `RingKeeps` needs the strengthening that a publisher in
flight carries a number no greater than the count that is its alone and of its own kind, and that every
slot holds a number of its residue, no later than the count; the case that matters is `Store`, where a
slot already holding a later number of the same residue means the publisher's own is out of the
ring (`SlotGap`). `Announced` and `Wanted` share one invariant: a call list names only callbacks,
a listener's slot names the listener, and marks lie within wants. `ReadOnce` and `LossIsExact` rest on
the cursor being `SeqOf` of the history's `pos`, and on lemmas of the modular arithmetic: within one
round, `From` is the inverse of `SeqOf` (`FromCursor`), and beyond it never returns a number before
`pos` (`BackFits`).

`OtaCoreProofs`. `Owned` proves `Ownership`, which says where in the code a task is an owner
(`Holding`), that an owner is alone and its session in progress unless a task has intruded, and that
a session in progress has an owner; `Exclusive` and `InProgressIsOwned` are parts of it. `Spared`
proves that `s_part` is never the running slot, from which `AlwaysBoots` follows: only `s_part` is
written. `Staged` proves `Staging`: for each place an owner may stand, what is known of the handle,
the counts, `s_cancel` and the flash; `HandleIsOwned` and `StagedIsWhole` follow.

`FsOpsProofs`. `Typed` carries `Handles`: an open handle is on a file that has a name, and only a task
that writes has one. `Temporary` and `FilesKept` are inductive with it as they stand, the second by
counting at each rename that fails or is cut off what it has cost. `Whole` needs `Wholeness`: while
nothing is shared, a `.part` has one task at it, and that task's place says how much it holds -- as
much as it has written, and all of it once past `Close` -- so the rename can only put a whole file in
place. That a `.part` has one task is what `shared` is about: `OpenPart` looks at no one.

`XmodemProofs`. `Typed`, `AcksAreKept` and `Transfers` rest on one inductive invariant, `IInv`. What has
to be shown is that no other block on the line carries the number of the one expected. The sink has the
blocks before the one held, in order (`SinkHas`, `Counting`, `AckedIsHeld`); the blocks on the line begin
no earlier than the one held and rise by at most one at a time to the one the sender is at (`Rising`); so
it is enough that the sender is never far ahead. It gets ahead on answers, an ACK is made only of a block
at most one beyond the one held, and all that is on the two lines is what the 'C's and the late answers
put there (`FewUnderWay`, `NotFarAhead`): that is where `NumberAssumption` comes from.

`MotionProofs`. For the holos `HoloIInv`: a motion that ends by itself is always on a leg, a wag stays at
the height it found and a nod straight above and below, the last leg is home, and one that ended is home
(`MotionOK`); `Returns`, `LightComes` and `Awake` follow. The invariant has to speak of the leg, since
`ReturnsHome` is about the end, and of one axis at a time, since a wag's legs are made from one. For the
servos `ServoIInv`: a channel is asked for what its servo is, unless it went limp (`DrivesOK`); what is
written is what was asked for, of a pin at once and of a board with its frame (`WiredOK`), from which
`Follows`; a servo that has not changed since the last frame is what is still to be told of it by some
task, or else what was told last (`ToldOK`), from which `Current`; a servo's range and the one it will have
after a restart are whole (`RangesOK`), from which `Ranged`. `MotionTyped` adds the bus's `IInv`.

`KeptProofs`, one invariant a part.

- `KnownIInv`: `InTurn` says that, until `late`, one caller at a time has a call of the driver to make;
  `JoinHeld` that a join in flight has its caller on the way to the driver, or the driver at it, or the event
  that ends it waiting; `Pursued` that, with no join in flight, a station that is wanted is connected,
  or somebody or the timer is about to connect it, or a loss is still to be heard; `LossIsTold`, that a link
  that went down after an address says so in an event not heard yet, without which an address heard
  late would pass for a link; `LetGo`, that a station given up on has somebody to drop what is left of its
  link; `OneEntryEach` and `Erased`, that a forgotten network has no entry, and a join of it only while
  somebody is about to clear it. When nothing is on its way, what is left of each is the property.
- `ApIInv`: a deadline without its timer is about to be acted on (`CountRuns`); on the air without saying so,
  or with other credentials than the stored, has a task that is about to put it right (`AirHeld`,
  `CredHeld`); once it is to stay, no task is past a look at the count (`StayHeld`).
- `NvsIInv`: which of the snapshots holds the configuration to come back to, place by place in the import
  and for the first and the second of a row of imports that did not end well (`Kept`); that the entries
  behind the import's place are what the file asks for and those ahead what they were (`InOrder`).

`I2cBusGuardProofs`. `Guarded` proves the inductive invariant `IInv`: the mutex is with the task that is
inside a wrapper of its bus and with nobody else (`Held`), only wrapped calls come to the wrapper's own
steps (`Asked`), and past its look or its clear a probe's bus has nothing left of a read (`Clean`). The
last is the point: between a probe's clear and its wire only a read could set the flag again, and a read
has to hold the same mutex; a write does not, and does not set it. `Alone` follows.

What the proofs assume of the constants is what the modules state: that the numbers of a block or of a
happening go round far enough (`NumberAssumption`, and `SeqMod` above `Kept`); that limits are numbers in
order, and the ranges and targets asked for within them, as the commands check (`ServoAssumption`,
`HoloAssumption`); that "" is no network and not the right passphrase (`KnownAssumption`); that the timer's
task is not a caller (`ApAssumption`); that the entries are listed once each, and "nothing" is not a value
(`NvsAssumption`). TLC evaluates each on the runs.

`WebProofs`. `QuietIsTold` is about states in which nothing is under way and needs to know what is under
way in all the others. For the streams `StreamsIInv`: a state that a stream was not shown as it is has a
publisher about to mark it, is marked, or is what the running flush is about to send (`StatesOwed`); a
happening beyond a stream's cursor has a publisher at it, or a flush that is yet to read (`HappeningsOwed`);
and whatever is marked has a flush that comes (`FlushComes`): a callback collected, a publisher between the
exchange of `s_queued` and `httpd_queue_work()`, a message that waits, or one that was refused or
swallowed. `s_queued` may only leave a flush to one of these (`QueuedIsAsked`). A stream's wants are the
hub's, but for one that is being opened (`StreamsAreHeard`), which is why a state marked meanwhile is not
lost: `s_sent` was cleared, and what is in it was sent to all (`SentIsShown`). Up to its cursor a stream has
what it is due (`StreamsAreRead`): that is `RingKeepsLatest` at each read, with `FromCursor`. For the
settings `SettingsIInv`: what is in effect is what is stored, or the console or a request is about to load it
(`HostFollows`, `CorsFollows`, `OffFollows`). For the routes `RoutesIInv`: while the server runs, a route is with it or
is ahead of the start's loop or in the application's hands (`RoutesFollow`), a path with a handler has its
preflight (`Preflighted`), and the loop is one task's (`LoopOwned`).

Only model-checked: every liveness property, which TLAPS does not reach. The proofs about `MCWeb`,
`MCKept` and `MCMotion` are of their specifications without `Explored`, which only bounds the runs.

## Not modelled

- Directories (their recursive removal, listing), hashing, downloads, and the check for free space.
- Rollback of a new image on trial (`ota_confirm_running()`), what a release channel resolves to, and
  comparing versions: ESP-IDF's, or pure functions of a response.
- XMODEM's checksum mode, which the receiver never asks for; running out of memory before a transfer.
- The web server's answers that are functions of one request: origins compared, content types, base64, the
  page at `/`, the captive portal, the OpenAPI document; mDNS beyond the name it announces.
- The legacy `join` of `cmd_wifi.c`, one driver call after another past the known networks; scans, DHCP and
  channels. Two tasks in `wifi_known_join()` at once are in the model and its proofs, and not in the run, which has one
  caller.
- The text of a backup file, its CRC (a verdict) and the check for space in NVS.
- A second PCA9685, a sweep over several servos, what a typed command without the lock does to another
  channel's bit of its board or to the range that `servo_config` reads and writes; a pulsing light's pulse,
  a light without a channel.
- Asynchronous I2C buses, and the time that is left of a timeout.
- Printing commands (`cmd_system`, `cmd_network`, `cmd_i2c`, most of `cmd_wifi` and `cmd_nvs`), which keep
  nothing that outlives a command; `xfer_session`, one task's UART settings; `tools/fs_xfer.py`, the host's.

## Plan

1. `WifiKnown` with two callers: a forget and a join that meet, and a join that is told another's
   result.
2. `Servo` with two servos of one board, for the sweep and for the bits that share a word.
3. `FsOps` with directories, so that a recursive removal meets a writer.
