# Verification of esp32-gnss-ntp

TLA+ models of the firmware of a stratum 1 NTP server (an ESP32 with a GNSS
receiver on a UART and its PPS output on an interrupt), the TLC runs that check
them on small instances, and theorems that TLAPS checks for every value of the
constants: about the local clock and the service it runs in, the client table and
the rates of the server, the WiFi sessions and the upload, the stored settings, the
trace, the encoder and the task of the display. Everything is translated from the code under `src/` and
`include/`; `PROJECT.json` maps each definition to its lines.

## 1. Inventory of the system

The firmware runs three FreeRTOS tasks, two interrupts and one event callback:

| actor | priority | what it runs |
| --- | --- | --- |
| PPS interrupt | IRQ | `GpsService::onPpsIsr`: counts pulses, queues edges in a ring |
| `task-time` | 5 | `GpsService::loop`, then `NtpServer::loop`, about every millisecond |
| `task-net` | 2 | WiFi state machine, HTTP portal, OTA, trace download |
| `task-ui` | 1 | display, encoder, menus, LEDs, the watch on the other tasks |
| encoder interrupt | IRQ | `onEncIsr`: counts transitions of the shaft |
| WiFi event callback | system | feeds events to `task-net` |

| component | state | operations | properties that make it correct |
| --- | --- | --- | --- |
| **LocalClock** (`local_clock.cpp`) | five-state machine, edge ring, phase anchor, streaks, residual, start of the holdover | `onPpsEdge`, `onNmeaCommit`, `tick`, `nowUtc`, `qualityMs` | serves only from an anchor with a phase; never steps while locked; Locked is earned by agreeing labels; a holdover ages and ends |
| **GpsService** (`gps_service.cpp`) | interrupt ring and count, NMEA parsers, last committed second | interrupt; parse, drain, commit, tick | the right label goes with the right pulse under any interleaving, outage or delay; recovery in bounded time |
| **NtpServer** (`ntp_server.cpp`) | table of client slots, global window, access list | `handlePacket`, `loopRefuseOta`, `sendNormal`, `sendKiss` | rates bounded, refusals deserved, denial lasts and ends, answers honest about their error |
| **Task scheduling / IPC** (`main.cpp`, `app_ipc.cpp`) | shed flag, settings lock, heartbeats | `ipcShedNtp`, `settingsCommit`, lock with timeout | shedding harms nothing but availability; no committed setting is lost |
| **NetTask / WifiManager** (`main.cpp`, `wifi_manager.cpp`) | connection and scan sessions, setup portal | connect, scan, portal, reconnect with back-off | one session at a time, driven to its end; the link comes back for ever; the portal opens only when asked for |
| **Settings** (`settings.cpp`) | NVS keys with a CRC, a RAM copy | load, save | what was committed last is what a restart loads |
| **ClockTrace** (`clock_trace.cpp`) | RAM ring with sequence numbers, recording state | start, stop, clear, sample, read in chunks | a download is a contiguous run of one recording |
| **OtaService** (`ota_service.cpp`) | upload session, boot partition | begin, write, finish, fail, poll | boots only a verified image; an abandoned session ends |
| **StatusLeds** (`status_leds.cpp`) | heartbeats, panic timer | loop | restarts when a task is stuck, and only then |
| **Encoder** (`encoder.cpp`) | quadrature state, counter of the interrupt, filter, debounced button | interrupt; `loop`; `consumeRotate`, `consumeClick`, `consumeLongPress` | no step that was not turned, none to the other side |
| **DisplayUi** (`display_ui.cpp`) | page, list of networks and cursor, pending scan, blanking | `loop`, one handler per page, scan request and answers | the cursor stays in the list; a dialog ends, whatever the queues lose |
| **WebPortal** | none of its own | HTTP handlers on the above | |
| **DebugLog** | byte ring | append, snapshot | |
| **ExtClock** | external RTC, compiled out | | |

How they interact. `task-time` owns GpsService, LocalClock and NtpServer; only
the interrupt shares memory with it (the ring, under a spin lock), and the
settings are copied under a mutex it never waits for. `task-ui` asks `task-net` for
scans, joins and the portal through the queue `netReq` and is answered through
`uiMsg`; both are bounded and written without waiting, so either may lose a
message. The list of a scan lies beside them in `AppIpc`. Each task writes its
heartbeat there, and the LEDs of `task-ui` restart the device when one is stale. UI and web change the
settings through copies and `settingsCommit`. Uploads and trace downloads raise
`ipcShedNtp`: `taskTime` then leaves out the GPS loop and answers every NTP
packet with a restart kiss or not at all.

What is hard here: the interrupt against the loop; pulses and labels that reach
the clock late, in bursts or not at all; a state machine of five states whose
streaks, anchors and ages are written in many places; lazily evaluated windows
over a clock that wraps; settings copied in one task and committed in another;
answers that come late, twice or not at all to a page the user has left; a
heartbeat that is newer than the time it is compared with.
`PROJECT.json` lists each hazard at its line.

## 2. Plan

| order | module | what it is | state |
| --- | --- | --- | --- |
| 1 | `LocalClockOps` | the methods of LocalClock as operators on a record | done |
| 2 | `LocalClock` | the clock under any caller that keeps the calling convention | done, proved |
| 3 | `NtpReply` | the answer built from a clock | done |
| 4 | `GpsService` | interrupt, receiver, loop; composes 1 and 3, refines 2 | done, proved |
| 5 | `NtpServer` | admission, client table, refusing path | done, proved |
| 6 | `SettingsStore` | commit and save from two tasks, power loss, load | done, proved |
| 7 | `ClockTrace` | recording in task-time, control and download in task-net | done, proved |
| 8 | `WifiNet` | connect, scan and portal sessions against radio and event callback | done, proved |
| 9 | `OtaService` | upload session, its failures, confirmation and roll-back | done, proved |
| 10 | `Encoder` | pins, interrupt, filter and button | done, proved |
| 11 | `StatusLeds` | heartbeats, panic, restart | done, proved in 13 |
| 12 | `DisplayUi` | pages, scans and both queues | done, proved in 13 |
| 13 | `UiTask` | the rounds of task-ui; composes 10 to 12, refines 10 | done, proved |
| 14 | `WifiNet` with an upload | the pause of the link while an image is received | later |

Abstract specifications: `LocalClock` is the one of the clock inside
`GpsService`, `EncSpec` that of the encoder inside `UiTask`; both refinements are
theorems. Left to state: an atomic store that `SettingsStore` with one task
implements, and a session (idle, busy, restarting) that `OtaService` implements.
Left to prove of the safety properties: the two of `GpsService` that are true only
within a fault budget, `ServedTimeIsHonest` and `RelocksInTime` (section 5). `DebugLog` is
not planned: each of its operations is one critical section.

## 3. The modules and the code

**LocalClockOps** — a record `clk` with the fields of the class and one operator
per method. `OnPpsEdge` is split as the method is: a glitch (`RejectEdge`, the
early return), a pulse after a long gap (`RestartStream`), the streak
(`CountMisses`), the ring (`PushEdge`), the walk of UTC (`WalkUtc`) and the final
check of the streak (`LoseSyncIf`). `OnNmeaCommit` is `Bootstrap` or
`CrossCheck` (accept, degrade, fail). `Tick` is the check of stale inputs, the
end of a holdover and the way back to acquisition. Times are milliseconds,
thresholds are constants with the names of `config.h`. `freqPpm_`, the die
temperature and older ring entries are abstracted: they bend an extrapolation by
microseconds per second. The conversions keep what matters of them: `lround`
into 32 bits saturates, the negation of the least `int32_t` is itself, an 8-bit
streak wraps.

**LocalClock** — variables `clk`, `now` (`esp_timer_get_time`), `pulseAt` (the
last pulse taken up) and `committed` (`lastCommittedSecond_` of the caller). Its
actions are the three calls of `GpsService::loop`, in any order, with any
freshness flags, label and settings: what it satisfies does not depend on how the
service schedules them. `Comparable` is the only restriction of a commit: a label
more than 24 days from the local time would not fit the 32-bit residual.

**NtpReply** — `SendNormal`: leap indicator, stratum, reference, dispersion and
time stamps from the clock at receipt and at transmission.

**GpsService** — true time in half seconds: second *k* begins with a pulse at
`k * 1000`, its sentences are complete half a second later. `isr` is what the
interrupt writes, `uart` what the byte budget `GPS_NMEA_MAX_BYTES` has left for
later loops, `sentences` the last ZDA and RMC, `commit` the fields
`lastCommittedSecond_`, `commitMs_`, `haveCommit_`, `lastDrainedPpsCount_`; `pc` is
the point of the loop between `Parse`, `DrainEdge` (once per edge), `Drained`,
`CommitNmeaTime`, `TickClock` and `Serve`. The interrupt and every fault can come
between any two of them. `Outage` / `Restored` take away the pulse, the serial
line, one kind of sentence or the loop (an upload, `ipcShedNtp`), for any
length of time; `Glitch`, a wrong label and a loop half a second late cost one
fault each. A wrong label keeps its group: ZDA and RMC of one second agree.

**NtpServer** — one step per packet: `HandlePacket` (access list, global window,
slot), `RefusePacket` (shed path), `ShortPacket`. `StartLoop` chooses the path
once per call, as `taskTime` does, and reads the settings on the serving path
only. Windows, excess timer and cooldown are updated at the request of their
client and at no other time, with the code's modular and signed differences.

**SettingsStore** — `settings` is `gSettings`, `nvs` the keys that have reached
the flash. A task takes a `Copy`, changes it and `Commit`s it: the whole record
is assigned under the lock, and then the keys are `Put` one by one without it, as
`settingsCommit` calls `save` after `settingsUnlock`. `Crash` comes between any
two keys. `Load` is repair, clamp, CRC and the three keys it may rewrite;
`FactoryReset` clears and saves the defaults. What was asked of the store so far
is kept by `MCSettingsStore`, not by the model.

**ClockTrace** — `trace` holds the ring with the code's indices, `taking` the
sample that `maybeSample` has built outside the lock, `xfer` the chunked reply
that `task-net` is sending, `client` the paging client of `tools/`. Start, stop,
clear and a request can come between the two looks that `maybeSample` takes at
the state. While a reply is being sent or an image received the loop is shed (`Shed`);
an upload leaves the recording under way, so its samples then have a gap.

**OtaService** — `upload` is where the web server is in the form, `ota` the
object with the flags of `gIpc` it publishes, `slots` and `boot` the partitions
and otadata. `UploadEnd` is `Update.end`, which chooses the new partition before
`Verify` has looked at its checksum, as the code does. `Restart` can happen
between any two steps; `BootChoice` is the boot loader's: an image is started
once as new, and gone back from if it was not confirmed. `Poll` confirms.

**WifiNet** — `net` holds `gNetWork` and its companions, `wifi` the members of
`WifiManager`, `evt` the bits of the event callback, `radio` the WiFi library.
Each method is an operator on `Dev`, the four of them together, and gives the set
of outcomes where the library may answer differently. `pc` goes round the body
of `taskNet`: `driveScan`, the requests, `driveScan`, the three parts of
`pollDisconnectAndReconnect`, the switch of `pollNetWork`, the web server. The
radio changes, and events are delivered or lost, between any two of these. The
limits at which a schedule gives up are constants, so that both places where the
code opens the portal without a request are there: the failed boot join
(`FinishConnect`) and the schedule that has given up (`ConsumeGiveUp`).

**Encoder** — `shaft` is where the shaft is, counted in transitions, `seen` where
it was when the interrupt last read the pins, `abState` what it remembers of
that. A transition may be read at once, read as the level before it (a bounce),
or fall into the 250 us in which the interrupt returns at once; `LateInterrupt` is
the bounce that is read afterwards. `noInterrupts` masks only the core it is called on.
With `OneCore` (ESP32-C3) the drain is atomic; without (ESP32-S3, where `task-ui` is
pinned to core 0 and `setup` attaches the interrupt from core 1) `StraddledLoop` has an
interrupt that has read `rotateAccum` before the drain clears it and writes before or
after that, and `again` counts the drained transitions it brings back. `EncLoop` is
`sampleButton` and `drainRawToFilter`, `Consume` the three calls by which the menus take
what there is. Times are what the code asks of them: whether the shaft rests, whether the
last step is recent, past, or so long past that the signed difference has turned
negative, whether the button was held for a click or for long.

**StatusLeds** — `kick` is the age of each heartbeat in looks, `Never` when the
stamp is still 0, `Ahead` when it was written after `loop` had read `millis`, so
that the unsigned difference is huge. `panic` is the age of `panicSinceMs_`. The
tasks hang and recover; an upload and an unconfirmed image keep the LEDs from
judging, as in `tasksStale`.

**DisplayUi** — `ui` holds the page, the list and its cursor, the scan that is
asked for and the blanking; `netReq`, `uiMsg`, `scan` and `job` are the two queues, the
list in `AppIpc` and what `task-net` remembers of the request. One operator per
page handler takes the panel after the input was noted; `HandleInput` is the rest
of `loop`. `TakeUiMessage` and `CheckScan` are `drainUiMessages`, with the generation of
an answer compared as the code does, and the fall-back on `scanReady` that has
none. Which item a click in the menu finds is open: any of those the user goes
for.

**UiTask** — `pc` goes round `taskUi`: sleep, watch (LEDs), encode, drain, input. An
upload leaves out all but the first two. What other actors do within a round is
placed where it matters: the user while the task sleeps, an interrupt of the other
core amid the sampling (`SampleAmidTurn`), a heartbeat between the
reading of `millis` and the look at it, `task-net` while the queue is drained and the
input handled. `budget` is how often each event may still happen.

## 4. What is checked

Thresholds in the configurations are those of `config.h` in milliseconds, except
those named in the table, which are scaled so that the interesting case fits the
explored time.

| run | question | bounds |
| --- | --- | --- |
| `local_clock` | what the clock guarantees any caller | 4 s in steps of 500, 1000 and 1050 ms, three labels, pulse counts that jump, relock after 2, miss limit 3 |
| `gps_faults` | is what is served honest, does the right pulse meet the right label, is the lock regained | any two faults (outages of pulse, line or ZDA, glitch, wrong label, late loop) or one outage of the loop, in 14 s; Refuse and Hold of 2 s; ring of 3 |
| `gps_refinement` | is `LocalClock` the right abstraction | all faults, an outage of RMC too, settings changed on the way, 6 s, relock after 2 |
| `ntp_admission` | who is answered, warned, denied, dropped; which clients the table keeps | 3 clients (symmetric) for 2 slots, no list or a list of one, uploads, 14 ms in steps of 2 across the wrap of millis, warning, denial and cooldown scaled to 4, 6 and 8 ms |
| `settings_single` | what survives with one task that saves, is a torn record noticed | 2 commits, 2 power failures, four kinds of flash |
| `trace_ring` | is the ring in order, has each second one or two samples, is a stop final, a fetch whole | ring of 3, chunks and pages of 2, loops 0.4 or 1 s apart in 4.2 s, 2 recordings or one and an upload, pulses that come and go, memory or none |
| `ota_update` | do session and flags agree, is what starts next whole | six kinds of image, two kinds of old one, 3 buffers, restarts anywhere |
| `wifi_join` | does the link come back, is it noticed, who opens the portal | one network, 1 request (connect, portal, web scan), back-off of 0, 1, 2 ticks, all times 1 tick, give-up after 1 attempt unless retried for ever, which is on |
| `wifi_sessions` | is a join polled from its beginning, what may take its session | 2 requests of scan, web scan, static address, DHCP, portal; back-off of 0, 1 ticks, all times 1 tick, limits as in `wifi_join` |
| `ui_task` | of what is a step made, does the cursor stay in the list, do dialogs end, is a stuck task restarted and only then | interrupt on the other core; detent of 2, accumulators of 4, queues of 2, lists of up to 2, `scanSeq` wraps at 3, stale after 1 look, restart after 2; one of seven plays: turning to and fro (six transitions, weeks between), the menu, a scan and its list, lost answers and a dark panel, an upload, two hang-ups with one heartbeat ahead |
| `gps_pps_lost`, `settings_race` | disagreements with the documentation (section 6) | as small as the case allows |

`RelocksInTime` is the liveness of the clock in bounded form: a clock left alone
for the holdover, the relock count and three seconds *is* locked on the true
second, from whatever state the faults have left it in. No fairness is assumed
there: the schedule of the loop is explicit, since time passes only when the
loop has run or a `delay` fault is spent. The bound is tight: one second less is
violated.

Fairness is assumed in three modules. `OtaService`: the web server goes on with a
request (it gives up on a silent peer by itself), `task-net` polls, time passes.
`WifiNet`: `task-net` goes round (the task watchdog restarts the device if it
does not), time passes, a scan that the library runs ends, and a join that is
tried again and again works in the end. The last is strong fairness, since each
failure takes the attempt away; it is what "retry for ever" relies on, and without
it no firmware could promise a link. That a scan *succeeds* is not assumed. `UiTask`:
`task-ui` goes round (a hardware watchdog bites if it does not) and the time of a
pending scan passes. Nothing is assumed of the user, of `task-net` or of the
queues: `ScanDialogEnds` holds when no answer ever comes, `StuckTaskRestarts` when
the other task never recovers.

`RestartIsDeserved` counts the looks that found a task late in earnest and allows
one less than the panic period for each heartbeat that a look found ahead (one in
the run): a single such look cannot restart the device, nor can a panic that was
over, an upload or a new image add to one. `ui_task` has no deadlock check because
the device restarts in it.

Why the bounds are enough: a counterexample needs a lock, the faults, the
holdover and the way back. `gps_faults` is as long as these in sequence: under Hold the
first lock comes at 4.5 s and the way back is 8 s, so that in its 14 s a lock that is
lost within 1.5 s of being had is judged too, and under Refuse, whose way back is
6 s, one that is lost within 3.5 s. The thresholds that matter compare with each other, not with their size: the labels
differ by whole seconds, the gates by a few milliseconds, and the time steps fall
on both sides of each gate. The real ring of 16 edges only makes overflow slower.

Limits. The oscillator does not drift in the models, so a residual of a locked
clock is a multiple of a second and the branch that slews by a few milliseconds
is reached in `local_clock` only. In `gps_faults` RMC does not fail alone (it does in
`gps_refinement`), and an outage of the loop comes alone: with another fault during the same acquisition (a late loop, a lost kind of
sentence, a change of policy) every pulse can be labelled with the second
before, consistently, and the clock locks one second off; nothing in the code can
tell. `Millis` is odd in the NTP runs, since 0 means
"not set" in the slots: the millisecond in 49 days at which a window or a denial
starts at 0 is left out, and so is an idle slot taken up after exactly 2^32 ms.

In `ntp_admission` the table compares the raw `lastSeen` of its slots, so just after
a wrap the client seen last is the one that is evicted; `TableHoldsLatest` speaks of
clients seen on the same side of a wrap. An eviction ends a denial, and
`DenyIsWarnedAndSilent` says so.

Limits of the other modules. `SettingsStore`: six fields stand for some twenty;
the latch that skips a second reset in one power cycle is left out. `ClockTrace`:
`task-net` serves one request at most while a sample is in hand, which
takes microseconds. `OtaService`: one file per form; the image header is checked
with two outcomes; the boot loader is taken to keep a new image unconfirmed until
`poll` confirms it, although an Arduino core may confirm it before `setup` unless
`verifyRollbackLater` is overridden. `WifiNet`: times are ticks, not
milliseconds, since only their order matters; addresses are left out, `arec` is
on, the settings lock is always had, and an upload does not pause the loop.
`RetriesForEver` is checked without scans for the display: with the station down,
such a scan that keeps failing is retried within one call of `driveScan` and keeps
the reconnection out (section 6). `JoinIsKept` says how a join may lose its session,
since that it never does is not true (section 6). `Encoder`: an interrupt straddles a
drain at most once, since the drain takes less than the 250 us between two of them;
the code keeps no other lock between them. On two cores steps may be seen that nobody
turned (section 6), and `StepsAreTraced` says of what they are made. `ui_task` has the
interrupt on the other core; its behaviours without a straddled drain are those of one
core, where `again` stays 0 and `StepsAreTraced` is `StepsAreEarned`.

## 5. What is proved

Each module of proofs stands beside the module it is about and states its
assumptions on the constants by name; TLC evaluates them in every run. All of
them but the ones discussed below are types and ranges.

**The clock** (`LocalClockProofs`, with the lemmas on the methods in
`LocalClockOpsProofs`) proves, from the named assumptions on the constants
(`ThresholdsAssumption`: two different seconds cannot both agree with one edge;
`CountsAssumption`: relock and miss counts and the ring are at least 2;
`IntervalsAssumption`, `HoldoverAssumption`, `CallerAssumption`: types), that
`Inductive` is an invariant of `LocalClock!Spec`, and from it the properties
listed in `PROJECT.json`, for every choice of thresholds, labels, delivery lags
and bounds.

`TypeOK`, `HoldoverAgeKept` and most of `ServingHasPhase` are inductive with little
help: an anchor is never later than the last edge, the last edge never later than
the last pulse taken up, and a stable stream has two edges. That a locked clock
is anchored at the last edge is not. A first commit that fails can leave the
clock in Holdover or Degraded, anchored at a pulse *before* the last one, and a
commit that agrees does not move such an anchor; what keeps it from locking there
is that its streak cannot reach two before the next pulse, because two different
labels never agree with the same edge. That is `OffEdgeUnearned`, and the reason why
the assumption on `CLK_RESIDUAL_RELOCK_MS` is needed. One lemma per part of a method
says what it returns, then one per method, then one step per action; the lemmas
are in a module of their own because the service needs them too.

`ServedTimeWalks` speaks of `NowUtc`, the time that is served: between two commits a
pulse moves it by no more than the interval gate, and a tick, a change of policy or the
passing of time not at all. It leaves out a clock that serves from an anchor behind its
last edge, which is what finding 1 is about: its next pulse takes a second off.

`LockIsAlwaysEarned` is about the history that `MCLocalClock` keeps: a clock that locks
has had at least `CLK_RELOCK_COUNT` agreeing commits in a row, and each two of them lie on
one straight line, up to a residual for each commit and an interval error for each
pulse between them. `StreakInductive` says it of every streak, however short:
`StreakOnLine` bounds by `Slack` how far the line through the anchor misses each commit
of the streak. A pulse tilts that line by one interval error (`MissesAfterPulse`), an
agreeing commit shifts it by its residual (`MissesAfterCommit`), and every other step
keeps the line or ends the streak (`OnPpsEdgeStreak`, `OnNmeaCommitStreak`, `TickStreak`).
The property leaves out the streaks marked `adrift`: a first label that fails takes an
acquiring clock into service with an anchor behind the last edge (finding 1), labels
may agree with it there, and at the next pulse the anchor jumps to another line.

**The service implements the clock** (`GpsServiceProofs`). `ServiceImplementsClock`
says that every behaviour of `GpsService` is one of `LocalClock`, with `PulseGaps` and
`Labels` instantiated by what the explored time allows: whatever the receiver, the
interrupt and the scheduler do, `onPpsEdge` is called with a later edge and a greater
count than before, `onNmeaCommit` with a label that fits the residual, and time
passes only between calls. With it the theorems about the clock are theorems about
the program. The step needs `ServiceInductive`: the ring is an unbroken run of
counts that ends at the newest edge and begins after what was drained
(`RingInOrder`, which is also `PulsesAgree`), pulses are at least a step of time
apart so that time bounds their count (`PulsesCounted`), and the anchor is never
further ahead than the pulses drained since its label (`ClockFollows`); the last is
what keeps a label comparable. `RangeAssumption` says that the explored time is short
against the 24 days of a 32-bit residual, as `Comparable` does for `LocalClock`.

**The client table** (`NtpServerProofs`). `TableHoldsLatestAlways`: a client outside the
table was not seen after one inside it, for any number of clients and slots. The
property speaks of true times, which the server does not keep; the invariant adds
that each slot has the millis of the last sight of its client (`SlotsRemember`), so
that on one side of a wrap the stalest slot by `lastSeen` is the stalest by true time,
and that no client has two slots. `ServerTypeCorrect` gives the widths of the other
fields.

**The rates** (`NtpServerProofs`). `RatesBoundedAlways`, `RefusalIsAlwaysDeserved` and
`DenyIsAlwaysWarnedAndSilent` (silence until the cooldown is over, unless the slot of the
client is given to another) speak of what a client could have written down (the
logs of `MCNtpServer`), while the server keeps a few numbers modulo 2^32, and judges
them only when a packet comes. `RateInductive` connects the two:

- `SlotsFair`: for each client in the table there is a time at which its window began;
  the count is what it was answered and refused since, the window before it left at
  most its share of answers, and the times of excess, warning and denial in the slot
  are those of the log, modulo 2^32.
- `GlobalFair`: the same for the window of all clients together; `Strangers`: a client
  without a slot has been answered nothing that still counts.
- `LogOK`, `PastUpToNow`, `ServerTypes`: types, and no entry of a log is later than now.

The three theorems assume `RegularTraffic`, a condition on behaviours and not on the
constants: a packet that is counted comes neither at the one millisecond in 49 days
where 0 stands for "not set" nor a cooldown before it, its client has been silent
for less than 2^31 ms (24.8 days) if it is still in the table, and so have not all
clients together. Without it the properties are false: a client that kept its slot and
asks again after 25 days is compared with times that seem to lie ahead, and an old
denial drops it once more (section 6). Every behaviour of the run
`ntp_admission` is regular: its instants are odd, its cooldown is even, and it explores
14 ms across the wrap of millis. That a `windowCount` stays far below 2^16 is part of
`RatesBounded`.

**The settings** (`SettingsStoreProofs`). A save is eight writes, and a power failure
may come before each of them, so every invariant speaks of the flash and of the
writes still to come.

- `SettingsUsable`: memory holds a policy and a holdover the program can use, whatever
  was in flash. Its inductive form (`StoreTypes`) adds the copies of the tasks and the
  type of every pending write.
- `LoadSettlesAlways`: loads cut short repair to the same record each time, and one
  complete load leaves nothing to rewrite. `Settling`: the pending refresh writes only
  keys whose values the load has already used, and ends in a record that
  `NeedsRewrite` accepts.
- `RestartKeepsSettingsAlways`: what is in memory is what a restart loads. `Stored`:
  while a task saves, every key is there or still to be written (`Towards`).
- `LoadedWasSavedAlways`: each loaded field was saved, and a record whose CRC is
  accepted was committed or used as a whole. `Lasting` for the fields; `Accepted` for
  the CRC, which is the last key of a save, so that a torn record still has the CRC of
  an older one. In the model two records have one CRC only if they are equal in what it
  covers.

The last two are proved under two hypotheses, which are not assumptions on the
constants of the module. `OneTask`: for two tasks they are false, which is finding 2 of
section 6. `NoNullNetwork`: no network called "null" is entered. `loadSettings` takes
that name for a missing one; the web form drops it, the join page of the panel
does not (section 6). Both hold in `settings_single`; the first two theorems
need neither.

**The trace** (`ClockTraceProofs`). The ring holds the newest samples of one recording
in order, one or two of each second (`TraceSeconds`: no three of its samples within a
second, none more than a second and a loop after the one before it, but for an upload
that kept the loop from looking), none is added to a stopped one, and a download that
nobody disturbs is whole (`TraceFetch`: rows got, rows in hand and rows
still owed are together the recording; `Undisturbed`). `InHand` is what makes it
inductive: a sample in hand is of the present, and `task-time` looks once for each
step of time, so what the ring holds is older.

**The WiFi sessions** (`TaskNetProofs`). `WifiTypes`: besides the ranges, what `task-net`
believes is so: `setupAp` is true exactly when the access point is up, a scan session
has somebody who waits for it, a probe a session. `PortalAsked`: only a request opens
the portal, as long as a lost link is retried for ever (`WIFI_LINK_LOSS_RETRY_FOREVER`,
its hypothesis) and whatever the limits of the schedule are; `Patient` is why: every
schedule is for a lost link, so that none gives up, and a boot join has a network to
go on with. `JoinKept`: a join is polled from its beginning, and loses its session only
to a scan that was running already (`Held`), which only `GET /scan` can have begun, and
only when the link was up (`Polled`). The proof goes method by method, as the code calls them: `Keeps(d, x)` says
what a method of `WifiManager` or a handler of `main.cpp` may make of the device `d`. It
is transitive, so that a handler that calls three methods keeps what they keep, and
one lemma per method, with each answer that the library may give, is enough for all
of its callers. The invariant is `Steady`. The types alone are not inductive: that a
reconnection is armed only for a network that is known needs that nobody has joined,
or is about to join, without knowing it (`Known`), also when an event brings a link
that was not asked for.

**The upload** (`TaskNetProofs`). `OtaSession`: what is published agrees with the
session. `OtaBoot`: but for the time of the verification the partition chosen for the
next start is whole, and the boot loader finds a whole image always; a failed upload
leaves the running partition chosen; only a good image is confirmed. That an image on
probation has another to go back to is not said and not so: a second upload erases
it (section 6). `Chosen` says where in a request the
other partition may be the one to boot (`Update.end` chooses it before it is
verified), and `OnProbation` that an image which crashes has not run for long enough
to be confirmed. `ImagesAssumption` lists the kinds of images the model knows.

**The task of the display** (`UiTaskProofs`). From `EncoderAssumption` (a detent has a
transition, the accumulators hold one): `StepsTraced`, a step that the menus see is
made of transitions to its side that were turned or that came back after a drain,
and none is to a side never turned to; `StepsEarned`, with the interrupt on the core of
`task-ui` (`OneCore`, its hypothesis) all of them were turned. Steps and turns alone are
not inductive. `Budget` adds, for each side, what is on its way to it: in the filter,
in the counter of the interrupt, and between the shaft and the last reading of its
pins. An interrupt moves at most one transition from the last of these to the
counter (`StepCounts`: two readings at most two transitions apart are counted with their
sign or not at all), the drain moves the counter to the filter or clears the filter,
a step takes a whole detent, and what is clamped or dropped is lost. A straddled
drain leaves in the counter what it has moved, and `again` grows by as much. `Sides`
keeps filter and counter on the side that was turned to while the other was not;
`Alone` says that `again` stays 0 on one core. `InSync` says that the remembered levels are
those of the last reading; a `NextState` that keeps the old levels breaks it.
`UiTaskTurnsEncoder` says that every step of `UiTask` is a step or a stutter of
`Encoder`, which carries this over to the whole task (`UiStepsTraced`, `UiStepsEarned`).

`CursorStaysInList`: one lemma per page says that it leaves a good panel (`Good`:
typed, and the cursor in the list) a good one; the inductive invariant adds only the
range of the scan's list, which an answer brings in. `UiTypes` puts encoder, panel,
queues and heartbeats together.

`UiRestartIsDeserved`: the watch restarts the device only after a whole panic period of
looks that found a task late, less the one that a heartbeat newer than `millis` may
spoil. The age of a panic is not the number of late looks, since a spoilt look finds a
fresh task stale and a panic keeps its age through it. `LooksOK` counts both: the
late looks and the races used up are together at least the age. A play has one such
race at most (`RacesAssumption`, a bound of the exploration).

**Only model-checked.**

- `ServedTimeIsHonest` and `RelocksInTime`, which are true within the fault budget of
  their run and false beyond it (section 4): an invariant would have to spell out
  which faults have happened when. What they rest on is proved: the anchor of a served
  time, its walk, its lock and the counts that go with its labels.
- Liveness, which is out of the prover's reach, as is what a recursive definition
  computes for every input.

## 6. Where code and documentation disagree

Two runs end in a counterexample, and are findings in `PROJECT.json`:

1. `gps_pps_lost`: PPS stops, NMEA goes on, Hold policy. After the holdover has
   run out the clock bootstraps on the old edge; the next label, a second later
   with no new pulse, fails and `applyFail` enters Holdover from Acquiring: stratum
   1 with an error of seconds and a dispersion of about one. README.md:17
   promises an honest stratum 1.
2. `settings_race`: two commits are saved without the lock; interleaved, they
   leave in flash what neither task had in memory
   (docs/local_clock_gps_check.md:234: kept over a restart).

The following were met while modelling. The models contain the behaviour, but no
run is kept for it, since each says something narrower than the two above.

- One wrong label takes an acquiring clock into service (local_clock.cpp:250);
  docs/local_clock_gps_check.md:115 and 129 say it answers stratum 16 until locked.
- A denied client that is evicted from the table is answered within its cooldown
  (README.md:124), two bursts with silence between them count as one sustained
  excess (config.h:150, ntp_server.cpp:114), and 2^31 ms after its cooldown a silent
  client is dropped again.
- A commit of a whole, older copy puts back what the other task changed (the
  "single write path" of `app_ipc.h`), and a first save that is torn has no CRC
  yet and is loaded as it is (settings.cpp:9).
- A pulse counted just after the loop of the same millisecond gets two samples
  (clock_trace.cpp:216).
- An upload begun while the running image is unconfirmed erases the image a
  restart would go back to (config.h:14, main.cpp:642).
- A web scan started on a link that has just come up, before the join is polled,
  is adopted for the display (main.cpp:197), and nobody polls the join any more,
  although "Connecting owns DISC via pollConnect" (main.cpp:402): `pollDisconnectAndReconnect`
  has to find the link up, and a loss of it before that is ignored.
- On the ESP32-S3 the interrupt of the encoder may straddle the drain, since
  `noInterrupts` (encoder.cpp:67) masks only the core of `task-ui`: transitions that were drained
  come back and count again, so that less than a detent can make a step. config.h:106
  has one detent for a step.
- With the station down, a display scan that keeps failing keeps reconnection out
  (docs/wifi_event_fsm.md:57: scan and reconnection run side by side).
- A link that `pollAutoReconnect` finds up, a moment after the check that closes
  the portal, leaves it open (main.cpp:276); the portal opened during the boot join
  is joined by the reconnection that this join leaves armed
  (docs/wifi_event_fsm.md:85).
- A network called "null" (or "undefined") that is joined at the panel is stored
  (main.cpp:301) and dropped by the next load, which takes the name for a damaged
  record (settings.cpp:58); the web form refuses it (web_portal.cpp:1447).
- A network entered during a join is stored but refused, and the old one is
  retried for ever (wifi_manager.h:81).
- One long press acts twice: it is pending while the button is held and again when
  it is let go (encoder.cpp:105), so it leads from a page through the menu to Home
  (README.md:104 has it go back one page), and on a dark panel it wakes it and then
  acts, although display_ui.cpp:225 says that the first input only wakes.
- Leaving the page of networks does not take back the scan: its answer has the
  current `scanSeq_` and brings the user back to the list from wherever he is
  (app_ipc.h:42), and the fall-back on `scanReady` takes a list of any generation.
- `task-ui` refreshes its own heartbeat just before it looks, so a stuck `task-ui` is
  never noticed there (app_ipc.h:64: panics if any goes stale). A task that never
  ran at all, and one that hangs in an upload or before a new image is confirmed,
  is not restarted by the LEDs either. A heartbeat newer than `now` shows a panic for
  one look (status_leds.cpp:129).
- 25 to 50 days after the last step a slow one is swallowed (encoder.cpp:119).
- Just after a wrap of `millis` the client seen last is evicted first
  (ntp_server.cpp:73).
- A form of settings is saved in several commits, and a refusal in the middle is
  shown as an error although the parts before it are stored (web_portal.cpp:1279);
  this handler is the one thing of the list that no model contains.

## 7. What is not modelled

See the components of `PROJECT.json`. Left out for good: drawing and the patterns of
the LEDs, the HTTP and JSON formats, the receiver's configuration sentences and
satellite list, the RMT capture path and the external RTC (both compiled out).
`DebugLog` is a byte ring whose operations are critical sections. The hardware
watchdog of the tasks (main.cpp:490, 585, 662) belongs to the platform; it is what the
fairness of the tasks stands for. The restart for a low heap (main.cpp:642) would only
add a restart at any time to `task-net`. In `DisplayUi` the values that the pages edit
are left out, since `SettingsStore` has what a copy and its commit do, and the menu
cursor, since a click may find any item. The rest is in the plan.
