# Verification of the GPS-disciplined NTP server

The firmware runs on an ESP32-S3. It reads a GPS module over a UART and its
pulse-per-second (PPS) pin, disciplines a software clock with them, serves that
clock over NTP, and on the side keeps an RTC chip, a small panel, an SD card
and a timezone up to date. This directory holds TLA+ models of the firmware,
TLC configurations that check them on small instances, and TLAPS proofs of the
results that should hold for every instance. Source paths below are relative
to the repository's `src/` directory (`ntp/mod.rs` is `src/ntp/mod.rs`).

`PROJECT.json` is the machine-readable side of this document: components, runs,
mutants, the map from definitions to source lines, findings, hazards, theorems.

## 1. Inventory

| Part | State | Operations | Status |
|---|---|---|---|
| Clock discipline, `ntp/mod.rs` `NtpServer` | anchor (UTC second at a timer value), PPS lock, servo (frequency, jitter), last sentence, last accepted edge, pending step, counters | `seed_utc_seconds`, `update_gps_utc_seconds`, `observe_pps_pulse`, `set_leap_indicator`, `discipline_params`, `current_utc_unix_seconds` | modelled, proved |
| Main loop, `app.rs` `run` | due times of RTC fallback and write-back, self-check flags | one pass: GPS poll, timezone, NTP poll, RTC fallback, PPS event, delay, self-checks | modelled, proved |
| PPS capture, `pps.rs` | seqlock (`seq`, `edge_us`; the pulse count is `seq / 2`), poll cursor, interrupt enable | `record_edge` (interrupt), `snapshot`, `poll`, `reenable_interrupt` | modelled, proved |
| Packet service, `NtpServer::poll` | socket, counters, processing-delay sample | receive, ACL, dispatch on mode, limit, answer | modelled, proved; contents of answers left out |
| Rate limiter, `ntp/protection.rs` | table of (address, last accepted time) | `check` | modelled, proved |
| ACL, `ntp/protection.rs`, `ntp/cidr_parse.rs` | a list of prefixes, put in force at boot | `apply_boot_acl`, `from_config`, `add_ipv4_cidr`, `allows`, `parse_ipv4_cidr` | modelled, proved |
| GPS receiver, `gps.rs` | line buffer, snapshot (fix, UTC second, offset) | `poll`, `discard_backlog`, checksum, sentence parsing | modelled; bound of the line buffer proved |
| RTC, `rtc.rs` | chip registers | read, write (stop, write, restart), codec, boot | modelled, proved |
| SD worker and watchdog, `storage.rs` | job queue, call deadline and depth, usage cell | `call`, `arm`/`drop` of the deadline, `worker_main`, `monitor_main`, mount, free-space requests | modelled, proved |
| SD log mirror, `sdlog.rs` | bounded queue of lines, drop count, log files | enqueue, flush, rotate, HTTP list/read/delete | modelled, proved; listing left out |
| Button and panel, `ui_task.rs` | page, render request, blanking, heartbeat, button line, RTC mailbox | button task, panel task, sensor pass | modelled, proved |
| Timezone, `timezone.rs` | pending flag, zone in force, time of the last lookup, copies in NVS and on the card | request, worker, result, persistence, boot | modelled, proved |
| Wi-Fi, `wifi.rs` | station state in the driver | connect, reconnect on a disconnect event | not modelled |
| Pins and bring-up, `pins.rs`, `board.rs`, `main.rs` | claimed pins | claim, release, ordered initialisation | what the boot hands to clock, timezone and RTC modelled; rest left out |
| Display, battery, I2C bus, logging | none that another part reads | drawing, scaling, driver access, formatting | not modelled: output only |

### How the parts interact

- The edge interrupt and the main loop share the PPS monitor without a lock: a
  sequence number lets the reader detect that the handler was in between.
  ESP-IDF disables the interrupt as it fires; the loop enables it again after it
  has handled the pulse.
- The main loop owns the NTP server, the GPS driver and the PPS cursor and calls
  them one after another, so a call that blocks delays all the others.
- The panel task owns the I2C bus. The loop hands it RTC times through a
  one-place mailbox and reads the RTC through a shared cell.
- Every SD access goes through `storage::call`, which waits for the `sd_io`
  thread; a watchdog thread restarts the chip when a call takes too long.
- The timezone worker talks to the loop over channels, the button and panel
  tasks over atomics.

### What is hard

Pairing a pulse with its second when sentences are late, lost or stale; counting
seconds over pulses that are missed, displaced or rejected; interrupts in the
middle of a read; an interrupt that only comes back if a branch is reached;
arithmetic at the edges of its widths; a table that forgets under load; error
paths that leave work behind; calls that block the loop; remains of damaged
lines that swallow later ones; a press that comes in the middle of a draw; a
stopped chip left behind by a failed transfer; a restart between the two copies
of a value. The 40 `hazards` of
`PROJECT.json` give each with its line, the properties that cover it and, where
they cover a part, what they leave out.

### What makes each part correct

- *Discipline*: stratum 1 only for an anchor set by an edge; a locked clock
  names the right second; the advertised dispersion covers the error, but for the
  displacement of an edge and ten seconds of a wrong frequency estimate; holdover
  ends on time; served time is not before the reference time; recovery after any
  disturbance.
- *PPS capture*: a read returns one capture, never a mix; every capture is
  reported; the interrupt comes back.
- *Limiter*: spacing for everybody the table has room for; the table forgets the
  oldest only.
- *Packet service*: each datagram is accounted for once, none starves, the
  limiter changes by whole calls only.
- *SD worker*: no caller waits for ever; the watchdog measures the call that is
  running; no restart during a healthy one.
- *SD log*: a line is written once, or counted as dropped; a listing or a
  download refers to one file.
- *ACL*: a datagram is blocked exactly if its source is outside the configured
  prefix, also at /0 and /32, and a blocked one leaves no trace.
- *GPS*: what noise leaves behind is gone with the next newline, and a lost fix
  is given up.
- *RTC*: what is written reads back; the chip stands still only for a reason,
  and the next good write sets it going.
- *Panel*: the page selected last is drawn, and in time; one press is one action;
  the watchdog restarts a hung panel, no other, and not while the boot pin is
  low; a queued RTC time is written while it is fresh.
- *Timezone*: at most one lookup is out, it is tried again until a provider
  answers, and the zone in force is the one the next boot finds.

## 2. Modules

| Module | Models | Uses |
|---|---|---|
| `NtpDiscipline` | the discipline, one operator per method, and `DisciplineSpec`, in which a caller may make any call at any time | |
| `TimeService` | GPS module, interrupt, UART, RTC and the steps of the main loop around the discipline | `NtpDiscipline` |
| `TimeService_proofs` | theorems of the discipline, loop invariant, refinement of `DisciplineSpec`, right second, recovery, advertised error, types | `TimeService` |
| `MCTimeService` | instance for the four `Time*` configurations | `TimeService` |
| `PulseRegister` | abstract: a register written and read in one step | |
| `PpsMonitor` | handler, snapshot, poll and re-enable, one shared access per step | `PulseRegister` (refinement) |
| `PpsMonitor_proofs` | seqlock invariant, refinement, interrupt invariants | `PpsMonitor` |
| `MCPpsMonitor` | instance for the `Pps` configuration | `PpsMonitor` |
| `RateLimiter` | `RateLimiter::check` | |
| `Acl` | the allowlist and its parser, with a reference definition | |
| `NtpPoll` | `NtpServer::poll` | `RateLimiter`, `Acl` |
| `NtpPoll_proofs` | table invariant, spacing, accounting, refinement of `LimiterSpec`, access list | `NtpPoll` |
| `MCNtpPoll` | instance for the `NtpPoll` configuration | `NtpPoll` |
| `SdService` | abstract: calls served one at a time, each ends with its result or a restart | |
| `SdGuard` | mount, callers, worker, deadline and watchdog | `SdService` (refinement) |
| `SdGuard_proofs` | deadline invariant, refinement | `SdGuard` |
| `SdLog` | queue, flush, rotation, downloads and deletes | `SdService` |
| `SdLog_proofs` | counts of lines and drops, order of the lines | `SdLog` |
| `UiPanel` | button task, panel task, button line and watchdog | |
| `UiPanel_proofs` | frames, laps, lateness, presses and the queued RTC time | `UiPanel` |
| `RtcChip` | the chip, its transfers, `sample_sensors` and boot | |
| `RtcChip_proofs` | codec, stopped chip | `RtcChip` |
| `GpsUart` | chunks, line buffer, sentences and snapshot | |
| `TimezoneLookup` | lookup, worker, persistence and restart, on top of the fixes of `GpsUart` | `GpsUart` |
| `TimezoneLookup_proofs` | one lookup, the zone that is stored, the line buffer, a lost fix, types | `TimezoneLookup` |

Operators named "Mutant" in their comment are plausible bugs of the code. No
specification uses them; each belongs to a property that it must break.

### NtpDiscipline

The variables have the names of the fields. Time is the monotonic timer in ticks
of `1/SEC` second (the code: `SEC = 1000000`; the runs: one tick per
millisecond, as TLC's integers are 32 bits wide). `ObserveFirst` and
`ObserveDelta` are the two arms of `observe_pps_pulse`; the latter is the
disjunction of its outcomes: interval out of range, first lock, outlier,
accepted. `SecondOfEdge` is the integer-second accounting with its two-pulse
confirmation. Frequency, jitter and corrected time are `f64` in the code and
rounded down here; rounding is at most one tick or unit per step, far below the
half second at which the second count would change. `pps_offset_us`, the
precision field and the processing delay are reported and never read back, so
they are left out.

### TimeService

`pc` is the next call of a pass of `app::run`. `Boot` is `init_ntp_server` and
the dropping of the UART backlog. `GpsPoll` handles all lines of the UART at
once, as `GpsUart::poll` does within one call; the snapshot takes the last line,
the discipline the last one with a valid time. `RtcFallback`, `PpsPulse` and
`SelfCheck` are whole branches of the loop, each with the calls at its end (the
RTC write-back, then the re-enable of the interrupt).

The environment advances time from one instant of `OFFSETS` to the next and
decides what happens there. An on-time edge, a good sentence and a loop that runs
through are free; a missing, stray or displaced edge, a lost or void sentence, a
silence of the module (`Outage`), a failing re-enable and a stall before one of
the loop's calls each cost a fault. `calm` counts whole seconds since the last
fault. In an outage the loop keeps running and finds only the RTC fallback to
do, so it is one step.

The RTC's reading is the true second plus a constant error. The loop's 1 ms
delay is shorter than the distance of two instants and merges with the sleep.

### PpsMonitor

Every load and store of the shared words is a step of the interrupt (`Isr...`)
or of the loop, and between any two of them the other side may run. On the chip
a handler that started on the loop's core ends before the loop continues; the
model does not rely on it, so the result also covers a handler on the other
core. With `ONE_SHOT = TRUE` an edge always disables the interrupt, as ESP-IDF
does; with `ONE_SHOT = FALSE`, the setting of the run, it may or may not, which
has all the behaviours of the chip and harder ones for the seqlock. Only
`reenable_interrupt` enables it again, and may fail.
The accesses are taken to be sequentially consistent; the acquire and release
orderings and the fence in `snapshot` are there to rule out the reorderings that
would matter. The 32-bit sequence number
would need 2^31 pulses within one read to repeat, and does not wrap here.

### RateLimiter, Acl and NtpPoll

The limiter's table is a function from slots to entries; `CheckAccepted` and
`CheckLimited` are the outcomes of `check`. `accepted_at` is auxiliary: when each
client was last accepted, whether the table still knows it or not.

`Acl` is a set of operators without state: an address and a mask are four octets,
`And` works octet by octet, and a shift by the width of a word is one by zero, as
the code compiled without overflow checks does it. A prefix is what its text says,
numbers and how many of them; splitting the text is left out. `Listed` is the
reference definition, written without masks: the address agrees with the network
in each of the first bits, or is private where no prefix is configured.

In `NtpPoll` the prefix of the build (`cidr`) is a variable that no step changes,
so that one run covers several builds. The list in force (`acl`) lets everything
in when the socket is bound and becomes the configured one by `ApplyBootAcl`;
`poll` comes after it, datagrams may come before. `AclExact` compares what `poll`
does to each datagram it takes, by the list in force, with `Listed` of the prefix
of the build.

A datagram is its source and what `poll` tells apart of it: time request,
control request, empty, and everything that is discarded after the ACL. Sources
are addresses. A failing send or receive ends the poll with the rest still in the socket. Auxiliary
counters account for the datagrams no counter of the code counts (`discarded`,
`failed`).

### SdGuard

`SdDeadline` keeps two words, the start time of a call and a depth counter;
`arm` and `drop` change them in two steps each (`ArmCount`, `ArmStamp`,
`DropCount`, `DropClear`), and the watchdog may read between them. `stage` is
where each of the two threads that hold deadlines stands: the mount's own thread
and `sd_io`. A nested `call` on the worker runs inline and arms a second time; no
present job makes one, but the code provides for it. As in the code the nested
`arm` overwrites the start time, so the outer call is measured from there.

A tick is one period of the watchdog. `Hang` is a transfer that never ends; the
thread then has no step. `WdRestart` is `esp_restart`, which brings back the
initial state, mount and all. If `start_guard` fails the card is not used
(`boot = "off"`). What a job does on the card is left to its user.

### SdLog

`SdLog` extends `SdService`, so its card accesses rest on what `SdGuard` is shown
to implement. Each file operation of `flush_to_card` is a step: lines can be
logged, an operation can fail and the chip can restart between any two. A failing
operation drops the batch, as `?` does there. After a restart any prefix of the
lines written since the file was opened is on the card.

A line is its number in the order of logging and counts one byte; a file is the
sequence of its lines, or `NONE`. The card is mounted and ready: otherwise the
writer does not call. The HTTP task serves one request at a time, each `call` of
`serve_file` being a job of its own, so a flush may come between two chunks. The
listing, the HTML and the decoding of form values are left out.

### UiPanel

A step is one access of a task to what the other can change at that moment: the
button task reads the edge count, then the level with what follows from it, then
posts the render request, then blanks, asks for a redraw and checks the
heartbeat; the panel task samples the request at the top of its lap, then the
page, draws, checks both again, and decides on the sensors. Instants are only
ever subtracted from the present, so each is an age that stops at the limit it is
compared with. `render_req`, its sample and `last_drawn` are only compared with
each other: `stale` and `moved` are the two comparisons.

The finger presses and releases at any time and bounces; a USB charger may reset
the IO mux, which holds the line low until `restore_button_input`. `DrawHangs` is
an SPI wait that never ends. A tick comes only when the button task, which
outranks all but the main loop, has lapped, and when a lap of the panel that does
not hang is shorter than `LAP_MAX`. GPIO calls are taken not to fail and the
atomics to be sequentially consistent. A press between the test of the pin and
`esp_restart` a moment later is left out.

### RtcChip

A transfer is a step; one that reports an error may have reached the chip in
whole, not at all or, for the time registers, in part. The chip keeps its
registers, the STOP bit among them, over a restart of the program at any step.
A time is the number of ticks it is behind the true one, `Torn` after a partial
write, or `Unset` with the oscillator flag. `BootWith` is `RtcDevice::init`; it
clears the control registers and so sets a stopped chip going, with the time it
stopped at. `cut` is auxiliary: a failed transfer or a restart is the reason for
the STOP bit. The codec is a pair of operators on whole register images, exact to
the bit; the steps carry lags, not dates, so `CodecRoundTrip` speaks of the codec
alone and its guard only names the step that relies on it. What a partial write
leaves is the theorem `CutWriteDecodes`: a date that mixes the fields of the two,
which is `Torn`. The calendar arithmetic, which may still refuse such a date, is
chrono's and left out.

### GpsUart and TimezoneLookup

The receiver sends the RMC sentence of its state in two pieces, and a read
returns any run of them. One piece of a chunk may be damaged, with its newline
lost or a new one made, or the chunk is no UTF-8 and dropped. A checksum that
holds for a damaged or glued line is left out. `Push` is one turn of the loop in
`GpsUart::poll`; the snapshot keeps whether there is a fix, whether a UTC second,
and the zone its offset was taken from. A void sentence without time and date
("blank" in `REPORTS`) returns before the status is applied.

`TimezoneLookup` adds what the main loop does with a fix, the worker thread
behind its two channels, and the persistence. An answer of a provider is the zone
of the request, no zone, or an invalid name; anything else is a failing fetch,
which ends at the latest by the timeout ESP-IDF's HTTP client has by default (the
code sets none). `PersistNvs` and `PersistSd` are the two
halves of `persist_cached`; the loop does nothing else in between, and the card
copy may be left empty. `Restart` comes at any step, may find NVS erased, no
store or no card, and the device may have been carried elsewhere since the copies
in `LEFT` were written. The worker's thread is taken to have been spawned.

## 3. Runs

| Run | Instance | Checks |
|---|---|---|
| `TimeNoStall` | 4 s, 5 faults, silences of 150 s, all RTC states; 10.0 M states | `SecondRight`, `DispersionCoversError`, `RtcRequestIsGpsTime`, `Stratum1Disciplined`, `ServedNotBeforeReference` |
| `TimeFaults` | 8 s, 3 faults, stalls at any step, stray edges, leap second, silences of 2007 and 4295 s; 2.4 M states | `RecoversInFour`, `HoldoverEndsOnTime` |
| `TimeFalseStep` | stalls only | finds `TransientNeverSteps` violated |
| `TimeAlias` | a silence of 4295 s | finds `AcceptedIntervalValid` violated |
| `Pps` | 4 edges at any time, failing re-enables; 69 k states | `InterruptComesBack`, `EveryCaptureReported`, `AtomicRegister` (refinement) |
| `NtpPoll` | 2 clients of the LAN, one from outside and an IPv6 source, 3 configured prefixes, 2 slots, failures; 584 k states | `AllAccounted`, `TableExact`, `AclExact`, `AllHandled`, `SpacingUnlessCrowded` |
| `SdGuard` | 2 callers, deadline of 2 ticks, 5 ticks after a boot; 82 k states | `OneHolder`, `WatchesWhatRuns`, `OverdueIsCaught`, `ImplementsService` (refinement), `CallReturns`, `UsageAnswered` |
| `SdLog` | 5 lines, queue of 2, rotation above 1, chunks of 1, 2 requests, 1 failure or restart; 250 k states | `LinesInOrder`, `NoSilentLoss`, `DownloadInOrder`, `QueuedIsWritten` |
| `SdDropped` | as `SdLog` | finds `DroppedSinceSuccess` violated |
| `UiPanel` | 2 pages, presses at any step, one IO-mux reset, hanging draws; 2.1 M states | `FrameCurrent`, `FrameInTime`, `QueuedTimeInTime`, `OnlyHungRestarts`, `OneActionPerPress`, `StallEnds` |
| `RtcChip` | lags up to a bound, restarts and losses of power; 17 k states | `CodecRoundTrip`, `StopHasCause`, `ClockRepaired` |
| `Timezone` | 2 zones, fixes that come and go, 1 newline lost at a time, 1 restart; 145 k states | `LineBufBounded`, `OneLookup`, `ZoneIsKept`, `FixGivenUp`, `RestartKeepsZone`, `ZoneFound` |

### Why the bounds are enough

- *Time.* `TimeNoStall` counts the seconds outside a silence, and four of them
  are enough to lock, be disturbed and go on in holdover. Its five faults are what
  the worst error of a served time takes: an edge displaced by 120 ms twice
  running is four of them (a missing and a stray edge each time) and leaves an
  estimate of 495 ppm on a late anchor, and the fifth is the silence in which it
  drifts; with three faults `DispersionCoversError` would hold without its term
  `EstimateDrift`. In `TimeFaults` a lock takes two seconds after boot, a step two
  pulses, and three faults are one more than the two-pulse confirmation can
  absorb; it has eight seconds, since four calm ones must fit after the faults. The
  instants {0, 600, 700} put a stray edge on either side of the half-second
  rounding point and outside the accepted interval range of 0.8 to 1.2 s. Its
  silences sit around the code's thresholds: 2007 s (stratum drops at 2008 s),
  4295 s (interval wrap).
- *SecondRight* needs the gap between two accepted pulses below 1000 s: at the
  clamp of 500 ppm a wrong frequency estimate drifts half a second in 1000 s,
  and the rounding then picks a neighbour. This is a limit of the code, and the
  reason for the silences of `TimeNoStall` (at most 750 s together).
- *RecoversInFour* is tight: with three calm seconds it fails. Two seconds may
  pass with a wrong sentence still fresh, and two pulses confirm the step.
- *PpsMonitor.* A read overlaps at most two captures in an interesting way (one
  that it retries for, one after it); four allow an earlier and a later one.
  Timestamps wrap at 4, so aliasing of the interval happens.
- *NtpPoll.* Of the three builds one has no prefix, one a /31 with a host bit set
  that parts the two clients of the LAN, and one a /0, which lets all three in: with
  two slots they give eviction and re-entry. One datagram can fail with another
  behind it. The theorems carry the result to any table size, any prefix and any
  traffic.
- *SdGuard.* Two callers give a queue with a waiting job behind a running one;
  five ticks hold a call that ends just in time and one that is caught. A thread
  may hang only while the deadline and a further tick still fit, so that the
  bound on time does not hide the restart.
- *SdLog.* Five lines with a queue of two and a rotation above one fill the queue,
  rotate twice and have lines logged during a flush; two requests put a delete
  or a second download beside a first one of several chunks.

- *UiPanel.* Ages stop at their limits, so time is unbounded; the limits keep the
  order of the code's (debounce and recovery below the stall deadline, this below
  blanking). Two pages suffice, as pages are only compared.
- *RtcChip.* Lags stop at `MAX_LAG`; three restarts are enough for one inside a
  write and one after it.
- *Timezone.* A tick of refresh is left after a retry; two zones are the one the
  device is in and another one. One lost newline is what damages the next
  sentence; `LineBufBounded` is stated in the number lost. The proofs carry the
  persistence to any number of restarts.

The `Horizon` step of `TimeService` stutters at the end of the simulated
seconds; deadlock is checked in every run, so nothing else may stop.

### Fairness

`PpsMonitor`'s `FairSpec` has weak fairness on the steps of the handler, which
cannot be preempted for ever, and on those of the loop, which polls on each pass.
`NtpPoll` has weak fairness on the steps of `poll` for the same reason, and on the
one that ends the boot. `SdGuard`
has it on the mount, the worker, the watchdog and the passing of time: each is a
thread that the scheduler runs, and one that hangs has no step, so the fairness
promises nothing of it. `SdLog` has it on the writer, which comes round every
`FLUSH_INTERVAL`, on the worker and on the HTTP task's own steps. `UiPanel` has it
on the two tasks, and strong fairness on the passing of time, which waits for
their laps. `RtcChip` has it on the panel task's sensor pass and the main loop's
request every 60 s of lock, and strong fairness on each transfer going through: a
bus that fails for ever repairs nothing. `TimezoneLookup` has it on undamaged
reads, the worker, the loop and time, and strong fairness on an answer of the
first provider: one that is asked again and again answers some time. Nothing is
assumed of arrivals, edges, requests or failures, whose number the bounds limit. The
safety runs state no fairness.

## 4. Theorems

All proofs are for arbitrary constants within the named assumptions
(`UiAssumption`, `RtcAssumption`, `GpsAssumption`, `LookupAssumption`, `SecAssumption`, `NoneAssumption`, `FudgeAssumption`, `CountAssumption`,
`EnvAssumption`, `GuardAssumption`, `LogAssumption`, and those of the limiter and
of `poll`): any tick rate, any number of clients, slots, datagrams, edges, callers
and faults, any deadline, queue size, rotation point and chunk size.

- **Discipline.** `DisciplineTypeOK /\ LockConsistent` is inductive: neither is
  alone, as the type of the anchor is needed to count its seconds and the lock
  flag says which of the optional values are there. From it follow
  `Stratum1Holds`, `ServedNotBeforeReferenceHolds` and
  `HoldoverEndsOnTimeHolds`. The last rests on arithmetic lemmas on the
  integer divisions of the dispersion, `ServedNotBeforeReference` on the
  corrected elapsed time never being negative.
- **Main loop.** `LoopInv` says that edge, cursor and timer are ordered and that
  the UART holds well-formed sentences. With it each step of `TimeService` is a
  step of `DisciplineSpec` or a stutter (`ImplementsDiscipline`): the loop only
  ever reports edges that are not in the future and non-negative intervals. The
  discipline's theorems then hold for the firmware (`FirmwareStratum1`,
  `FirmwareHoldover`, `FirmwareReference`).
- **Right second.** `SecondInv` says how far the anchor may be from the second it
  names: between -25 and +150 ms, which is what a late capture, an accepted
  displacement of an eighth and a nudge of the servo leave. It is inductive in a
  `TimelyEnvironment`: the loop does not block after boot, no leap second, no
  edge later than an eighth of a second. What the environment does otherwise is
  free: edges missed or displaced, sentences lost or void, silences, any number of
  them. One condition is on the behaviour, `PulsesKeepComing`: 600 s at most since
  the last accepted pulse. At the clamp of 500 ppm the corrected time is then
  0.3 s off, with the displacement and the nudge 0.45 s, and `SecondOfEdge` still
  rounds to the right second,
  and no pulse disagrees twice with a sentence in time. `SecondRightHolds` and `RtcRequestIsGpsTimeHolds` follow.
- **Recovery.** `CalmInv` needs none of this: it holds for every instance with
  `NMEA_PPS_FUDGE_S = 1` and at least 1000 ticks per second, whatever blocks,
  strays, leaps or falls silent. It says, for each count of calm seconds, which
  sentences can still be unread and from which second (`UartCalm`,
  `SentenceCalm`), that the last edge is that of the second running
  (`PulseCalm`), and what the anchor knows (`LockCalm`): after three calm seconds
  the third edge has set it, the fourth confirms or corrects its second.
  `RecoversInFourHolds` is its last line. An interrupt that was not
  enabled again is excepted: nothing brings it back.
- **Advertised error.** `DispersionCoversErrorHolds` bounds the error of every time
  served at stratum 1, under the assumptions of *Right second*. `LateInv` is what
  it needs: the last edge came on time or displaced, and anchor and last pulse lie
  between the second the anchor names and `MaxLate`, the greatest displacement,
  after it. It is sharper than `SecondInv` and needs the servo to be convex: a
  nudge by an eighth of the phase error takes the anchor back towards the second,
  never past it. `ErrorExcess` then splits the error into the displacement, a tick
  of rounding and an excess that `Drifted` bounds by what the estimate drifts
  since the anchor. From holdover entry on the dispersion grows by 500 us a second,
  which is the clamp of the estimate, and the 1 ms it starts with covers the
  second that is running (`HoldoverCovered`); the first ten seconds are what is
  left (`DriftCovered`), and the property names their drift (`EstimateDrift`, 5 ms
  at the clamp). The timer of the model is ideal: `freq_ppm` stands for the distance
  of the estimate from the true rate of the crystal, and both theorems and the
  property bound the error against such a timer. The run's tick of a millisecond is
  in its bound, which makes that coarse; in the theorems the tick is a parameter.
  `SmallEstimateCoveredHolds` shows that up to an estimate of 10 ppm
  it is not needed: the floor of 100 us and the 1 ms of holdover cover it.
- **Complements of the findings.** `TransientNeverStepsHolds`: under the
  assumptions of *Right second* the comment of finding 1 is true, so the step
  back needs a loop that blocks or a leap second. `AcceptedIntervalHolds`: with the
  last accepted pulse younger than 2^32 us the range filter does what the
  documentation says, whatever blocks or strays, so finding 2 is the wrap and
  nothing else; `CursorInv` (the accepted pulse is not newer than the cursor) makes
  the interval polled shorter than the age of the pulse. `DroppedSinceSuccessHolds`
  and `SuccessRestoresHolds`: the comment of finding 3 is broken by a failing
  flush that took a count, by nothing else, and true again after the next success.
- **Types.** `TypeOKHolds` in `TimeService_proofs` and in `TimezoneLookup_proofs`
  conclude the type invariants; what a scan leaves in the snapshot is an induction
  over the pieces of the chunk (`ScanType`).
- **PPS capture.** `SeqlockInv` ties the reader's local copies to the registers:
  if the sequence number it sampled is even and unchanged, its copies are those
  of the present capture. With the type invariant it is inductive
  (`SeqlockHolds`), and under it `PpsMonitor` implements `PulseRegister`
  (`ImplementsRegister`). `InterruptHolds` holds in either setting of the
  interrupt, `OneBehindHolds` (no capture is overwritten unread) is an invariant
  of the one-shot interrupt.
- **Limiter.** The invariant is the type, `TableExact` (one entry per client,
  with the time it was last accepted) and `ForgottenOnlyWhenCrowded`. It gives
  the action property `SpacingUnlessCrowded`.
- **Packet service.** `AccountInv` (the counters' types and the balance of
  arrived and handled datagrams) gives `AllAccountedHolds`;
  `ImplementsLimiter` shows that `poll` moves the limiter by whole calls, and
  with it `ServerTable` and `ServerSpacing` carry its guarantees over.
- **Access list.** TLC checks three prefixes and three clients; the theorems are
  for all.
  `MaskOctet` shows that the octets of a mask are what the shift leaves, and
  `SameBlock` that two octets agree under a mask exactly if they lie in one block of
  a power of two; so `PrefixExact`: an address is let in exactly if it agrees with the
  configured network in the bits before the prefix, /0 and /32 included, host bits
  set or not. `BitExact` says the same bit by bit (`BlockBits` halves the blocks one
  bit at a time), which is the reference definition, `PrivateExact` that the
  built-in list is the private ranges, for every address. `AclInv` says that the
  list in force is that of the build wherever `poll` runs; with it `AclExactHolds`
  follows for every step of the server.
- **SD worker.** `GuardInv` says who may work at which point of the bring-up
  (`BootInv`), where the worker holds which deadline (`WorkInv`), that the depth
  counter is the sum of what the two threads hold (`DepthInv`), that the start
  time is that of the one thread that stamped it (`StampInv`), and how late a
  call can be before the watchdog has looked (`LateInv`). `OneHolder`,
  `WatchesWhatRuns` and `OverdueIsCaught` follow, and `GuardImplements`: every
  step is a step of `SdService` or a stutter.
- **SD log.** `CountInv` (types, the stages of a flush, the counts) gives
  `QueueExactHolds` and `NoSilentLossHolds`; the stages are needed to know that a
  batch is empty where the next one is drained and that only one side of the
  worker touches the files. `OrderInv` adds that the rotated file, the log, the
  batch and the queue are pairwise in order and none above the last number, and
  that what a download has read is below the rest of its file, the batch and the
  queue; when it reads the rotated file, also below the whole log, since a
  rotation puts the log in its place. From it follow `LinesInOrderHolds` and
  `DownloadInOrderHolds`.

- **Panel.** `FrameInv` ties the frame on the glass, the page being drawn and the
  request sampled for it to the page selected: a draw that ends unchanged is the
  page of the last request. `LapInv` says that between two heartbeats lies less
  than a lap unless the panel hangs, which gives `OnlyHungRestartsHolds`.
  `LateInv` bounds the age of the oldest request at each step of the panel, and
  `ActedInv` says where an edge and a level of one press can still be when it has
  been acted upon: the debounce outlasts both. `QueueInv` bounds the age of a
  queued RTC time at each step of the panel, by the laps since the sensors were
  put off; it needs two laps to be shorter than the draw interval, so that no two
  redraws put them off one after the other.
- **RTC.** `CodecExact` is arithmetic on the digits of each register: every date
  from 2020 on comes back, no earlier one does. `CutWriteDecodes` applies it to a write
  that ended after any number of bytes: the registers always decode, to a date mixed
  of the new and the old one, so no reader finds the cut out by the codec and only
  `ClockRepaired` helps. `ChipInv` adds to `StopHasCause`
  the types and that a write carries a time from step to step until its last transfer;
  then every way out of a write either clears the STOP bit or sets `cut`.
- **Timezone.** `LookupInv` puts a lookup in one of three places, request channel,
  worker or result channel, and makes `pending` exactly that there is one.
  `KeptInv` says at which step of `persist_cached` which copy is known to be the
  zone in force; a boot finds one of the copies, which gives `ZoneIsKeptHolds`
  and `RestartKeepsZoneHolds`.
- **Line buffer.** `LineInv` is sharper than `LineBufBounded`: two pieces for
  every newline lost, and one more only while a sentence is in transit. Within a
  chunk it holds after every piece (`PushWithin`), as a start comes only where the
  sentence before has ended (`ChunkCut`). `ScanSteps` turns the fold over a chunk of
  any length into one state per piece; its induction is over a set of numbers
  (`Induction`), which needs no operator as a parameter. `ReadIs` computes what
  each form of chunk (`ChunkForm`) makes of buffer and snapshot: with it
  `NoiseForgottenHolds`, that the next newline leaves nothing of what was damaged,
  and `LostFixReportedHolds`, that a clean buffer passes no report over.

Only model-checked are the liveness properties `EveryCaptureReported`, `AllHandled`,
`CallReturns`, `UsageAnswered`, `QueuedIsWritten`, `StallEnds`, `ClockRepaired`,
`FixGivenUp` and `ZoneFound`: liveness under fairness is out of the prover's reach.
Of `FixGivenUp` the two safety facts it rests on are theorems (`NoiseForgottenHolds`,
`LostFixReportedHolds`).

## 5. Findings

1. *A late loop steps a right clock* (`TimeFalseStep`). The comment on the
   two-pulse confirmation (`ntp/mod.rs:586-589`) says a late-parsed sentence
   reads low "for exactly one pulse". Two late passes in a row produce the same
   disagreement twice, and the clock steps back for two seconds.
2. *The interval wraps at 2^32 us* (`TimeAlias`). `pps_delta_us` truncates to
   32 bits; after 4295 s of silence the interval reads 1.033 s and enters the
   servo as valid, against `docs/technical.md:191`.
3. *A failed flush forgets the dropped lines* (`SdDropped`). `flush_to_card` takes
   the count of dropped lines with the batch (`sdlog.rs:157`) and an error drops
   both, while the comment on the field (`sdlog.rs:70`) calls it the number of
   lines discarded since the last successful flush, and `docs/technical.md:641`
   says drops are reported.

Seen while reading, without a run of their own:

- The servo takes two displaced edges running for a frequency offset. Until
  holdover begins a locked clock advertises the drift of one second at 15 ppm and
  holdover starts at 1 ms without the jitter, so such an estimate drifts uncovered
  for ten seconds, up to 5 ms (`EstimateDrift`).
- After a gap of 1000 s or more between accepted pulses the predicted second can
  be off by one until two sentences confirm the step.
- The RTC write-back runs after any pulse event, also one that the servo
  rejected; it writes the disciplined time, so the value is still right.
- A failing `reenable_interrupt` is never retried: PPS is dead until a restart.
- A failed send leaves its client in the limiter, so its retry is refused.
- `set_leap_indicator` is never called, although `docs/technical.md:248` says
  clients are warned of a leap second through the leap indicator.
- When the UART falls silent `snapshot.fix` keeps its last value; the clock may
  stay `Locked` on PPS alone and the RTC fallback is not tried.
- `persist_cached` waits for the SD worker on the main loop, so a slow card stops
  NTP, GPS and PPS handling for as long as the call lasts; the comment at
  `app.rs:142` says SD calls stay off this loop.
- A chunk read after an append can take a download past the announced
  `Content-Length`; after a rotation between two chunks the download goes on in
  the new file at the old offset.
- A card that is mounted but whose marker file failed is not ready: the writer
  never flushes, and free-space requests are consumed without an answer.
- A call that ends between the watchdog's load and its check is still taken for
  overdue if it was late, and the chip restarts.
- `rate_limited_total` counts control requests that are dropped without an answer,
  although `ntp/mod.rs:262` documents it as the Kiss-o'-Death responses sent.
- A void RMC sentence without time or date returns from `parse_rmc` before the
  status is applied (`gps.rs:485-489`), so `snapshot.fix` stays set, although the
  comment there says the status is applied before anything that can fail.
- A failed RTC write is not retried on the next pass, as the comment at
  `ui_task.rs:562` says: its time has left the mailbox, and the main loop queues
  the next one a minute later.
- The panel watchdog waits for GPIO0 to be high before it restarts the chip; that
  of the SD worker does not look at it.
- The edge `restore_button_input` may post is consumed without enabling the
  interrupt again; the level test still sees later presses.
- GeoNames is asked only when Open-Meteo answers without a zone, not when its
  request fails.
- `LOCAL_TZ` gives way to a zone that was looked up or stored and does not stop
  lookups, unlike `docs/setup.md` says.
- The zone is stored only when it changes: one that was booted from the card is not
  written back to NVS, a failed write is not tried again, and an older zone in
  NVS stands before a newer one on the card.
- A failing reconnect request in `wifi.rs` produces no further event and is not
  retried.

## 6. Not modelled

- *Contents of answers* (`build_response`, `build_mode6_response`): pure formatting
  of `DisciplineParams` into bytes, without state.
- *Display, battery, I2C bus, logging*: drawing, scaling, a wrapper of the driver and
  text; nothing reads their state back.
- *Wi-Fi*: one request per event, and all behaviour that matters in the driver.
- *Pins and the order of bring-up*: one caller, one straight line; each failure
  ends the program (the first connect at boot among them), except where the RTC, the
  card or a gauge is missing.
- *HTTP pages of the SD log*: listing, HTML and form decoding.

What would come next: the fields of an answer against the short and long NTP
formats, on top of the bound that is now a theorem; and the order of bring-up with
the parts that may be missing.
