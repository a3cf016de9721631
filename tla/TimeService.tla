----------------------------- MODULE TimeService -----------------------------
(***************************************************************************)
(* The time path of the firmware: the GPS module (sentences on the UART    *)
(* and an edge on the PPS pin), the edge interrupt, and the main loop of   *)
(* src/src/app.rs that polls both and drives the discipline of             *)
(* NtpDiscipline.  The loop's calls are separate steps, so that time can   *)
(* pass (a stall) and an edge or a sentence can arrive between any two.    *)
(*                                                                         *)
(* Second n of true time starts at tick n * SEC of the timer.  Within a    *)
(* second the model looks at the instants OFFSETS: the edge belongs at     *)
(* offset 0 and the sentence is complete at NMEA_AT.  Everything that      *)
(* departs from one on-time edge, one good sentence and a running loop per *)
(* second is a fault, and a behaviour has at most MAX_FAULTS of them.      *)
(***************************************************************************)
EXTENDS NtpDiscipline, FiniteSetsExt, Sequences

CONSTANTS
  OFFSETS,     \* instants within a second, 0 among them
  NMEA_AT,     \* instant at which the RMC sentence is complete
  LATE,        \* instants at which a displaced edge may come
  STALLS,      \* steps of app::run before which time may pass
  OUTAGES,     \* lengths in seconds of a silence of the GPS module
  LEAPS,       \* seconds that may be an inserted leap second (0: none)
  RTC_KINDS,   \* subset of {"absent", "unset", "set"}
  RTC_ERR,     \* error of the RTC's time in seconds
  UART_CAP,    \* sentences the UART driver's ring holds
  MAX_SECONDS, \* bound: seconds simulated, outages not counted
  MAX_FAULTS,  \* bound: faults
  CALM_MAX     \* bound: the count of calm seconds stops here

ASSUME EnvAssumption ==
  /\ 0 \in OFFSETS /\ NMEA_AT \in OFFSETS \ {0}
  /\ OFFSETS \subseteq 0 .. SEC - 1 /\ LATE \subseteq OFFSETS \ {0}
  /\ STALLS \subseteq {"boot", "gps", "rtc", "pps", "check"} /\ UART_CAP \in Nat \ {0}
  /\ OUTAGES \subseteq Nat /\ LEAPS \subseteq Nat /\ RTC_ERR \in Int
  /\ MAX_SECONDS \in Nat /\ MAX_FAULTS \in Nat /\ CALM_MAX \in Nat

VARIABLES
  pc,               \* next call of app::run
  armed,            \* the PPS interrupt is enabled
  mon_new,          \* the monitor's count is ahead of the poll cursor
  mon_edge,         \* edge_us of the monitor
  last_edge_us,     \* of the poll cursor; 0 before the first pulse
  uart,             \* sentences received and not yet read
  fix,              \* snapshot.fix
  utc_unix_seconds, \* snapshot.utc_unix_seconds
  rtc_kind,         \* what the RTC chip offers
  last_rtc_fallback_us, last_rtc_write_us, \* 0: never
  first_fix_logged, rtc_seeded_from_gps,
  rtc_request,      \* last queued RTC write, [val, at], or NONE
  leap_at,          \* the inserted leap second, or 0
  seconds, faults,  \* how much of the bounds is used
  calm              \* whole seconds since the last fault or leap

loopVars == <<fix, utc_unix_seconds, last_rtc_fallback_us, last_rtc_write_us,
              first_fix_logged, rtc_seeded_from_gps, rtc_request>>
ppsVars  == <<armed, mon_new, mon_edge, last_edge_us>>
envVars  == <<rtc_kind, leap_at, seconds, faults, calm>>
vars     == <<disciplineVars, pc, ppsVars, uart, loopVars, envVars>>

-----------------------------------------------------------------------------
(* True time. *)

Offset   == now % SEC
Second   == now \div SEC
Instant  == LET later == {o \in OFFSETS : o > Offset}
            IN  IF later = {} THEN (Second + 1) * SEC
                ELSE Second * SEC + Min(later)

(* UTC labels of second n: both neighbours count for the leap second.     *)
Labels(n) ==
  IF leap_at = 0 \/ n < leap_at THEN {n}
  ELSE IF n = leap_at THEN {n - 1, n}
  ELSE {n - 1}

(* The RMC sentence of second n; 23:59:60 has no calendar time, so parsing *)
(* it leaves utc_unix_seconds empty.                                       *)
Sentence(n, active) ==
  [fix |-> active,
   utc |-> IF n = leap_at THEN NONE ELSE CHOOSE u \in Labels(n) : TRUE]

(* The RTC's reading, fed to the loop by the panel task. *)
RtcUtc == Second + RTC_ERR

-----------------------------------------------------------------------------
(* Environment: time passes to the next instant. *)

(* A step of time with c faults besides a possible stall; bringing the     *)
(* board up may take its time.                                             *)
Passes(c) ==
  LET cost == IF pc \in {"sleep", "boot"} THEN c ELSE c + 1
  IN /\ pc \in STALLS \cup {"sleep"}
     /\ faults + cost <= MAX_FAULTS
     /\ faults' = faults + cost
     /\ now' = Instant
     /\ pc' = IF pc = "sleep" THEN "gps" ELSE pc
     /\ calm' = IF cost > 0 \/ pc = "boot" THEN 0
                ELSE IF Instant % SEC # 0 THEN calm
                ELSE IF leap_at # 0 /\ Instant \div SEC = leap_at + 1 THEN 0
                ELSE Lower(calm + 1, CALM_MAX)

(* The interrupt handler; ESP-IDF disables the interrupt as it fires, so  *)
(* an edge that comes before it is enabled again leaves no trace.         *)
RecordEdge(at) ==
  IF armed
  THEN mon_edge' = at /\ mon_new' = TRUE /\ armed' = FALSE
       /\ UNCHANGED last_edge_us
  ELSE UNCHANGED ppsVars

(* pps_delta_us: the cast to u32 wraps at 2^32 us, 4294.967 s. *)
INTERVAL_WRAP == 4294 * SEC + (967 * SEC) \div 1000
PpsDelta(current, previous) == (current - previous) % INTERVAL_WRAP

Receive(s) == uart' = IF Len(uart) < UART_CAP THEN Append(uart, s) ELSE uart

TickQuiet ==
  /\ Instant % SEC \notin {0, NMEA_AT}
  /\ Passes(0)
  /\ UNCHANGED <<ntpVars, ppsVars, uart, loopVars, rtc_kind, leap_at, seconds>>

TickEdge ==
  /\ Instant % SEC = 0 /\ seconds < MAX_SECONDS
  /\ Passes(0)
  /\ RecordEdge(Instant)
  /\ seconds' = seconds + 1
  /\ UNCHANGED <<ntpVars, uart, loopVars, rtc_kind, leap_at>>

TickNoEdge ==
  /\ Instant % SEC = 0 /\ seconds < MAX_SECONDS
  /\ Passes(1)
  /\ seconds' = seconds + 1
  /\ UNCHANGED <<ntpVars, ppsVars, uart, loopVars, rtc_kind, leap_at>>

(* A displaced or spurious edge. *)
TickStrayEdge ==
  /\ Instant % SEC \in LATE \ {NMEA_AT}
  /\ Passes(1)
  /\ RecordEdge(Instant)
  /\ UNCHANGED <<ntpVars, uart, loopVars, rtc_kind, leap_at, seconds>>

TickSentence ==
  /\ Instant % SEC = NMEA_AT
  /\ Passes(0)
  /\ Receive(Sentence(Second, TRUE))
  /\ UNCHANGED <<ntpVars, ppsVars, loopVars, rtc_kind, leap_at, seconds>>

(* The receiver reports that it has lost its fix. *)
TickVoid ==
  /\ Instant % SEC = NMEA_AT
  /\ Passes(1)
  /\ Receive(Sentence(Second, FALSE))
  /\ UNCHANGED <<ntpVars, ppsVars, loopVars, rtc_kind, leap_at, seconds>>

(* The sentence is corrupted (checksum, non-UTF-8) and dropped. *)
TickLost ==
  /\ Instant % SEC = NMEA_AT
  /\ Passes(1)
  /\ UNCHANGED <<ntpVars, ppsVars, uart, loopVars, rtc_kind, leap_at, seconds>>

(* The module is silent for k seconds.  The loop keeps running: it finds  *)
(* nothing to do but to refresh the due time of the RTC fallback.         *)
Outage(k) ==
  /\ pc = "sleep" /\ ~mon_new /\ uart = <<>>
  /\ faults < MAX_FAULTS
  /\ faults' = faults + 1
  /\ calm' = 0
  /\ now' = now + k * SEC
  /\ last_rtc_fallback_us' = IF last_rtc_fallback_us = 0 \/ fix
                             THEN last_rtc_fallback_us ELSE now'
  /\ UNCHANGED <<ntpVars, pc, ppsVars, uart, fix, utc_unix_seconds,
                 last_rtc_write_us, first_fix_logged, rtc_seeded_from_gps,
                 rtc_request, rtc_kind, leap_at, seconds>>

-----------------------------------------------------------------------------
(* Main loop. *)

(* Mutant: what came in before the loop runs is kept. *)
BootKeepsBacklog ==
  /\ pc = "boot" /\ pc' = "gps"
  /\ IF rtc_kind = "set" THEN SeedUtcSeconds(RtcUtc) ELSE UNCHANGED ntpVars
  /\ UNCHANGED <<now, ppsVars, uart, loopVars, envVars>>

(* init_ntp_server seeds the anchor from the RTC; the UART backlog of the   *)
(* boot is dropped just before the loop starts.                             *)
Boot ==
  /\ pc = "boot" /\ pc' = "gps"
  /\ uart' = <<>>
  /\ IF rtc_kind = "set" THEN SeedUtcSeconds(RtcUtc) ELSE UNCHANGED ntpVars
  /\ UNCHANGED <<now, ppsVars, loopVars, envVars>>

(* GpsUart::poll and GpsDispatch: every complete line is parsed in order   *)
(* at the same instant, so the last one with an effect counts.             *)
GpsPoll ==
  /\ pc = "gps" /\ pc' = "rtc"
  /\ uart' = <<>>
  /\ LET timed == {i \in DOMAIN uart : uart[i].fix /\ uart[i].utc # NONE}
     IN  IF timed = {} THEN UNCHANGED ntpVars
         ELSE \E last \in timed :
                /\ \A i \in timed : i <= last
                /\ UpdateGpsUtcSeconds(uart[last].utc)
  /\ fix' = IF uart = <<>> THEN fix ELSE uart[Len(uart)].fix
  /\ utc_unix_seconds' = IF uart = <<>> THEN utc_unix_seconds
                         ELSE uart[Len(uart)].utc
  /\ UNCHANGED <<now, ppsVars, last_rtc_fallback_us, last_rtc_write_us,
                 first_fix_logged, rtc_seeded_from_gps, rtc_request, envVars>>

RtcFallbackDue ==
  /\ ~fix /\ rtc_kind = "set"
  /\ last_rtc_fallback_us = 0 \/ now - last_rtc_fallback_us >= SEC

(* maybe_apply_rtc_fallback *)
RtcFallback ==
  /\ pc = "rtc" /\ pc' = "pps"
  /\ IF RtcFallbackDue
     THEN SeedUtcSeconds(RtcUtc) /\ last_rtc_fallback_us' = now
     ELSE UNCHANGED <<ntpVars, last_rtc_fallback_us>>
  /\ UNCHANGED <<now, ppsVars, uart, fix, utc_unix_seconds,
                 last_rtc_write_us, first_fix_logged, rtc_seeded_from_gps,
                 rtc_request, envVars>>

(* Mutant: any anchor is good enough to be written back. *)
WritebackUnlocked ==
  /\ CurrentUtc' # NONE
  /\ last_rtc_write_us = 0 \/ now - last_rtc_write_us >= 60 * SEC

(* maybe_writeback_rtc, evaluated after the pulse was observed. *)
WritebackDue ==
  /\ fix /\ DisciplineState(fix)' = "Locked"
  /\ last_rtc_write_us = 0 \/ now - last_rtc_write_us >= 60 * SEC

PpsIdle ==
  /\ pc = "pps" /\ pc' = "check"
  /\ ~mon_new
  /\ UNCHANGED <<disciplineVars, ppsVars, uart, loopVars, envVars>>

(* PpsDevice::poll returns an event: the server observes it, the RTC may   *)
(* be written, and the interrupt is enabled again; a failure of that last  *)
(* call is logged and nothing else.                                        *)
PpsPulse(enabled) ==
  /\ pc = "pps" /\ pc' = "check"
  /\ mon_new
  /\ UNCHANGED <<now, mon_edge, uart, fix, utc_unix_seconds,
                 last_rtc_fallback_us, first_fix_logged, rtc_seeded_from_gps,
                 rtc_kind, leap_at, seconds>>
  /\ IF last_edge_us > 0 THEN ObserveDelta(PpsDelta(mon_edge, last_edge_us), mon_edge)
                         ELSE ObserveFirst(mon_edge)
  /\ mon_new' = FALSE /\ last_edge_us' = mon_edge
  /\ IF WritebackDue
     THEN /\ rtc_request' = [val |-> CurrentUtc', at |-> now]
          /\ last_rtc_write_us' = now
     ELSE UNCHANGED <<rtc_request, last_rtc_write_us>>
  /\ armed' = enabled
  /\ IF enabled THEN UNCHANGED <<faults, calm>>
     ELSE faults < MAX_FAULTS /\ faults' = faults + 1 /\ calm' = 0

(* Boot self-checks: the first fix sets an RTC that had no time at boot.   *)
(* The loop's 1 ms delay comes just before them; the instants are coarser  *)
(* than that, so the model sleeps at the end of the pass.                  *)
SelfCheck ==
  /\ pc = "check" /\ pc' = "sleep"
  /\ first_fix_logged' = (first_fix_logged \/ fix)
  /\ IF ~first_fix_logged /\ fix /\ rtc_kind # "absent"
        /\ ~rtc_seeded_from_gps /\ utc_unix_seconds # NONE
     THEN /\ rtc_request' = [val |-> utc_unix_seconds, at |-> now]
          /\ rtc_seeded_from_gps' = TRUE
     ELSE UNCHANGED <<rtc_request, rtc_seeded_from_gps>>
  /\ UNCHANGED <<disciplineVars, ppsVars, uart, fix, utc_unix_seconds,
                 last_rtc_fallback_us, last_rtc_write_us, envVars>>

-----------------------------------------------------------------------------
Init ==
  /\ DisciplineInit
  /\ now = SEC
  /\ pc = "boot"
  /\ armed = TRUE /\ mon_new = FALSE /\ mon_edge = 0 /\ last_edge_us = 0
  /\ uart = <<>>
  /\ fix = FALSE /\ utc_unix_seconds = NONE
  /\ rtc_kind \in RTC_KINDS
  /\ last_rtc_fallback_us = 0 /\ last_rtc_write_us = 0
  /\ first_fix_logged = FALSE
  /\ rtc_seeded_from_gps = (rtc_kind = "set")
  /\ rtc_request = NONE
  /\ leap_at \in LEAPS
  /\ seconds = 0 /\ faults = 0 /\ calm = 0

Tick == \/ TickQuiet \/ TickEdge \/ TickNoEdge \/ TickStrayEdge
        \/ TickSentence \/ TickVoid \/ TickLost
        \/ \E k \in OUTAGES : Outage(k)

Loop == \/ Boot \/ GpsPoll \/ RtcFallback \/ PpsIdle
        \/ \E enabled \in BOOLEAN : PpsPulse(enabled)
        \/ SelfCheck

(* The horizon of the model; nothing else may stop. *)
Horizon ==
  /\ pc = "sleep" /\ Instant % SEC = 0 /\ seconds = MAX_SECONDS
  /\ UNCHANGED vars

Next == Tick \/ Loop \/ Horizon

Spec == Init /\ [][Next]_vars

-----------------------------------------------------------------------------
(* Properties. *)

(* Type invariant: the discipline's, the step of the loop and the UART     *)
(* ring within its size.                                                   *)
TypeOK ==
  /\ DisciplineTypeOK
  /\ pc \in {"boot", "gps", "rtc", "pps", "check", "sleep"}
  /\ armed \in BOOLEAN /\ mon_new \in BOOLEAN
  /\ mon_edge \in 0 .. now /\ last_edge_us \in 0 .. mon_edge
  /\ uart \in Seq([fix : BOOLEAN, utc : IntOrNone]) /\ Len(uart) <= UART_CAP
  /\ fix \in BOOLEAN /\ utc_unix_seconds \in IntOrNone
  /\ leap_at \in Nat

(* The anchor gives the second boundary nearest its own tick its UTC label. *)
AnchorRight ==
  clock_anchor.unix \in Labels((clock_anchor.mono + SEC \div 2) \div SEC)

(* Once PPS-locked the anchor names the right second, whatever pulses are  *)
(* missed, displaced or rejected, sentences lost, fixes dropped and RTC    *)
(* seeds offered (observe_pps_pulse's integer-second accounting), as long  *)
(* as the loop runs and the gap between accepted pulses is below the       *)
(* 1000 s in which a 500 ppm estimate drifts half a second.                *)
SecondRight == pps_locked => AnchorRight

(* What a client is told at stratum 1 is off by no more than the root      *)
(* dispersion it is told, the displacement of the edges, a tick of         *)
(* rounding, and what a wrong frequency estimate drifts in the first ten   *)
(* seconds after a pulse: holdover starts at 1 ms and grows only from its  *)
(* entry on, and a locked clock counts 15 us for its drift                 *)
(* (discipline_params against current_ntp_timestamp).                      *)
ServedTicks ==
  clock_anchor.unix * SEC + CorrectedElapsed(now - clock_anchor.mono, freq_ppm)

MaxLate == Max(LATE \cup {0})

(* In microseconds, at most 5000 at the clamp of 500 ppm. *)
EstimateDrift ==
  (Magnitude(freq_ppm) * Lower(now - last_pps_monotonic_us, HOLDOVER_ENTRY)) \div SEC

DispersionCoversError ==
  Stratum(fix) = 1 =>
    Magnitude(ServedTicks - now) * TICK_US
      <= DispUs(fix) + EstimateDrift + (MaxLate + 1) * TICK_US

(* A time queued for the RTC is GPS time: within a second of the truth     *)
(* even when the RTC itself is far off and seeded the anchor first         *)
(* (maybe_writeback_rtc and the first-fix write of app::run).              *)
RtcRequestIsGpsTime ==
  rtc_request # NONE => Magnitude(rtc_request.val - rtc_request.at \div SEC) <= 1

(* The interrupt is disabled and no unread pulse will enable it again. *)
PpsDead == ~armed /\ ~mon_new

(* Whatever happened before (stalls, stray edges, a leap second, half an   *)
(* hour of silence), four calm seconds bring lock and the right second.    *)
RecoversInFour ==
  calm >= 4 /\ ~PpsDead /\ pc = "sleep" => pps_locked /\ AnchorRight

(* technical.md's valid interval: once locked, a pulse is only accepted     *)
(* when it really came 0.8 to 1.2 s after the one polled before it          *)
(* (the range filter of observe_pps_pulse on pps_delta_us).                 *)
AcceptedIntervalValid ==
  [][pps_locked /\ last_pps_monotonic_us' # last_pps_monotonic_us
       => InRange(mon_edge - last_edge_us)]_vars

(* The claim of observe_pps_pulse's comment that a late-parsed sentence    *)
(* never steps the clock: with a right anchor and no leap second, no       *)
(* accepted pulse makes it wrong.                                          *)
TransientNeverSteps ==
  [][pps_locked /\ AnchorRight => AnchorRight']_vars

=============================================================================
