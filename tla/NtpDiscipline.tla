---------------------------- MODULE NtpDiscipline ----------------------------
(***************************************************************************)
(* The clock discipline of NtpServer (src/src/ntp/mod.rs): the anchor that *)
(* maps the monotonic timer to UTC, its bootstrap from the RTC or from     *)
(* NMEA, the PPS servo with its integer-second accounting, and the         *)
(* parameters (stratum, leap, root dispersion) every answer is built from. *)
(*                                                                         *)
(* Time is the monotonic timer in ticks of 1/SEC s; the code's timer has   *)
(* SEC = 1000000.  Dispersion, jitter and frequency keep the code's units  *)
(* (microseconds, ppm); the code's floating point values are rounded down  *)
(* to whole units.  Left out: pps_offset_us and the precision field, which *)
(* are reported and never read back by the discipline.                     *)
(***************************************************************************)
EXTENDS Integers

CONSTANTS
  NONE,             \* Option::None
  SEC,              \* ticks per second
  NMEA_PPS_FUDGE_S, \* seconds from a sentence to the next edge (1, or 0)
  COUNT_MAX         \* where the saturating event counters stop

Anchor    == [unix : Int, mono : Int]
IntOrNone == Int \cup {NONE}

ASSUME SecAssumption   == SEC \in Nat \ {0}
ASSUME NoneAssumption  == NONE \notin Int /\ NONE \notin Anchor
ASSUME FudgeAssumption == NMEA_PPS_FUDGE_S \in {0, 1}
ASSUME CountAssumption == COUNT_MAX \in Nat

VARIABLES
  now,                    \* monotonic_us_now()
  clock_anchor,           \* NONE or [unix, mono]
  last_gps_utc_seconds,   \* UTC second of the last sentence, or NONE
  last_gps_utc_update_us, \* when that sentence was parsed, or NONE
  pps_locked,             \* an edge has aligned the anchor
  pps_has_sample,         \* the servo has measured an interval
  pps_jitter_us,
  freq_ppm,
  last_pps_monotonic_us,  \* last accepted edge, or NONE
  last_sync_ntp_ts,       \* second of that edge; 0 before the first
  pending_leap,
  pps_glitch_count,
  anchor_step_count,
  pending_gps_step        \* unconfirmed GPS - predicted second, or NONE

gpsRecord == <<last_gps_utc_seconds, last_gps_utc_update_us>>
servo     == <<pps_has_sample, pps_jitter_us, freq_ppm>>
pairing   == <<anchor_step_count, pending_gps_step>>
lastPulse == <<last_pps_monotonic_us, last_sync_ntp_ts>>
ntpVars   == <<clock_anchor, gpsRecord, pps_locked, servo, lastPulse,
               pending_leap, pps_glitch_count, pairing>>
disciplineVars == <<now, ntpVars>>

-----------------------------------------------------------------------------
(* Constants of the code, times in ticks. *)
TICK_US                == 1000000 \div SEC
MIN_INTERVAL           == (8 * SEC) \div 10
MAX_INTERVAL           == (12 * SEC) \div 10
PPS_OUTLIER_THRESHOLD  == SEC \div 20
GPS_STALE_THRESHOLD    == 2 * SEC
HOLDOVER_ENTRY         == 10 * SEC
SERVO_KP_INV           == 10
SERVO_KI_INV           == 100
SERVO_MAX_FREQ_PPM     == 500
HOLDOVER_DISP_RATE_US_PER_SEC == 500
BASE_DISP_US           == 1000
MAX_DISP_US            == 2000000
HOLDOVER_UNSYNC_US     == 1000000
PHI_US_PER_S           == 15
MIN_HW_ACCURACY_US     == 100
STRATUM_UNSYNC         == 16
LEAP_ALARM             == 3

Lower(a, b)   == IF a < b THEN a ELSE b
Higher(a, b)  == IF a > b THEN a ELSE b
Magnitude(x)  == IF x < 0 THEN -x ELSE x
Clamp(x, m)   == Higher(-m, Lower(x, m))
SaturatingInc(n) == Lower(n + 1, COUNT_MAX)
(* x / d rounded towards zero, as a cast from f64 to i64 does. *)
Truncated(x, d) == IF x < 0 THEN -((-x) \div d) ELSE x \div d

-----------------------------------------------------------------------------
(* Bootstrap of the anchor. *)

AnchorAt(unix, mono) == [unix |-> unix, mono |-> mono]

(* from_socket: a fresh, unsynchronised server. *)
DisciplineInit ==
  /\ clock_anchor = NONE
  /\ last_gps_utc_seconds = NONE
  /\ last_gps_utc_update_us = NONE
  /\ pps_locked = FALSE
  /\ pps_has_sample = FALSE
  /\ pps_jitter_us = 0
  /\ freq_ppm = 0
  /\ last_pps_monotonic_us = NONE
  /\ last_sync_ntp_ts = 0
  /\ pending_leap = 0
  /\ pps_glitch_count = 0
  /\ anchor_step_count = 0
  /\ pending_gps_step = NONE

(* set_leap_indicator *)
SetLeapIndicator(li) ==
  /\ pending_leap' = Lower(li, 2)
  /\ UNCHANGED <<clock_anchor, gpsRecord, pps_locked, servo, lastPulse,
                 pps_glitch_count, pairing>>

(* seed_utc_seconds: the RTC's second, only while there is no anchor. *)
SeedUtcSeconds(utc) ==
  /\ clock_anchor' = IF pps_locked \/ clock_anchor # NONE
                     THEN clock_anchor
                     ELSE AnchorAt(utc, now)
  /\ UNCHANGED <<gpsRecord, pps_locked, servo, lastPulse, pending_leap,
                 pps_glitch_count, pairing>>

(* update_gps_utc_seconds: always recorded; the anchor only before PPS. *)
UpdateGpsUtcSeconds(utc) ==
  /\ last_gps_utc_seconds' = utc
  /\ last_gps_utc_update_us' = now
  /\ clock_anchor' = IF pps_locked THEN clock_anchor ELSE AnchorAt(utc, now)
  /\ UNCHANGED <<pps_locked, servo, lastPulse, pending_leap,
                 pps_glitch_count, pairing>>

-----------------------------------------------------------------------------
(* Pairing an edge with a UTC second. *)

GpsTimeFresh(edge) ==
  /\ last_gps_utc_update_us # NONE
  /\ edge - last_gps_utc_update_us < GPS_STALE_THRESHOLD

(* gps_second_at_edge: NONE when the sentence is stale or was never seen. *)
GpsSecondAtEdge(edge) ==
  IF GpsTimeFresh(edge)
  THEN last_gps_utc_seconds
       + ((edge - last_gps_utc_update_us) \div SEC)
       + NMEA_PPS_FUDGE_S
  ELSE NONE

(* Mutant: an anchor nudged into the future is read as negative time. *)
CorrectedElapsedSigned(raw, ppm) ==
  raw + ((((-((raw % 1000) * ppm)) \div 1000) - (raw \div 1000) * ppm) \div 1000)

(* corrected_elapsed_us with the frequency estimate ppm: raw * (1 - ppm/10^6) *)
(* rounded down; the division in two stages keeps the products small.         *)
CorrectedElapsed(raw, ppm) ==
  Higher(0, raw + ((((-((raw % 1000) * ppm)) \div 1000) - (raw \div 1000) * ppm)
                   \div 1000))

(* Mutant: one second per accepted pulse. *)
PredictedOnePerPulse(edge, ppm) == clock_anchor.unix + 1

(* The second the anchor predicts for an edge: whole seconds counted from  *)
(* the elapsed time.                                                       *)
PredictedSecond(edge, ppm) ==
  clock_anchor.unix
  + ((CorrectedElapsed(edge - clock_anchor.mono, ppm) + SEC \div 2) \div SEC)

(* lock_anchor *)
LockAnchor(unix, edge) ==
  /\ clock_anchor' = AnchorAt(unix, edge)
  /\ pps_locked' = TRUE
  /\ pending_gps_step' = NONE
  /\ last_pps_monotonic_us' = edge
  /\ last_sync_ntp_ts' = unix
  /\ UNCHANGED <<gpsRecord, servo, pending_leap, pps_glitch_count,
                 anchor_step_count>>

-----------------------------------------------------------------------------
(* observe_pps_pulse *)

LockIfFresh(edge) ==
  IF GpsSecondAtEdge(edge) = NONE
  THEN UNCHANGED ntpVars
  ELSE LockAnchor(GpsSecondAtEdge(edge), edge)

(* None: the first pulse since boot. *)
ObserveFirst(edge) == LockIfFresh(edge)

PhaseError(interval) == interval - SEC
InRange(interval)    == interval \in MIN_INTERVAL .. MAX_INTERVAL
IsOutlier(interval)  ==
  pps_has_sample /\ Magnitude(PhaseError(interval)) > PPS_OUTLIER_THRESHOLD

(* Two or more edges coalesced, or a spurious edge: nothing is touched. *)
RejectInterval(interval) == ~InRange(interval) /\ UNCHANGED ntpVars

(* First lock on the interval path. *)
DeltaFirstLock(interval, edge) ==
  /\ InRange(interval)
  /\ ~(pps_locked /\ clock_anchor # NONE)
  /\ LockIfFresh(edge)

RejectOutlier(interval) ==
  /\ InRange(interval)
  /\ pps_locked /\ clock_anchor # NONE
  /\ IsOutlier(interval)
  /\ pps_glitch_count' = SaturatingInc(pps_glitch_count)
  /\ UNCHANGED <<clock_anchor, gpsRecord, pps_locked, servo, lastPulse,
                 pending_leap, pairing>>

(* Mutant: a disagreement is noted and never confirmed. *)
NeverStep(predicted, gps) ==
  [unix |-> predicted,
   pending |-> IF gps # NONE /\ gps # predicted THEN gps - predicted ELSE NONE,
   stepped |-> FALSE]

(* The second an accepted edge gets, and what becomes of a disagreement    *)
(* with GPS: the first is remembered, the same one again is applied.       *)
SecondOfEdge(predicted, gps) ==
  IF gps # NONE /\ gps # predicted
  THEN IF pending_gps_step = gps - predicted
       THEN [unix |-> gps, pending |-> NONE, stepped |-> TRUE]
       ELSE [unix |-> predicted, pending |-> gps - predicted,
             stepped |-> FALSE]
  ELSE [unix |-> predicted, pending |-> NONE, stepped |-> FALSE]

NewFreq(errUs) ==
  Clamp(freq_ppm + ((errUs - freq_ppm) \div SERVO_KI_INV), SERVO_MAX_FREQ_PPM)

NewJitter(errUs) ==
  IF pps_has_sample THEN (4 * pps_jitter_us + Magnitude(errUs)) \div 5
                    ELSE Magnitude(errUs)

AcceptPulse(interval, edge) ==
  /\ InRange(interval)
  /\ pps_locked /\ clock_anchor # NONE
  /\ ~IsOutlier(interval)
  /\ LET err   == PhaseError(interval)
         errUs == err * TICK_US
         sec   == SecondOfEdge(PredictedSecond(edge, NewFreq(errUs)),
                               GpsSecondAtEdge(edge))
     IN /\ freq_ppm' = NewFreq(errUs)
        /\ pps_jitter_us' = NewJitter(errUs)
        /\ pps_has_sample' = TRUE
        /\ clock_anchor' = AnchorAt(sec.unix, edge - Truncated(err, SERVO_KP_INV))
        /\ pending_gps_step' = sec.pending
        /\ anchor_step_count' = IF sec.stepped
                                THEN SaturatingInc(anchor_step_count)
                                ELSE anchor_step_count
        /\ last_pps_monotonic_us' = edge
        /\ last_sync_ntp_ts' = sec.unix
        /\ UNCHANGED <<gpsRecord, pps_locked, pending_leap, pps_glitch_count>>

ObserveDelta(interval, edge) ==
  \/ RejectInterval(interval)
  \/ DeltaFirstLock(interval, edge)
  \/ RejectOutlier(interval)
  \/ AcceptPulse(interval, edge)

-----------------------------------------------------------------------------
(* What the server says of itself. *)

(* current_utc_unix_seconds, NONE without an anchor. *)
CurrentUtc ==
  IF clock_anchor = NONE THEN NONE
  ELSE clock_anchor.unix
       + (CorrectedElapsed(now - clock_anchor.mono, freq_ppm) \div SEC)

(* Mutant: the age of a pulse that never came defaults to zero. *)
PpsFreshByDefault ==
  \/ last_pps_monotonic_us = NONE
  \/ now - last_pps_monotonic_us < HOLDOVER_ENTRY

PpsFresh ==
  /\ last_pps_monotonic_us # NONE
  /\ now - last_pps_monotonic_us < HOLDOVER_ENTRY

FullySynced(fix) == fix /\ PpsFresh /\ clock_anchor # NONE

(* Root dispersion in microseconds.  Without any pulse the age saturates, *)
(* and so does the dispersion.                                            *)
LockedDisp ==
  Higher(IF pps_has_sample THEN pps_jitter_us ELSE MIN_HW_ACCURACY_US,
         MIN_HW_ACCURACY_US)
  + (PHI_US_PER_S * Lower(now - last_pps_monotonic_us, SEC)) \div SEC

(* Mutant: the dispersion does not grow. *)
HoldoverDispFlat ==
  IF last_pps_monotonic_us = NONE THEN MAX_DISP_US ELSE BASE_DISP_US

(* Mutant: growth starts at the pulse, not at holdover entry. *)
HoldoverDispEarly ==
  IF last_pps_monotonic_us = NONE THEN MAX_DISP_US
  ELSE Lower(BASE_DISP_US
             + HOLDOVER_DISP_RATE_US_PER_SEC
               * ((now - last_pps_monotonic_us) \div SEC),
             MAX_DISP_US)

HoldoverDisp ==
  IF last_pps_monotonic_us = NONE THEN MAX_DISP_US
  ELSE Lower(BASE_DISP_US
             + HOLDOVER_DISP_RATE_US_PER_SEC
               * (Higher(0, now - last_pps_monotonic_us - HOLDOVER_ENTRY) \div SEC),
             MAX_DISP_US)

DispUs(fix) ==
  IF FullySynced(fix) THEN LockedDisp
  ELSE IF clock_anchor # NONE THEN HoldoverDisp
  ELSE MAX_DISP_US

HoldoverOk(fix) ==
  pps_locked /\ clock_anchor # NONE /\ DispUs(fix) < HOLDOVER_UNSYNC_US

Stratum(fix) ==
  IF FullySynced(fix) \/ HoldoverOk(fix) THEN 1 ELSE STRATUM_UNSYNC

DisciplineState(fix) ==
  IF FullySynced(fix) THEN "Locked"
  ELSE IF Stratum(fix) = 1 THEN "Holdover"
  ELSE "Unsync"

Leap(fix) == IF Stratum(fix) = 1 THEN pending_leap ELSE LEAP_ALARM

(* discipline_params *)
DisciplineParams(fix) ==
  [stratum |-> Stratum(fix), state |-> DisciplineState(fix),
   leap |-> Leap(fix), disp_us |-> DispUs(fix), ref_ts |-> last_sync_ntp_ts]

-----------------------------------------------------------------------------
(* The discipline on its own: its caller may feed it any second, any edge   *)
(* up to now and any interval, at any time.                                 *)

TimePasses == now' \in Nat /\ now' >= now /\ UNCHANGED ntpVars

DisciplineNext ==
  \/ TimePasses
  \/ /\ UNCHANGED now
     /\ \/ \E li \in Nat : SetLeapIndicator(li)
        \/ \E utc \in Int : SeedUtcSeconds(utc)
        \/ \E utc \in Int : UpdateGpsUtcSeconds(utc)
        \/ \E edge \in 0 .. now : ObserveFirst(edge)
        \/ \E edge \in 0 .. now, interval \in Nat : ObserveDelta(interval, edge)

DisciplineSpec ==
  /\ now \in Nat /\ DisciplineInit
  /\ [][DisciplineNext]_disciplineVars

-----------------------------------------------------------------------------
(* Properties of the discipline. *)

(* Type invariant; the frequency estimate stays within its clamp, and the   *)
(* sentence and its arrival are recorded together.                          *)
DisciplineTypeOK ==
  /\ now \in Nat
  /\ clock_anchor \in Anchor \cup {NONE}
  /\ last_gps_utc_seconds \in IntOrNone
  /\ last_gps_utc_update_us \in IntOrNone
  /\ last_gps_utc_seconds = NONE <=> last_gps_utc_update_us = NONE
  /\ pps_locked \in BOOLEAN
  /\ pps_has_sample \in BOOLEAN
  /\ pps_jitter_us \in Nat
  /\ freq_ppm \in -SERVO_MAX_FREQ_PPM .. SERVO_MAX_FREQ_PPM
  /\ last_pps_monotonic_us \in IntOrNone
  /\ last_sync_ntp_ts \in Int
  /\ pending_leap \in 0 .. 2
  /\ pps_glitch_count \in 0 .. COUNT_MAX
  /\ anchor_step_count \in 0 .. COUNT_MAX
  /\ pending_gps_step \in IntOrNone

(* What the lock flag stands for: a pulse not in the future was accepted    *)
(* and the anchor carries its second; before that the servo is untouched.   *)
LockConsistent ==
  /\ pps_locked =>
       /\ last_pps_monotonic_us \in 0 .. now
       /\ clock_anchor # NONE
       /\ last_sync_ntp_ts = clock_anchor.unix
  /\ ~pps_locked =>
       /\ last_pps_monotonic_us = NONE
       /\ last_sync_ntp_ts = 0
       /\ pending_gps_step = NONE
       /\ ~pps_has_sample /\ freq_ppm = 0

(* Stratum 1 is only ever claimed for an anchor a PPS edge has set, never  *)
(* for one bootstrapped from the RTC or from NMEA, and the reference       *)
(* timestamp it carries is the second of that anchor (discipline_params).  *)
Stratum1Disciplined ==
  \A gps_fix \in BOOLEAN :
    Stratum(gps_fix) = 1 =>
      /\ pps_locked
      /\ clock_anchor # NONE
      /\ last_sync_ntp_ts = clock_anchor.unix

(* The time served is never earlier than the reference timestamp in the    *)
(* same answer, although the phase nudge may put the anchor in the future  *)
(* (corrected_elapsed_us, lock_anchor and the proportional path).          *)
ServedNotBeforeReference ==
  pps_locked => CurrentUtc >= last_sync_ntp_ts

(* A clock that was locked once is served at stratum 1 until 2008 s after  *)
(* the last accepted pulse (10 s entry + 1998 s of growth) and not later,  *)
(* fix or no fix (discipline_params).                                      *)
HoldoverEndsOnTime ==
  pps_locked =>
    \A gps_fix \in BOOLEAN :
      Stratum(gps_fix) = 1 <=> now - last_pps_monotonic_us < 2008 * SEC

=============================================================================
