-------------------------- MODULE TimeService_proofs --------------------------
(***************************************************************************)
(* Proofs about the time path, in six parts.                               *)
(*                                                                         *)
(* The discipline, for every tick length, every fudge and every caller:    *)
(* the type invariant, the meaning of the lock flag, and from these what   *)
(* the server may claim about its time.                                    *)
(*                                                                         *)
(* The main loop drives the discipline the way NtpDiscipline allows its    *)
(* caller to: every step of TimeService is a step of DisciplineSpec or     *)
(* leaves it alone, for any instants, faults, outages and RTC error, so    *)
(* that the first part holds of the firmware.                              *)
(*                                                                         *)
(* The second the clock names is right, for any number of missed,          *)
(* displaced and spurious edges, lost and void sentences, silences of up   *)
(* to ten minutes and RTC errors, as long as the loop does not block.      *)
(*                                                                         *)
(* And when it does block, when a second is inserted or the module is      *)
(* silent for as long as it likes: four calm seconds bring the right       *)
(* second back.                                                            *)
(*                                                                         *)
(* The error of what is served at stratum 1 is within what is advertised,  *)
(* the displacement of an edge and the drift of the first ten seconds, on  *)
(* the same conditions as the second being right: the edges the servo      *)
(* follows are at most so far off, and so is the anchor after every one.   *)
(*                                                                         *)
(* The types of the loop, what a transient does to a right clock, and the  *)
(* range filter below the wrap of the interval.                            *)
(***************************************************************************)
EXTENDS TimeService, TLAPS, WellFoundedInduction, SequenceTheorems

-----------------------------------------------------------------------------
(* The discipline: arithmetic of the helpers. *)

(* x \div n is below k exactly when x is below k * n (the holdover age is  *)
(* counted in whole seconds by div_euclid).                                *)
LEMMA DivBelow ==
  ASSUME NEW x \in Nat, NEW n \in Nat \ {0}, NEW k \in Nat
  PROVE  x \div n < k <=> x < k * n
<1> DEFINE q == x \div n
           r == x % n
<1>1. q \in Nat /\ r \in Nat /\ r < n /\ x = n * q + r
  BY Z3
<1> HIDE DEF q, r
<1>2. CASE q < k
  <2>1. PICK d \in Nat : k = q + 1 + d
    <3>1. k - q - 1 \in Nat /\ k = q + 1 + (k - q - 1)
      BY <1>1, <1>2
    <3> QED BY <3>1
  <2>2. k * n = n * q + n + d * n
    BY <1>1, <2>1, Z3
  <2>3. d * n \in Nat
    BY Z3
  <2> QED BY <1>1, <1>2, <2>2, <2>3 DEF q
<1>3. CASE ~(q < k)
  <2>1. PICK d \in Nat : q = k + d
    <3>1. q - k \in Nat /\ q = k + (q - k)
      BY <1>1, <1>3
    <3> QED BY <3>1
  <2>2. n * q = k * n + d * n
    BY <1>1, <2>1, Z3
  <2>3. d * n \in Nat /\ k * n \in Nat
    BY Z3
  <2> QED BY <1>1, <1>3, <2>2, <2>3 DEF q
<1> QED BY <1>2, <1>3

(* The frequency-corrected elapsed time is never negative                  *)
(* (corrected_elapsed_us ends in max(0)).                                  *)
LEMMA ElapsedNat ==
  ASSUME NEW raw \in Int, NEW ppm \in Int
  PROVE  CorrectedElapsed(raw, ppm) \in Nat
<1> DEFINE a == (raw % 1000) * ppm
           b == (raw \div 1000) * ppm
           c == (((-a) \div 1000) - b) \div 1000
<1>1. raw % 1000 \in Int /\ raw \div 1000 \in Int
  BY Z3
<1>2. a \in Int /\ b \in Int
  BY <1>1
<1>3. c \in Int
  BY <1>2
<1> HIDE DEF c
<1>4. Higher(0, raw + c) \in Nat
  BY <1>3 DEF Higher
<1> QED BY <1>4 DEF CorrectedElapsed, c

(* The clamp of the servo keeps the estimate within its bounds. *)
LEMMA NewFreqRange ==
  ASSUME freq_ppm \in Int, NEW err \in Int
  PROVE  NewFreq(err) \in -SERVO_MAX_FREQ_PPM .. SERVO_MAX_FREQ_PPM
BY DEF NewFreq, Clamp, Higher, Lower, SERVO_MAX_FREQ_PPM, SERVO_KI_INV

(* The jitter average stays a natural number. *)
LEMMA NewJitterNat ==
  ASSUME pps_jitter_us \in Nat, NEW err \in Int
  PROVE  NewJitter(err) \in Nat
BY DEF NewJitter, Magnitude

(* A tick is a whole number of microseconds. *)
LEMMA TickNat == TICK_US \in Nat
BY SecAssumption, Z3 DEF TICK_US

(* A pairing gives a whole second, or none (gps_second_at_edge). *)
LEMMA GpsSecondType ==
  ASSUME DisciplineTypeOK, NEW edge \in Int
  PROVE  GpsSecondAtEdge(edge) \in IntOrNone
<1>1. CASE GpsTimeFresh(edge)
  <2>1. last_gps_utc_seconds \in Int /\ last_gps_utc_update_us \in Int
    BY <1>1, NoneAssumption DEF GpsTimeFresh, DisciplineTypeOK, IntOrNone
  <2>2. (edge - last_gps_utc_update_us) \div SEC \in Int
    BY <2>1, SecAssumption
  <2> QED BY <1>1, <2>1, <2>2, FudgeAssumption DEF GpsSecondAtEdge, IntOrNone
<1>2. CASE ~GpsTimeFresh(edge)
  BY <1>2 DEF GpsSecondAtEdge, IntOrNone
<1> QED BY <1>1, <1>2

(* The predicted second is a whole number. *)
LEMMA PredictedInt ==
  ASSUME clock_anchor \in Anchor, NEW edge \in Int, NEW ppm \in Int
  PROVE  PredictedSecond(edge, ppm) \in Int
<1> DEFINE e == CorrectedElapsed(edge - clock_anchor.mono, ppm)
<1>0. edge - clock_anchor.mono \in Int
  BY DEF Anchor
<1>1. e \in Nat
  BY <1>0, ElapsedNat
<1> HIDE DEF e
<1>2. SEC \div 2 \in Int
  BY SecAssumption
<1>3. (e + SEC \div 2) \div SEC \in Int
  BY <1>1, <1>2, SecAssumption
<1> QED BY <1>3 DEF PredictedSecond, Anchor, e

-----------------------------------------------------------------------------
(* The inductive invariant: types and the meaning of the lock flag. *)

DisciplineInv == DisciplineTypeOK /\ LockConsistent

(* The initial state satisfies the invariant (from_socket). *)
LEMMA InitInv == now \in Nat /\ DisciplineInit => DisciplineInv
<1> SUFFICES ASSUME now \in Nat, DisciplineInit
             PROVE  DisciplineInv
  OBVIOUS
<1>1. DisciplineTypeOK
  <2>1. 0 \in 0 .. 2 /\ 0 \in 0 .. COUNT_MAX /\ 0 \in -500 .. 500
    BY CountAssumption
  <2>2. pps_locked \in BOOLEAN /\ pps_has_sample \in BOOLEAN
    BY Zenon DEF DisciplineInit
  <2>3. 0 \in Nat /\ 0 \in Int
    OBVIOUS
  <2> QED
    BY <2>1, <2>2, <2>3, Zenon
       DEF DisciplineInit, DisciplineTypeOK, IntOrNone, SERVO_MAX_FREQ_PPM
<1>2. LockConsistent
  BY DEF DisciplineInit, LockConsistent
<1> QED BY <1>1, <1>2 DEF DisciplineInv

(* Aligning the anchor to an edge (lock_anchor) keeps the invariant. *)
LEMMA LockAnchorInv ==
  ASSUME DisciplineInv, UNCHANGED now,
         NEW unix \in Int, NEW edge \in 0 .. now, LockAnchor(unix, edge)
  PROVE  DisciplineInv'
<1>1. clock_anchor' = [unix |-> unix, mono |-> edge]
  BY DEF LockAnchor, AnchorAt
<1>2. clock_anchor' \in Anchor /\ clock_anchor'.unix = unix
  BY <1>1 DEF Anchor, DisciplineInv, DisciplineTypeOK
<1>3. clock_anchor' # NONE
  BY <1>2, NoneAssumption
<1> QED
  BY <1>2, <1>3, NoneAssumption
     DEF LockAnchor, DisciplineInv, DisciplineTypeOK, LockConsistent,
         IntOrNone, gpsRecord, servo

(* A first pulse, or a first lock on the interval path, keeps the invariant. *)
LEMMA LockIfFreshInv ==
  ASSUME DisciplineInv, UNCHANGED now,
         NEW edge \in 0 .. now, LockIfFresh(edge)
  PROVE  DisciplineInv'
<1>0. edge \in Int
  BY DEF DisciplineInv, DisciplineTypeOK
<1>1. CASE GpsSecondAtEdge(edge) = NONE
  <2>1. UNCHANGED ntpVars
    BY <1>1 DEF LockIfFresh
  <2> QED
    BY <2>1
       DEF ntpVars, gpsRecord, servo, lastPulse, pairing,
           DisciplineInv, DisciplineTypeOK, LockConsistent
<1>2. CASE GpsSecondAtEdge(edge) # NONE
  <2>1. GpsSecondAtEdge(edge) \in Int
    BY <1>0, <1>2, GpsSecondType DEF DisciplineInv, IntOrNone
  <2>2. LockAnchor(GpsSecondAtEdge(edge), edge)
    BY <1>2 DEF LockIfFresh
  <2> QED BY <2>1, <2>2, LockAnchorInv
<1> QED BY <1>1, <1>2

(* The second an accepted edge gets, and the pending disagreement, have    *)
(* their types (integer-second accounting of observe_pps_pulse).           *)
LEMMA SecondOfEdgeType ==
  ASSUME NEW predicted \in Int, NEW gps \in IntOrNone
  PROVE  /\ SecondOfEdge(predicted, gps).unix \in Int
         /\ SecondOfEdge(predicted, gps).pending \in IntOrNone
         /\ SecondOfEdge(predicted, gps).stepped \in BOOLEAN
BY DEF SecondOfEdge, IntOrNone

(* An accepted pulse keeps the invariant (the servo path of                *)
(* observe_pps_pulse).                                                     *)
LEMMA AcceptPulseInv ==
  ASSUME DisciplineInv, UNCHANGED now,
         NEW edge \in 0 .. now, NEW interval \in Nat,
         AcceptPulse(interval, edge)
  PROVE  DisciplineInv'
<1> DEFINE err   == PhaseError(interval)
           errUs == err * TICK_US
           gps   == GpsSecondAtEdge(edge)
           pred  == PredictedSecond(edge, NewFreq(errUs))
           sec   == SecondOfEdge(pred, gps)
           mono  == edge - Truncated(err, SERVO_KP_INV)
<1>0. edge \in Int /\ pps_locked /\ clock_anchor \in Anchor /\ freq_ppm \in Int
  BY DEF DisciplineInv, DisciplineTypeOK, AcceptPulse, SERVO_MAX_FREQ_PPM
<1>1. err \in Int /\ errUs \in Int
  BY SecAssumption, TickNat DEF PhaseError
<1> HIDE DEF err, errUs
<1>2. NewFreq(errUs) \in -SERVO_MAX_FREQ_PPM .. SERVO_MAX_FREQ_PPM
  BY <1>0, <1>1, NewFreqRange
<1>3. NewFreq(errUs) \in Int
  BY <1>2 DEF SERVO_MAX_FREQ_PPM
<1>4. pred \in Int
  BY <1>0, <1>3, PredictedInt
<1>5. gps \in IntOrNone
  BY <1>0, GpsSecondType DEF DisciplineInv
<1> HIDE DEF pred, gps
<1>6. sec.unix \in Int /\ sec.pending \in IntOrNone
  BY <1>4, <1>5, SecondOfEdgeType
<1>7. NewJitter(errUs) \in Nat
  BY <1>1, NewJitterNat DEF DisciplineInv, DisciplineTypeOK
<1>8. mono \in Int
  BY <1>0, <1>1 DEF Truncated, SERVO_KP_INV
<1> HIDE DEF sec, mono
<1>9. /\ freq_ppm' = NewFreq(errUs)
      /\ pps_jitter_us' = NewJitter(errUs)
      /\ pps_has_sample' = TRUE
      /\ clock_anchor' = AnchorAt(sec.unix, mono)
      /\ pending_gps_step' = sec.pending
      /\ anchor_step_count' \in {anchor_step_count, SaturatingInc(anchor_step_count)}
      /\ last_pps_monotonic_us' = edge
      /\ last_sync_ntp_ts' = sec.unix
      /\ UNCHANGED <<gpsRecord, pps_locked, pending_leap, pps_glitch_count>>
  BY DEF AcceptPulse, err, errUs, gps, pred, sec, mono
<1>10. clock_anchor' \in Anchor /\ clock_anchor'.unix = sec.unix
  BY <1>6, <1>8, <1>9 DEF AnchorAt, Anchor
<1>11. anchor_step_count' \in 0 .. COUNT_MAX
  BY <1>9, CountAssumption
     DEF SaturatingInc, Lower, DisciplineInv, DisciplineTypeOK
<1>12. DisciplineTypeOK'
  BY <1>0, <1>2, <1>6, <1>7, <1>9, <1>10, <1>11
     DEF DisciplineInv, DisciplineTypeOK, IntOrNone, gpsRecord
<1>13. LockConsistent'
  BY <1>0, <1>9, <1>10, NoneAssumption DEF LockConsistent
<1> QED BY <1>12, <1>13 DEF DisciplineInv

(* Every step of the discipline keeps the invariant. *)
LEMMA NextInv == DisciplineInv /\ [DisciplineNext]_disciplineVars => DisciplineInv'
<1> SUFFICES ASSUME DisciplineInv, [DisciplineNext]_disciplineVars
             PROVE  DisciplineInv'
  OBVIOUS
<1> USE DEF DisciplineInv
<1>1. ASSUME UNCHANGED ntpVars, now' \in Nat, now' >= now
      PROVE  DisciplineInv'
  BY <1>1
     DEF ntpVars, gpsRecord, servo, lastPulse, pairing,
         DisciplineTypeOK, LockConsistent
<1>2. CASE TimePasses
  BY <1>1, <1>2 DEF TimePasses
<1>3. ASSUME UNCHANGED now, NEW li \in Nat, SetLeapIndicator(li)
      PROVE  DisciplineInv'
  BY <1>3
     DEF SetLeapIndicator, Lower, gpsRecord, servo, lastPulse, pairing,
         DisciplineTypeOK, LockConsistent
<1>4. ASSUME UNCHANGED now, NEW utc \in Int, SeedUtcSeconds(utc)
      PROVE  DisciplineInv'
  <2>1. AnchorAt(utc, now) \in Anchor
    BY DEF AnchorAt, Anchor, DisciplineTypeOK
  <2>2. clock_anchor' \in Anchor \cup {NONE}
    BY <1>4, <2>1 DEF SeedUtcSeconds, DisciplineTypeOK
  <2>3. pps_locked => clock_anchor' = clock_anchor
    BY <1>4 DEF SeedUtcSeconds
  <2> QED
    BY <1>4, <2>2, <2>3
       DEF SeedUtcSeconds, gpsRecord, servo, lastPulse, pairing,
           DisciplineTypeOK, LockConsistent
<1>5. ASSUME UNCHANGED now, NEW utc \in Int, UpdateGpsUtcSeconds(utc)
      PROVE  DisciplineInv'
  <2>1. AnchorAt(utc, now) \in Anchor
    BY DEF AnchorAt, Anchor, DisciplineTypeOK
  <2>2. clock_anchor' \in Anchor \cup {NONE}
    BY <1>5, <2>1 DEF UpdateGpsUtcSeconds, DisciplineTypeOK
  <2>3. pps_locked => clock_anchor' = clock_anchor
    BY <1>5 DEF UpdateGpsUtcSeconds
  <2>4. last_gps_utc_seconds' \in Int /\ last_gps_utc_update_us' \in Int
    BY <1>5 DEF UpdateGpsUtcSeconds, DisciplineTypeOK
  <2> QED
    BY <1>5, <2>2, <2>3, <2>4, NoneAssumption
       DEF UpdateGpsUtcSeconds, IntOrNone, servo, lastPulse, pairing,
           DisciplineTypeOK, LockConsistent
<1>6. ASSUME UNCHANGED now, NEW edge \in 0 .. now, ObserveFirst(edge)
      PROVE  DisciplineInv'
  BY <1>6, LockIfFreshInv DEF ObserveFirst
<1>7. ASSUME UNCHANGED now, NEW edge \in 0 .. now, NEW interval \in Nat,
             ObserveDelta(interval, edge)
      PROVE  DisciplineInv'
  <2>1. CASE RejectInterval(interval)
    BY <1>1, <1>7, <2>1 DEF RejectInterval, DisciplineTypeOK
  <2>2. CASE DeltaFirstLock(interval, edge)
    BY <1>7, <2>2, LockIfFreshInv DEF DeltaFirstLock
  <2>3. CASE RejectOutlier(interval)
    <3>1. pps_glitch_count' \in 0 .. COUNT_MAX
      BY <2>3, CountAssumption
         DEF RejectOutlier, SaturatingInc, Lower, DisciplineTypeOK
    <3> QED
      BY <1>7, <2>3, <3>1
         DEF RejectOutlier, gpsRecord, servo, lastPulse, pairing,
             DisciplineTypeOK, LockConsistent
  <2>4. CASE AcceptPulse(interval, edge)
    BY <1>7, <2>4, AcceptPulseInv
  <2> QED BY <1>7, <2>1, <2>2, <2>3, <2>4 DEF ObserveDelta
<1>8. CASE UNCHANGED disciplineVars
  BY <1>1, <1>8 DEF disciplineVars, DisciplineTypeOK
<1> QED
  BY <1>2, <1>3, <1>4, <1>5, <1>6, <1>7, <1>8 DEF DisciplineNext

-----------------------------------------------------------------------------
(* The discipline: theorems. *)

(* Types and lock: whatever seconds, edges and intervals the caller feeds   *)
(* it, the frequency estimate stays within 500 ppm, and the lock flag means *)
(* that an accepted pulse has set the anchor and the reference timestamp    *)
(* (observe_pps_pulse, lock_anchor, seed_utc_seconds,                       *)
(* update_gps_utc_seconds).                                                 *)
THEOREM LockConsistentHolds ==
  DisciplineSpec => [](DisciplineTypeOK /\ LockConsistent)
<1>1. DisciplineSpec => []DisciplineInv
  BY InitInv, NextInv, PTL DEF DisciplineSpec
<1> QED BY <1>1, PTL DEF DisciplineInv

(* Stratum 1 for a disciplined clock only: the invariant excludes a pulse   *)
(* age for a clock that never locked, so PpsFresh alone cannot grant it     *)
(* (discipline_params).                                                     *)
THEOREM Stratum1Holds == DisciplineSpec => []Stratum1Disciplined
<1>1. DisciplineTypeOK /\ LockConsistent => Stratum1Disciplined
  <2> SUFFICES ASSUME DisciplineTypeOK, LockConsistent,
                      NEW gps_fix \in BOOLEAN, Stratum(gps_fix) = 1
               PROVE  pps_locked
    BY DEF Stratum1Disciplined, LockConsistent
  <2>1. FullySynced(gps_fix) \/ HoldoverOk(gps_fix)
    BY DEF Stratum, STRATUM_UNSYNC
  <2>2. CASE FullySynced(gps_fix)
    BY <2>2 DEF FullySynced, PpsFresh, LockConsistent
  <2>3. CASE HoldoverOk(gps_fix)
    BY <2>3 DEF HoldoverOk
  <2> QED BY <2>1, <2>2, <2>3
<1> QED BY <1>1, LockConsistentHolds, PTL

(* The served time is at or after the reference timestamp of the answer     *)
(* (current_utc_unix_seconds against ref_ts).                               *)
THEOREM ServedNotBeforeReferenceHolds ==
  DisciplineSpec => []ServedNotBeforeReference
<1>1. DisciplineTypeOK /\ LockConsistent => ServedNotBeforeReference
  <2> SUFFICES ASSUME DisciplineTypeOK, LockConsistent, pps_locked
               PROVE  CurrentUtc >= last_sync_ntp_ts
    BY DEF ServedNotBeforeReference
  <2> DEFINE e == CorrectedElapsed(now - clock_anchor.mono, freq_ppm)
  <2>1. /\ clock_anchor # NONE /\ clock_anchor \in Anchor
        /\ last_sync_ntp_ts = clock_anchor.unix
    BY DEF DisciplineTypeOK, LockConsistent
  <2>2. clock_anchor.unix \in Int /\ clock_anchor.mono \in Int
    BY <2>1 DEF Anchor
  <2>3. now - clock_anchor.mono \in Int /\ freq_ppm \in Int
    BY <2>2 DEF DisciplineTypeOK, SERVO_MAX_FREQ_PPM
  <2>4. e \in Nat
    BY <2>3, ElapsedNat
  <2> HIDE DEF e
  <2>5. e \div SEC \in Nat
    BY <2>4, SecAssumption, Z3
  <2>6. CurrentUtc = clock_anchor.unix + (e \div SEC)
    BY <2>1 DEF CurrentUtc, e
  <2> QED BY <2>1, <2>2, <2>5, <2>6
<1> QED BY <1>1, LockConsistentHolds, PTL

(* Holdover ends 2008 s after the last accepted pulse, for every tick       *)
(* length: not a tick earlier, not a tick later (discipline_params).        *)
THEOREM HoldoverEndsOnTimeHolds == DisciplineSpec => []HoldoverEndsOnTime
<1>1. DisciplineTypeOK /\ LockConsistent => HoldoverEndsOnTime
  <2> SUFFICES ASSUME DisciplineTypeOK, LockConsistent, pps_locked,
                      NEW gps_fix \in BOOLEAN
               PROVE  Stratum(gps_fix) = 1 <=> now - last_pps_monotonic_us < 2008 * SEC
    BY DEF HoldoverEndsOnTime
  <2> DEFINE age  == now - last_pps_monotonic_us
             held == Higher(0, age - HOLDOVER_ENTRY)
             secs == held \div SEC
  <2>1. /\ last_pps_monotonic_us # NONE /\ clock_anchor # NONE
        /\ age \in Nat
    BY NoneAssumption DEF LockConsistent, DisciplineTypeOK
  <2>2. SEC \in Nat /\ SEC > 0 /\ HOLDOVER_ENTRY = 10 * SEC
    BY SecAssumption DEF HOLDOVER_ENTRY
  <2> HIDE DEF age
  <2>3. held \in Nat
    BY <2>1, <2>2 DEF Higher
  <2>4. held < 1998 * SEC <=> age < 2008 * SEC
    BY <2>1, <2>2 DEF Higher
  <2> HIDE DEF held
  <2>5. secs \in Nat /\ (secs < 1998 <=> held < 1998 * SEC)
    <3>1. secs \in Nat
      BY <2>2, <2>3, Z3
    <3> QED BY <3>1, <2>3, SecAssumption, DivBelow
  <2> HIDE DEF secs
  <2>6. HoldoverDisp < HOLDOVER_UNSYNC_US <=> secs < 1998
    <3>1. HoldoverDisp = Lower(1000 + 500 * secs, 2000000)
      BY <2>1
         DEF HoldoverDisp, BASE_DISP_US, HOLDOVER_DISP_RATE_US_PER_SEC,
             MAX_DISP_US, secs, held, age
    <3> QED BY <3>1, <2>5 DEF Lower, HOLDOVER_UNSYNC_US
  <2>7. CASE FullySynced(gps_fix)
    <3>1. age < HOLDOVER_ENTRY
      BY <2>7 DEF FullySynced, PpsFresh, age
    <3>2. Stratum(gps_fix) = 1
      BY <2>7 DEF Stratum
    <3> QED BY <3>1, <3>2, <2>1, <2>2 DEF age
  <2>8. CASE ~FullySynced(gps_fix)
    <3>1. Stratum(gps_fix) = 1 <=> HoldoverDisp < HOLDOVER_UNSYNC_US
      BY <2>1, <2>8 DEF Stratum, HoldoverOk, DispUs, STRATUM_UNSYNC
    <3> QED BY <3>1, <2>4, <2>5, <2>6 DEF age
  <2> QED BY <2>7, <2>8
<1> QED BY <1>1, LockConsistentHolds, PTL

-----------------------------------------------------------------------------
(* The main loop: time. *)

(* The least of a nonempty set of naturals is one of them. *)
LEMMA MinNat ==
  ASSUME NEW S, S \subseteq Nat, S # {}
  PROVE  Min(S) \in S /\ \A y \in S : Min(S) <= y
<1>1. \E x \in S : \A y \in S : ~(<<y, x>> \in OpToRel(<, Nat))
  BY NatLessThanWellFounded, WFMin
<1>2. PICK x \in S : \A y \in S : ~(<<y, x>> \in OpToRel(<, Nat))
  BY <1>1
<1>3. \A y \in S : x =< y
  <2> TAKE y \in S
  <2>1. x \in Nat /\ y \in Nat /\ ~(y < x)
    BY <1>2 DEF OpToRel
  <2> QED BY <2>1
<1> QED BY <1>3 DEF Min

(* The next instant lies ahead. *)
LEMMA InstantAhead ==
  ASSUME now \in Nat
  PROVE  Instant \in Nat /\ Instant > now
<1> DEFINE later == {o \in OFFSETS : o > Offset}
<1>1. /\ Second \in Nat /\ Offset \in Nat /\ Offset < SEC
      /\ now = SEC * Second + Offset
  BY SecAssumption, Z3 DEF Second, Offset
<1>2. Second * SEC \in Nat /\ now = Second * SEC + Offset
      /\ (Second + 1) * SEC = Second * SEC + SEC
  BY <1>1, SecAssumption, Z3
<1>3. CASE later = {}
  <2>1. Instant = (Second + 1) * SEC
    BY <1>3 DEF Instant
  <2> QED BY <1>1, <1>2, <2>1, SecAssumption
<1>4. CASE later # {}
  <2>1. later \subseteq Nat
    <3>1. OFFSETS \subseteq 0 .. SEC - 1 /\ SEC - 1 \in Int
      BY EnvAssumption, SecAssumption
    <3>2. \A o \in 0 .. SEC - 1 : o \in Nat
      BY <3>1
    <3> QED BY <3>1, <3>2, Zenon
  <2>2. Min(later) \in later
    BY <1>4, <2>1, MinNat
  <2>3. Min(later) \in Nat /\ Min(later) > Offset
    BY <2>1, <2>2
  <2>4. Instant = Second * SEC + Min(later)
    BY <1>4 DEF Instant
  <2> QED BY <1>1, <1>2, <2>3, <2>4
<1> QED BY <1>3, <1>4

-----------------------------------------------------------------------------
(* The loop's own state keeps its types. *)

Sentences == [fix : BOOLEAN, utc : IntOrNone]

(* What the loop needs of its own state to call the discipline properly. *)
LoopInv ==
  /\ now \in Nat
  /\ mon_edge \in 0 .. now /\ last_edge_us \in 0 .. mon_edge
  /\ uart \in Seq(Sentences) /\ Len(uart) <= UART_CAP
  /\ leap_at \in Nat

(* A sentence of the model is a sentence: its time is a second or missing   *)
(* (parse_rmc).                                                             *)
LEMMA SentenceType ==
  ASSUME LoopInv, NEW n \in Int, NEW active \in BOOLEAN
  PROVE  Sentence(n, active) \in Sentences
<1>1. Labels(n) \subseteq Int /\ Labels(n) # {}
  BY DEF Labels, LoopInv
<1>2. (CHOOSE u \in Labels(n) : TRUE) \in Int
  BY <1>1
<1> QED BY <1>2 DEF Sentence, Sentences, IntOrNone

(* The UART ring keeps sentences and its size. *)
LEMMA ReceiveInv ==
  ASSUME LoopInv, NEW s \in Sentences, Receive(s)
  PROVE  uart' \in Seq(Sentences) /\ Len(uart') <= UART_CAP
<1>1. CASE Len(uart) < UART_CAP
  <2>1. uart' = Append(uart, s)
    BY <1>1 DEF Receive
  <2>2. uart' \in Seq(Sentences) /\ Len(uart') = Len(uart) + 1
    BY <2>1, AppendProperties DEF LoopInv
  <2>3. Len(uart) \in Nat
    BY LenProperties DEF LoopInv
  <2> QED BY <1>1, <2>2, <2>3, EnvAssumption
<1>2. CASE ~(Len(uart) < UART_CAP)
  BY <1>2 DEF Receive, LoopInv
<1> QED BY <1>1, <1>2

(* Time passing leaves the discipline alone. *)
LEMMA TickStep ==
  ASSUME LoopInv, Tick
  PROVE  LoopInv' /\ TimePasses
<1>1. Instant \in Nat /\ Instant > now /\ now \in Nat
  BY InstantAhead DEF LoopInv
<1>2. Second \in Int /\ TRUE \in BOOLEAN /\ FALSE \in BOOLEAN
  BY <1>1, SecAssumption, Z3 DEF Second
<1>3. ASSUME NEW c, Passes(c)
      PROVE  now' = Instant /\ now' \in Nat /\ now' >= now
  BY <1>1, <1>3 DEF Passes
<1>4. ASSUME RecordEdge(Instant), now' = Instant
      PROVE  mon_edge' \in 0 .. now' /\ last_edge_us' \in 0 .. mon_edge'
  BY <1>1, <1>4 DEF RecordEdge, ppsVars, LoopInv
<1>5. CASE TickQuiet
  BY <1>1, <1>3, <1>5 DEF TickQuiet, LoopInv, ppsVars, TimePasses
<1>6. CASE TickEdge
  BY <1>3, <1>4, <1>6 DEF TickEdge, LoopInv, TimePasses
<1>7. CASE TickNoEdge
  BY <1>1, <1>3, <1>7 DEF TickNoEdge, LoopInv, ppsVars, TimePasses
<1>8. CASE TickStrayEdge
  BY <1>3, <1>4, <1>8 DEF TickStrayEdge, LoopInv, TimePasses
<1>9. CASE TickSentence
  <2>1. Sentence(Second, TRUE) \in Sentences
    BY <1>2, SentenceType
  <2>2. uart' \in Seq(Sentences) /\ Len(uart') <= UART_CAP
    BY <1>9, <2>1, ReceiveInv DEF TickSentence
  <2> QED BY <1>1, <1>3, <1>9, <2>2 DEF TickSentence, LoopInv, ppsVars, TimePasses
<1>10. CASE TickVoid
  <2>1. Sentence(Second, FALSE) \in Sentences
    BY <1>2, SentenceType
  <2>2. uart' \in Seq(Sentences) /\ Len(uart') <= UART_CAP
    BY <1>10, <2>1, ReceiveInv DEF TickVoid
  <2> QED BY <1>1, <1>3, <1>10, <2>2 DEF TickVoid, LoopInv, ppsVars, TimePasses
<1>11. CASE TickLost
  BY <1>1, <1>3, <1>11 DEF TickLost, LoopInv, ppsVars, TimePasses
<1>12. ASSUME NEW k \in OUTAGES, Outage(k)
       PROVE  LoopInv' /\ TimePasses
  <2>1. k \in Nat
    BY EnvAssumption
  <2>2. now' \in Nat /\ now' >= now
    <3>1. now' = now + k * SEC
      BY <1>12 DEF Outage
    <3>2. k * SEC \in Nat
      BY <2>1, SecAssumption, Z3
    <3> QED BY <1>1, <3>1, <3>2
  <2> QED BY <1>1, <1>12, <2>2 DEF Outage, LoopInv, ppsVars, TimePasses
<1> QED
  BY <1>5, <1>6, <1>7, <1>8, <1>9, <1>10, <1>11, <1>12 DEF Tick

(* A step of the loop is a call of the discipline, or none. *)
LEMMA LoopStep ==
  ASSUME LoopInv, Loop
  PROVE  LoopInv' /\ (DisciplineNext \/ UNCHANGED disciplineVars)
<1>0. RtcUtc \in Int /\ << >> \in Seq(Sentences) /\ Len(<< >>) = 0
      /\ UART_CAP \in Nat
  <2>1. Second \in Int
    BY SecAssumption, Z3 DEF Second, LoopInv
  <2> QED BY <2>1, EnvAssumption, EmptySeq DEF RtcUtc
<1>1. CASE GpsPoll
  <2> DEFINE timed == {i \in DOMAIN uart : uart[i].fix /\ uart[i].utc # NONE}
  <2>1. LoopInv'
    BY <1>0, <1>1 DEF GpsPoll, LoopInv, ppsVars, envVars
  <2>2. ASSUME NEW last \in timed
        PROVE  uart[last].utc \in Int
    <3>1. uart[last] \in Sentences
      BY <2>2, ElementOfSeq, LenProperties DEF LoopInv
    <3> QED BY <2>2, <3>1 DEF Sentences, IntOrNone
  <2>3. CASE timed = {}
    BY <1>1, <2>1, <2>3 DEF GpsPoll, disciplineVars
  <2>4. CASE timed # {}
    <3>1. PICK last \in timed : UpdateGpsUtcSeconds(uart[last].utc)
      BY <1>1, <2>4 DEF GpsPoll
    <3>2. UNCHANGED now
      BY <1>1 DEF GpsPoll
    <3> QED BY <2>1, <2>2, <3>1, <3>2 DEF DisciplineNext
  <2> QED BY <2>1, <2>3, <2>4
<1>2. CASE RtcFallback
  <2>1. LoopInv' /\ UNCHANGED now
    BY <1>2 DEF RtcFallback, LoopInv, ppsVars, envVars
  <2>3. CASE RtcFallbackDue
    BY <1>0, <1>2, <2>1, <2>3 DEF RtcFallback, DisciplineNext
  <2>4. CASE ~RtcFallbackDue
    BY <1>2, <2>1, <2>4 DEF RtcFallback, disciplineVars
  <2> QED BY <2>1, <2>3, <2>4
<1>3. CASE PpsIdle
  BY <1>3 DEF PpsIdle, LoopInv, ppsVars, envVars, disciplineVars
<1>4. ASSUME NEW enabled \in BOOLEAN, PpsPulse(enabled)
      PROVE  LoopInv' /\ DisciplineNext
  <2>1. mon_edge \in 0 .. now /\ UNCHANGED now
    BY <1>4 DEF PpsPulse, LoopInv
  <2>2. LoopInv'
    BY <1>4 DEF PpsPulse, LoopInv
  <2>3. PpsDelta(mon_edge, last_edge_us) \in Nat
    <3>1. INTERVAL_WRAP \in Nat /\ INTERVAL_WRAP > 0
      BY SecAssumption DEF INTERVAL_WRAP
    <3>2. mon_edge - last_edge_us \in Int
      BY DEF LoopInv
    <3> QED BY <3>1, <3>2, Z3 DEF PpsDelta
  <2>4. CASE last_edge_us > 0
    <3>1. ObserveDelta(PpsDelta(mon_edge, last_edge_us), mon_edge)
      BY <1>4, <2>4, Zenon DEF PpsPulse
    <3> QED BY <2>1, <2>2, <2>3, <3>1 DEF DisciplineNext
  <2>5. CASE ~(last_edge_us > 0)
    <3>1. ObserveFirst(mon_edge)
      BY <1>4, <2>5, Zenon DEF PpsPulse
    <3> QED BY <2>1, <2>2, <3>1 DEF DisciplineNext
  <2> QED BY <2>2, <2>4, <2>5
<1>5. CASE SelfCheck
  BY <1>5 DEF SelfCheck, LoopInv, ppsVars, envVars, disciplineVars
<1>6. CASE Boot
  <2>1. LoopInv' /\ UNCHANGED now
    BY <1>0, <1>6 DEF Boot, LoopInv, ppsVars, envVars
  <2>2. CASE rtc_kind = "set"
    BY <1>0, <1>6, <2>1, <2>2 DEF Boot, DisciplineNext
  <2>3. CASE rtc_kind # "set"
    BY <1>6, <2>1, <2>3 DEF Boot, disciplineVars
  <2> QED BY <2>2, <2>3
<1> QED BY <1>1, <1>2, <1>3, <1>4, <1>5, <1>6 DEF Loop

-----------------------------------------------------------------------------
(* The main loop: theorems. *)

(* The loop state stays within what the discipline may be called with:      *)
(* edges from the past, intervals that are naturals, sentences that carry a *)
(* second or none (app::run, GpsUart::poll, PpsMonitor::poll).              *)
THEOREM LoopInvHolds == Spec => []LoopInv
<1>1. Init => LoopInv
  <2> SUFFICES ASSUME Init PROVE LoopInv
    OBVIOUS
  <2>1. << >> \in Seq(Sentences) /\ Len(<< >>) = 0
    BY EmptySeq
  <2>2. leap_at \in Nat /\ UART_CAP \in Nat
    BY EnvAssumption DEF Init
  <2> QED BY <2>1, <2>2, SecAssumption DEF Init, LoopInv
<1>2. LoopInv /\ [Next]_vars => LoopInv'
  <2> SUFFICES ASSUME LoopInv, [Next]_vars PROVE LoopInv'
    OBVIOUS
  <2>1. CASE Tick
    BY <2>1, TickStep
  <2>2. CASE Loop
    BY <2>2, LoopStep
  <2>3. CASE UNCHANGED vars
    BY <2>3 DEF vars, disciplineVars, ppsVars, envVars, LoopInv
  <2> QED BY <2>1, <2>2, <2>3 DEF Next, Horizon
<1> QED BY <1>1, <1>2, PTL DEF Spec

(* The firmware's time path implements the discipline's specification: the  *)
(* main loop, with its stalls, lost sentences, stray and missing edges,     *)
(* never does to the clock what DisciplineNext does not allow (app::run).   *)
THEOREM ImplementsDiscipline == Spec => DisciplineSpec
<1>1. Init => now \in Nat /\ DisciplineInit
  BY SecAssumption DEF Init
<1>2. LoopInv /\ [Next]_vars => [DisciplineNext]_disciplineVars
  <2> SUFFICES ASSUME LoopInv, [Next]_vars
               PROVE  DisciplineNext \/ UNCHANGED disciplineVars
    OBVIOUS
  <2>1. CASE Tick
    BY <2>1, TickStep DEF DisciplineNext
  <2>2. CASE Loop
    BY <2>2, LoopStep
  <2>3. CASE UNCHANGED vars
    BY <2>3 DEF vars
  <2> QED BY <2>1, <2>2, <2>3 DEF Next, Horizon
<1> QED BY <1>1, <1>2, LoopInvHolds, PTL DEF Spec, DisciplineSpec

(* Hence stratum 1 is only served from a PPS-disciplined anchor, however    *)
(* the RTC, the sentences and the edges arrive at the main loop.            *)
THEOREM FirmwareStratum1 == Spec => []Stratum1Disciplined
BY ImplementsDiscipline, Stratum1Holds, PTL

(* And holdover ends on time, whatever the loop was blocked on.             *)
THEOREM FirmwareHoldover == Spec => []HoldoverEndsOnTime
BY ImplementsDiscipline, HoldoverEndsOnTimeHolds, PTL

(* And no answer carries a time before its reference timestamp.             *)
THEOREM FirmwareReference == Spec => []ServedNotBeforeReference
BY ImplementsDiscipline, ServedNotBeforeReferenceHolds, PTL

-----------------------------------------------------------------------------
(* The second accounting: arithmetic. *)

(* A product with a factor within -500 .. 500. *)
LEMMA PpmProduct ==
  ASSUME NEW q \in Nat, NEW ppm \in Int, -500 <= ppm, ppm <= 500
  PROVE  q * ppm \in -(500 * q) .. 500 * q
<1>1. PICK d \in Nat : 500 = ppm + d
  <2>1. 500 - ppm \in Nat /\ 500 = ppm + (500 - ppm)
    OBVIOUS
  <2> QED BY <2>1
<1>2. PICK e \in Nat : ppm = e - 500
  <2>1. ppm + 500 \in Nat /\ ppm = (ppm + 500) - 500
    OBVIOUS
  <2> QED BY <2>1
<1>3. q * d \in Nat /\ q * e \in Nat /\ q * ppm \in Int
  BY Z3T(20)
<1>4. 500 * q = q * ppm + q * d
  BY <1>1, Z3T(20)
<1>5. q * ppm = q * e - 500 * q
  BY <1>2, Z3T(20)
<1> QED BY <1>3, <1>4, <1>5

(* Quotient and remainder of a number known to lie in a second. *)
LEMMA DivIs ==
  ASSUME NEW n \in Nat \ {0}, NEW k \in Int, NEW r \in 0 .. n - 1
  PROVE  (k * n + r) \div n = k
<1> DEFINE x == k * n + r
           q == x \div n
           s == x % n
<1>1. x \in Int
  BY Z3T(20)
<1>2. q \in Int /\ s \in 0 .. n - 1 /\ x = n * q + s
  BY <1>1, Z3T(20)
<1> HIDE DEF q, s
<1>3. (k - q) * n = s - r
  BY <1>1, <1>2, Z3T(20)
<1>4. CASE k - q >= 1
  <2>1. (k - q) * n >= n
    BY <1>2, <1>4, Z3T(20)
  <2> QED BY <1>2, <1>3, <2>1
<1>5. CASE k - q <= -1
  <2>1. (k - q) * n <= -n
    BY <1>2, <1>5, Z3T(20)
  <2> QED BY <1>2, <1>3, <2>1
<1> QED BY <1>2, <1>4, <1>5 DEF q

(* A number is its seconds and what is left. *)
LEMMA DivMod ==
  ASSUME NEW n \in Nat \ {0}, NEW x \in Int
  PROVE  /\ x \div n \in Int /\ x % n \in 0 .. n - 1
         /\ x = (x \div n) * n + (x % n)
BY Z3T(20)

(* The frequency correction is at most 500 ppm and two ticks of rounding    *)
(* (corrected_elapsed_us).                                                  *)
LEMMA ElapsedNear ==
  ASSUME NEW raw \in Int, NEW ppm \in Int, -500 <= ppm, ppm <= 500
  PROVE  /\ CorrectedElapsed(raw, ppm) \in Nat
         /\ raw >= 0 =>
              /\ 2000 * (CorrectedElapsed(raw, ppm) - raw) <= raw + 4000
              /\ 2000 * (raw - CorrectedElapsed(raw, ppm)) <= raw + 4000
         /\ raw < 0 => CorrectedElapsed(raw, ppm) <= 2
<1> DEFINE a == raw % 1000
           q == raw \div 1000
           A == a * ppm
           Q == q * ppm
           b == (-A) \div 1000
           c == (b - Q) \div 1000
<1>1. a \in Nat /\ a < 1000 /\ q \in Int /\ raw = 1000 * q + a
  BY Z3T(20)
<1>2. A \in Int /\ -499500 <= A /\ A <= 499500
  <2>1. a \in Nat /\ a * ppm \in -(500 * a) .. 500 * a
    BY <1>1, PpmProduct
  <2> QED BY <1>1, <2>1
<1>3. Q \in Int /\ (q >= 0 => Q \in -(500 * q) .. 500 * q) /\ (q < 0 => Q \in 500 * q .. -(500 * q))
  <2>1. CASE q >= 0
    BY <1>1, <2>1, PpmProduct
  <2>2. CASE q < 0
    <3>1. -q \in Nat
      BY <1>1, <2>2
    <3>2. (-q) * ppm \in -(500 * (-q)) .. 500 * (-q)
      BY <3>1, PpmProduct
    <3>3. (-q) * ppm = -(q * ppm) /\ q * ppm \in Int
      BY <1>1, Z3T(20)
    <3> QED BY <1>1, <2>2, <3>2, <3>3
  <2> QED BY <1>1, <2>1, <2>2
<1>4. CorrectedElapsed(raw, ppm) = Higher(0, raw + c)
  BY DEF CorrectedElapsed
<1> HIDE DEF a, q, A, Q
<1>5. b \in Int /\ 1000 * b <= -A /\ -A < 1000 * b + 1000
  BY <1>2
<1> HIDE DEF b
<1>6. c \in Int /\ 1000 * c <= b - Q /\ b - Q < 1000 * c + 1000
  BY <1>3, <1>5
<1> HIDE DEF c
<1>7. -500 <= b /\ b <= 499
  BY <1>2, <1>5
<1>8. CASE raw >= 0
  <2>1. q >= 0 /\ 1000 * q <= raw
    BY <1>1, <1>8
  <2>2. Q \in Int /\ -(500 * q) <= Q /\ Q <= 500 * q
    BY <1>1, <1>3, <2>1
  <2>4. 2000 * c >= -(1000 * q) - 4000 /\ 2000 * c <= 1000 * q + 4000
    BY <1>1, <1>5, <1>6, <1>7, <2>2
  <2>3. 2000 * c >= -(raw + 4000) /\ 2000 * c <= raw + 4000
    BY <1>1, <1>6, <2>1, <2>4
  <2> QED BY <1>4, <1>6, <1>8, <2>3 DEF Higher
<1>9. CASE raw < 0
  <2>1. q < 0 /\ raw <= 1000 * q + 999
    BY <1>1, <1>9
  <2>4. Q \in Int /\ 500 * q <= Q
    BY <1>1, <1>3, <2>1
  <2>2. 2000 * c <= -(1000 * q) + 2000
    BY <1>1, <1>5, <1>6, <1>7, <2>4
  <2>3. 2 * (raw + c) <= 2 * (1000 * q + 999) - q + 2
    BY <1>1, <1>6, <2>1, <2>2
  <2> QED BY <1>1, <1>4, <1>6, <1>9, <2>1, <2>2 DEF Higher
<1> QED BY <1>1, <1>8, <1>9

-----------------------------------------------------------------------------
(* The second accounting: the environment it is right in. *)

(* The loop blocks at most while it boots, no second is inserted, the edge  *)
(* after a sentence starts the second after the sentence's, and an edge is  *)
(* displaced by at most an eighth of a second and never past the sentence.  *)
TimelyEnvironment ==
  /\ STALLS \subseteq {"boot"}
  /\ LEAPS \subseteq {0}
  /\ NMEA_PPS_FUDGE_S = 1
  /\ SEC >= 1000
  /\ \A o \in LATE : o < NMEA_AT /\ 8 * o <= SEC

(* Ten minutes at most since the last accepted pulse. *)
PulsesKeepComing == pps_locked => now - last_pps_monotonic_us <= 600 * SEC

(* A sentence is stamped in the second it names. *)
SentenceOnTime ==
  last_gps_utc_update_us # NONE =>
    /\ last_gps_utc_update_us % SEC = NMEA_AT
    /\ last_gps_utc_seconds = last_gps_utc_update_us \div SEC

EdgeOnTime(edge) == edge % SEC \in LATE \cup {0}

(* The anchor lies within -25 and +150 ms of the second it names and within *)
(* a nudge of the pulse that set it.                                        *)
AnchorNear ==
  /\ clock_anchor \in Anchor /\ last_pps_monotonic_us \in Int
  /\ -SEC <= 40 * (clock_anchor.mono - clock_anchor.unix * SEC)
  /\ 40 * (clock_anchor.mono - clock_anchor.unix * SEC) <= 6 * SEC
  /\ -SEC <= 40 * (clock_anchor.mono - last_pps_monotonic_us)
  /\ 40 * (clock_anchor.mono - last_pps_monotonic_us) <= SEC

(* An edge comes at most an eighth of a second late. *)
LEMMA DisplacedEdge ==
  ASSUME TimelyEnvironment, NEW edge \in Int, EdgeOnTime(edge)
  PROVE  8 * (edge % SEC) <= SEC
<1>1. CASE edge % SEC = 0
  BY <1>1, SecAssumption
<1>2. CASE edge % SEC \in LATE
  BY <1>2 DEF TimelyEnvironment
<1> QED BY <1>1, <1>2 DEF EdgeOnTime

(* An edge that is on time starts the second after the last sentence's, or  *)
(* as many seconds later as have passed (gps_second_at_edge).               *)
LEMMA PairedSecondRight ==
  ASSUME TimelyEnvironment, DisciplineTypeOK, SentenceOnTime,
         NEW edge \in Int, EdgeOnTime(edge)
  PROVE  GpsSecondAtEdge(edge) \in {NONE, edge \div SEC}
<1> SUFFICES ASSUME GpsTimeFresh(edge)
             PROVE  GpsSecondAtEdge(edge) = edge \div SEC
  BY DEF GpsSecondAtEdge
<1> DEFINE upd == last_gps_utc_update_us
           E == edge \div SEC
           d == edge % SEC
           U == upd \div SEC
<1>1. upd \in Int /\ upd % SEC = NMEA_AT /\ last_gps_utc_seconds = U
  BY DEF GpsTimeFresh, SentenceOnTime, DisciplineTypeOK, IntOrNone
<1>2. NMEA_AT \in Int /\ NMEA_AT > 0 /\ NMEA_AT < SEC /\ SEC \in Nat \ {0}
  BY EnvAssumption, SecAssumption
<1>3. U \in Int /\ upd = U * SEC + NMEA_AT
  BY <1>1, <1>2, DivMod
<1>4. E \in Int /\ d \in 0 .. SEC - 1 /\ edge = E * SEC + d
  BY <1>2, DivMod
<1>5. d < NMEA_AT
  BY <1>2 DEF EdgeOnTime, TimelyEnvironment
<1> HIDE DEF upd, E, d, U
<1>6. edge - upd = (E - U - 1) * SEC + (SEC + d - NMEA_AT)
  BY <1>2, <1>3, <1>4, Z3T(20)
<1>7. E - U - 1 \in Int /\ SEC + d - NMEA_AT \in 0 .. SEC - 1
  BY <1>2, <1>3, <1>4, <1>5
<1>8. (edge - upd) \div SEC = E - U - 1
  BY <1>2, <1>6, <1>7, DivIs
<1>9. GpsSecondAtEdge(edge) = U + (E - U - 1) + 1
  BY <1>1, <1>8 DEF GpsSecondAtEdge, TimelyEnvironment, upd
<1> QED BY <1>3, <1>4, <1>9 DEF E

(* Within ten minutes of the pulse that set it, the anchor predicts the     *)
(* second of an edge that is on time, whatever the frequency estimate       *)
(* within its clamp (the rounding of observe_pps_pulse).                    *)
LEMMA PredictedSecondRight ==
  ASSUME TimelyEnvironment, AnchorNear,
         NEW edge \in Int, EdgeOnTime(edge), NEW ppm \in Int, -500 <= ppm, ppm <= 500,
         last_pps_monotonic_us <= edge,
         edge - last_pps_monotonic_us <= 600 * SEC
  PROVE  PredictedSecond(edge, ppm) = edge \div SEC
<1> DEFINE E == edge \div SEC
           d == edge % SEC
           M == clock_anchor.unix
           K == (E - M) * SEC
           m == clock_anchor.mono - M * SEC
           raw == edge - clock_anchor.mono
           C == CorrectedElapsed(raw, ppm)
           h == SEC \div 2
<1>1. SEC \in Nat \ {0} /\ SEC >= 1000
  BY SecAssumption DEF TimelyEnvironment
<1>2. E \in Int /\ d \in 0 .. SEC - 1 /\ edge = E * SEC + d
  BY <1>1, DivMod
<1>3. 8 * d <= SEC
  BY DisplacedEdge
<1>4. M \in Int /\ clock_anchor.mono \in Int /\ M * SEC \in Int
  BY <1>1 DEF AnchorNear, Anchor
<1>5. m \in Int /\ -SEC <= 40 * m /\ 40 * m <= 6 * SEC
  BY <1>4 DEF AnchorNear
<1>6. raw \in Int /\ 40 * raw >= -SEC /\ 40 * raw <= 24001 * SEC
  BY <1>1, <1>4 DEF AnchorNear
<1>7. raw = edge - clock_anchor.mono /\ m = clock_anchor.mono - M * SEC
  OBVIOUS
<1> HIDE DEF E, d, M, m, raw
<1>8. K \in Int /\ K = E * SEC - M * SEC /\ raw = K + d - m
  <2>1. K \in Int /\ K = E * SEC - M * SEC
    BY <1>1, <1>2, <1>4, Z3T(20)
  <2> HIDE DEF K
  <2> QED BY <1>1, <1>2, <1>4, <1>7, <2>1
<1>9. /\ C \in Nat
      /\ raw >= 0 => 2000 * (C - raw) <= raw + 4000 /\ 2000 * (raw - C) <= raw + 4000
      /\ raw < 0 => C <= 2
  BY <1>6, ElapsedNear
<1>10. h \in Int /\ 2 * h <= SEC /\ 2 * h >= SEC - 1
  BY <1>1
<1>11. PredictedSecond(edge, ppm) = M + ((C + h) \div SEC)
  BY DEF PredictedSecond, M, raw
<1> HIDE DEF C, h
<1>12. E - M >= 0
  <2>1. E - M <= -1 => K <= -SEC
    BY <1>1, <1>2, <1>4, Z3T(20)
  <2> QED BY <1>1, <1>2, <1>3, <1>4, <1>5, <1>6, <1>8, <2>1
<1>13. C + h - K \in 0 .. SEC - 1
  <2>1. CASE raw >= 0
    <3> DEFINE e == C - raw
    <3>1. e \in Int /\ 2000 * e >= -(raw + 4000) /\ 2000 * e <= raw + 4000
      BY <1>6, <1>9, <2>1
    <3>2. C + h - K = e + d - m + h
      BY <1>2, <1>5, <1>6, <1>8, <1>9, <1>10
    <3> HIDE DEF e
    <3> QED BY <1>1, <1>2, <1>3, <1>5, <1>6, <1>10, <3>1, <3>2
  <2>2. CASE raw < 0
    <3>1. E - M >= 1 => K >= SEC
      BY <1>1, <1>2, <1>4, Z3T(20)
    <3>2. E - M = 0 => K = 0
      BY <1>1, Z3T(20)
    <3>3. K = 0
      BY <1>1, <1>2, <1>3, <1>4, <1>5, <1>6, <1>8, <1>12, <2>2, <3>1, <3>2
    <3> QED BY <1>1, <1>9, <1>10, <2>2, <3>3
  <2> QED BY <1>6, <2>1, <2>2
<1>14. C + h = (E - M) * SEC + (C + h - K)
  BY <1>8, <1>9, <1>10
<1> HIDE DEF K
<1>15. (C + h) \div SEC = E - M
  BY <1>1, <1>2, <1>4, <1>13, <1>14, DivIs
<1> QED BY <1>2, <1>4, <1>11, <1>15 DEF E

(* The phase nudge of an accepted pulse is at most a fortieth of a second   *)
(* (a tenth of an interval's error of at most 200 ms).                      *)
LEMMA NudgeSmall ==
  ASSUME TimelyEnvironment, NEW interval \in Int, InRange(interval)
  PROVE  LET nudge == Truncated(PhaseError(interval), SERVO_KP_INV)
         IN  nudge \in Int /\ -SEC <= 40 * nudge /\ 40 * nudge <= SEC
<1> DEFINE err == PhaseError(interval)
<1>1. SEC \in Nat /\ SEC >= 1000
  BY SecAssumption DEF TimelyEnvironment
<1>2. /\ MIN_INTERVAL \in Int /\ 10 * MIN_INTERVAL > 8 * SEC - 10
      /\ MAX_INTERVAL \in Int /\ 10 * MAX_INTERVAL <= 12 * SEC
  BY <1>1 DEF MIN_INTERVAL, MAX_INTERVAL
<1>3. interval >= MIN_INTERVAL /\ interval <= MAX_INTERVAL
  BY <1>2 DEF InRange
<1>4. err \in Int /\ 10 * err > -(2 * SEC) - 10 /\ 10 * err <= 2 * SEC
  BY <1>1, <1>2, <1>3 DEF PhaseError
<1> HIDE DEF err
<1>5. CASE err < 0
  <2>1. Truncated(err, SERVO_KP_INV) = -((-err) \div 10)
    BY <1>5 DEF Truncated, SERVO_KP_INV
  <2>2. (-err) \div 10 \in Int /\ 10 * ((-err) \div 10) <= -err /\ (-err) \div 10 >= 0
    BY <1>4, <1>5
  <2> QED BY <1>1, <1>4, <2>1, <2>2 DEF err
<1>6. CASE ~(err < 0)
  <2>1. Truncated(err, SERVO_KP_INV) = err \div 10
    BY <1>6 DEF Truncated, SERVO_KP_INV
  <2>2. err \div 10 \in Int /\ 10 * (err \div 10) <= err /\ err \div 10 >= 0
    BY <1>4, <1>6
  <2> QED BY <1>1, <1>4, <2>1, <2>2 DEF err
<1> QED BY <1>5, <1>6

(* A near anchor that is at most 11 s old gives the time within a second    *)
(* (current_utc_unix_seconds).                                              *)
LEMMA ServedSecondNear ==
  ASSUME TimelyEnvironment,
         NEW M \in Int, NEW mono \in Int, NEW t \in Int,
         NEW ppm \in Int, -500 <= ppm, ppm <= 500,
         -SEC <= 40 * (mono - M * SEC), 40 * (mono - M * SEC) <= 6 * SEC,
         -SEC <= 40 * (t - mono), t - mono <= 11 * SEC
  PROVE  Magnitude((M + (CorrectedElapsed(t - mono, ppm) \div SEC)) - (t \div SEC)) <= 1
<1> DEFINE raw == t - mono
           C == CorrectedElapsed(raw, ppm)
           c == C \div SEC
           r == C % SEC
           T == t \div SEC
           o == t % SEC
           K == (M + c - T) * SEC
           m == mono - M * SEC
<1>1. SEC \in Nat \ {0} /\ SEC >= 1000
  BY SecAssumption DEF TimelyEnvironment
<1>2. raw \in Int /\ -SEC <= 40 * raw /\ raw <= 11 * SEC /\ raw = t - mono
  OBVIOUS
<1>3. M * SEC \in Int /\ m = mono - M * SEC /\ m \in Int
  BY <1>1
<1> HIDE DEF raw
<1>4. /\ C \in Nat
      /\ raw >= 0 => 2000 * (C - raw) <= raw + 4000 /\ 2000 * (raw - C) <= raw + 4000
      /\ raw < 0 => C <= 2
  <2>1. raw \in Int
    BY <1>2
  <2>2. C \in Nat
    BY <2>1, ElapsedNat
  <2>3. raw < 0 => C <= 2
    BY <2>1, ElapsedNear
  <2>4. raw >= 0 => 2000 * (C - raw) <= raw + 4000
    BY <2>1, ElapsedNear
  <2>5. raw >= 0 => 2000 * (raw - C) <= raw + 4000
    BY <2>1, ElapsedNear
  <2> QED BY <2>2, <2>3, <2>4, <2>5
<1> HIDE DEF C
<1>5. c \in Int /\ r \in 0 .. SEC - 1 /\ C = c * SEC + r
  BY <1>1, <1>4, DivMod
<1>6. T \in Int /\ o \in 0 .. SEC - 1 /\ t = T * SEC + o
  BY <1>1, DivMod
<1> HIDE DEF c, r, T, o
<1>7. K \in Int /\ K = M * SEC + c * SEC - T * SEC
  BY <1>1, <1>5, <1>6, Z3T(20)
<1>8. /\ M + c - T >= 2 => K >= 2 * SEC
      /\ M + c - T <= -2 => K <= -(2 * SEC)
  BY <1>1, <1>5, <1>6, Z3T(20)
<1> HIDE DEF K, m
<1>9. -SEC <= 40 * m /\ 40 * m <= 6 * SEC
  BY DEF m
<1>10. K = (C - raw) - m + o - r
  BY <1>1, <1>2, <1>3, <1>4, <1>5, <1>6, <1>7
<1>11. 10 * (C - raw) <= SEC /\ 10 * (raw - C) <= SEC
  BY <1>1, <1>2, <1>4
<1>12. -(2 * SEC) < K /\ K < 2 * SEC
  BY <1>1, <1>2, <1>3, <1>4, <1>5, <1>6, <1>9, <1>10, <1>11
<1>13. M + c - T \in Int /\ M + c - T <= 1 /\ M + c - T >= -1
  BY <1>1, <1>5, <1>6, <1>7, <1>8, <1>12
<1> QED BY <1>5, <1>6, <1>13 DEF Magnitude, c, T, C, raw

-----------------------------------------------------------------------------
(* The second accounting: the inductive invariant. *)

(* What waits in the UART ring was received at this instant, but for the    *)
(* backlog of the boot, which Boot drops.                                   *)
UartFresh ==
  uart # <<>> =>
    \/ pc = "boot"
    \/ /\ pc = "gps" /\ Offset = NMEA_AT
       /\ \A i \in DOMAIN uart : uart[i].utc = Second

(* The first fix is acted upon in the pass that found it. *)
FirstFixNow ==
  fix /\ ~first_fix_logged =>
    pc \in {"rtc", "pps", "check"} /\ utc_unix_seconds = Second

AnchorKept == pps_locked => AnchorNear /\ last_pps_monotonic_us <= mon_edge

SecondInv ==
  /\ leap_at = 0 /\ now >= SEC
  /\ UartFresh
  /\ SentenceOnTime
  /\ EdgeOnTime(mon_edge)
  /\ AnchorKept
  /\ FirstFixNow
  /\ RtcRequestIsGpsTime

(* An instant within a second belongs to the second that is running. *)
LEMMA InstantSecond ==
  ASSUME now \in Nat, Instant % SEC # 0
  PROVE  Instant \div SEC = Second
<1> DEFINE later == {o \in OFFSETS : o > Offset}
<1>1. SEC \in Nat \ {0} /\ Second \in Int /\ Offset \in 0 .. SEC - 1
  BY SecAssumption, DivMod DEF Second, Offset
<1>2. later # {}
  <2> SUFFICES ASSUME later = {} PROVE FALSE
    OBVIOUS
  <2>1. Instant = (Second + 1) * SEC + 0
    BY <1>1, Z3T(20) DEF Instant
  <2>2. Second + 1 \in Int /\ 0 \in 0 .. SEC - 1
    BY <1>1
  <2>3. Instant \div SEC = Second + 1
    BY <1>1, <2>1, <2>2, DivIs
  <2>4. (Second + 1) * SEC \in Int
    BY <1>1
  <2>5. Instant \in Int
    BY <2>1, <2>4
  <2>6. Instant = (Instant \div SEC) * SEC + (Instant % SEC) /\ Instant % SEC \in Int
    BY <1>1, <2>5, DivMod
  <2> QED BY <2>1, <2>3, <2>4, <2>6
<1>3. Min(later) \in later
  <2>1. later \subseteq Nat
    <3>1. \A o \in 0 .. SEC - 1 : o \in Nat
      BY <1>1
    <3> QED BY <3>1, EnvAssumption, Zenon
  <2> QED BY <1>2, <2>1, MinNat
<1>4. Min(later) \in 0 .. SEC - 1
  BY <1>3, EnvAssumption
<1>5. Instant = Second * SEC + Min(later)
  BY <1>2 DEF Instant
<1> QED BY <1>1, <1>4, <1>5, DivIs

(* Without an inserted second a sentence names the second it is sent in. *)
LEMMA SentenceSecond ==
  ASSUME leap_at = 0, now >= SEC, now \in Nat, NEW active \in BOOLEAN
  PROVE  Sentence(Second, active).utc = Second
<1>1. Second \in Int /\ Second # 0
  <2>1. Second \in Int /\ Offset \in 0 .. SEC - 1 /\ now = Second * SEC + Offset
    BY SecAssumption, DivMod DEF Second, Offset
  <2>2. Second = 0 => Second * SEC = 0
    BY SecAssumption
  <2> QED BY <2>1, <2>2, SecAssumption
<1>2. Labels(Second) = {Second}
  BY DEF Labels
<1> QED BY <1>1, <1>2 DEF Sentence

(* Time passes: what arrives is on time. *)
LEMMA SecondTick ==
  ASSUME TimelyEnvironment, LoopInv, SecondInv, Tick
  PROVE  SecondInv'
<1>1. LoopInv' /\ TimePasses
  BY TickStep
<1>2. Instant \in Nat /\ Instant > now /\ now \in Nat
  BY InstantAhead DEF LoopInv
<1>3. UNCHANGED <<ntpVars, fix, utc_unix_seconds, first_fix_logged, rtc_request, leap_at>>
  BY DEF Tick, TickQuiet, TickEdge, TickNoEdge, TickStrayEdge, TickSentence,
         TickVoid, TickLost, Outage, envVars, loopVars
<1>4. /\ mon_edge' \in Int /\ mon_edge' >= mon_edge /\ mon_edge \in Int
      /\ EdgeOnTime(mon_edge)'
  <2>1. mon_edge \in Int /\ mon_edge <= now
    BY <1>2 DEF LoopInv
  <2>2. mon_edge' = mon_edge \/ (mon_edge' = Instant /\ Instant % SEC \in LATE \cup {0})
    BY DEF Tick, TickQuiet, TickEdge, TickNoEdge, TickStrayEdge, TickSentence,
           TickVoid, TickLost, Outage, RecordEdge, ppsVars
  <2> QED BY <1>2, <2>1, <2>2 DEF EdgeOnTime, SecondInv
<1>5. /\ pc \in {"boot", "sleep"}
      /\ pc = "boot" => pc' = "boot"
      /\ pc = "sleep" => pc' \in {"sleep", "gps"}
  <2>1. ASSUME NEW c, Passes(c)
        PROVE  (pc = "boot" /\ pc' = "boot") \/ (pc = "sleep" /\ pc' = "gps")
    BY <2>1 DEF Passes, TimelyEnvironment
  <2>2. (\E c \in {0, 1} : Passes(c)) \/ (pc = "sleep" /\ pc' = pc)
    BY DEF Tick, TickQuiet, TickEdge, TickNoEdge, TickStrayEdge, TickSentence,
           TickVoid, TickLost, Outage
  <2> QED BY <2>1, <2>2
<1>6. UartFresh'
  <2> SUFFICES ASSUME uart' # <<>>, pc' # "boot"
               PROVE  /\ pc' = "gps" /\ Offset' = NMEA_AT
                      /\ \A i \in DOMAIN uart' : uart'[i].utc = Second'
    BY DEF UartFresh
  <2>1. pc = "sleep" /\ uart = <<>>
    BY <1>5 DEF SecondInv, UartFresh
  <2>2. PICK active \in BOOLEAN : /\ Instant % SEC = NMEA_AT /\ Passes(IF active THEN 0 ELSE 1)
                                  /\ Receive(Sentence(Second, active))
    BY <2>1 DEF Tick, TickQuiet, TickEdge, TickNoEdge, TickStrayEdge, TickSentence,
                TickVoid, TickLost, Outage
  <2>3. now' = Instant /\ pc' = "gps"
    BY <2>1, <2>2 DEF Passes
  <2>4. Offset' = NMEA_AT
    BY <2>2, <2>3 DEF Offset
  <2>5. Second' = Second
    BY <1>2, <2>2, <2>3, InstantSecond, EnvAssumption DEF Second
  <2>6. uart' = Append(<<>>, Sentence(Second, active))
    BY <2>1, <2>2, EnvAssumption DEF Receive
  <2>7. Sentence(Second, active).utc = Second
    BY <1>2, SentenceSecond DEF SecondInv
  <2> HIDE DEF Sentence
  <2>8. DOMAIN uart' = {1} /\ uart'[1] = Sentence(Second, active)
    BY <2>6
  <2> QED BY <2>3, <2>4, <2>5, <2>7, <2>8
<1>7. SentenceOnTime'
  BY <1>3 DEF ntpVars, gpsRecord, SentenceOnTime, SecondInv
<1>8. AnchorKept'
  BY <1>3, <1>4 DEF ntpVars, lastPulse, AnchorKept, AnchorNear, SecondInv
<1>9. FirstFixNow'
  BY <1>3, <1>5 DEF FirstFixNow, SecondInv
<1>10. RtcRequestIsGpsTime'
  BY <1>3 DEF RtcRequestIsGpsTime, SecondInv
<1>11. leap_at' = 0 /\ now' >= SEC
  BY <1>1, <1>2, <1>3, SecAssumption DEF SecondInv, TimePasses
<1> QED BY <1>4, <1>6, <1>7, <1>8, <1>9, <1>10, <1>11 DEF SecondInv
(* Aligning the anchor to an edge, with the second the sentence gives it or *)
(* by the servo with the second it predicts, keeps it near                  *)
(* (lock_anchor and the accept path of observe_pps_pulse).                  *)
LEMMA AnchorAtEdge ==
  ASSUME TimelyEnvironment, NEW edge \in Int, EdgeOnTime(edge),
         NEW nudge \in Int, -SEC <= 40 * nudge, 40 * nudge <= SEC,
         clock_anchor' = AnchorAt(edge \div SEC, edge - nudge),
         last_pps_monotonic_us' = edge
  PROVE  AnchorNear'
<1> DEFINE E == edge \div SEC
           d == edge % SEC
<1>1. SEC \in Nat \ {0}
  BY SecAssumption
<1>2. E \in Int /\ d \in 0 .. SEC - 1 /\ edge = E * SEC + d
  BY <1>1, DivMod
<1>3. 8 * d <= SEC
  BY DisplacedEdge
<1>4. /\ clock_anchor' \in Anchor
      /\ clock_anchor'.unix = E /\ clock_anchor'.mono = edge - nudge
  BY <1>2 DEF Anchor, AnchorAt
<1> HIDE DEF E, d
<1>5. E * SEC \in Int
  BY <1>1, <1>2
<1>6. clock_anchor'.mono - clock_anchor'.unix * SEC = d - nudge
  BY <1>2, <1>4, <1>5
<1>7. clock_anchor'.mono - last_pps_monotonic_us' = -nudge
  BY <1>4
<1> QED BY <1>1, <1>2, <1>3, <1>4, <1>6, <1>7 DEF AnchorNear

(* A pulse that locks the clock. *)
LEMMA LockNear ==
  ASSUME TimelyEnvironment, LoopInv, DisciplineInv, SecondInv,
         UNCHANGED mon_edge, LockIfFresh(mon_edge)
  PROVE  AnchorKept' /\ UNCHANGED gpsRecord
<1>1. CASE GpsSecondAtEdge(mon_edge) = NONE
  BY <1>1 DEF LockIfFresh, ntpVars, lastPulse, SecondInv, AnchorKept, AnchorNear
<1>2. CASE GpsSecondAtEdge(mon_edge) # NONE
  <2>1. mon_edge \in Int /\ 0 \in Int /\ SEC \in Nat
    BY SecAssumption DEF LoopInv
  <2>2. GpsSecondAtEdge(mon_edge) = mon_edge \div SEC
    BY <1>2, <2>1, PairedSecondRight DEF SecondInv, DisciplineInv
  <2>3. LockAnchor(mon_edge \div SEC, mon_edge)
    BY <1>2, <2>2 DEF LockIfFresh
  <2>4. /\ clock_anchor' = AnchorAt(mon_edge \div SEC, mon_edge - 0)
        /\ last_pps_monotonic_us' = mon_edge /\ UNCHANGED gpsRecord
    BY <2>1, <2>3 DEF LockAnchor
  <2>5. AnchorNear'
    BY <2>1, <2>4, AnchorAtEdge DEF SecondInv
  <2> QED BY <2>1, <2>4, <2>5 DEF AnchorKept
<1> QED BY <1>1, <1>2

(* A pulse that the servo accepts: the second it predicts is right and the  *)
(* sentence agrees, so the anchor is the edge in its second, nudged.        *)
LEMMA AcceptedSecond ==
  ASSUME TimelyEnvironment, LoopInv, DisciplineInv, SecondInv, PulsesKeepComing,
         NEW interval \in Nat, AcceptPulse(interval, mon_edge)
  PROVE  /\ clock_anchor' = AnchorAt(mon_edge \div SEC,
                                     mon_edge - Truncated(PhaseError(interval), SERVO_KP_INV))
         /\ last_pps_monotonic_us' = mon_edge /\ UNCHANGED gpsRecord
<1> DEFINE err  == PhaseError(interval)
           ppm  == NewFreq(err * TICK_US)
           E    == mon_edge \div SEC
           pred == PredictedSecond(mon_edge, ppm)
           gps  == GpsSecondAtEdge(mon_edge)
           nudge == Truncated(err, SERVO_KP_INV)
<1>1. /\ mon_edge \in Int /\ now \in Int /\ mon_edge <= now /\ SEC \in Nat \ {0}
      /\ EdgeOnTime(mon_edge) /\ pps_locked /\ InRange(interval) /\ interval \in Int
  BY SecAssumption DEF LoopInv, SecondInv, AcceptPulse
<1>2. /\ AnchorNear /\ last_pps_monotonic_us \in Int
      /\ last_pps_monotonic_us <= mon_edge
      /\ now - last_pps_monotonic_us <= 600 * SEC
  BY <1>1 DEF SecondInv, AnchorKept, AnchorNear, PulsesKeepComing
<1>3. mon_edge - last_pps_monotonic_us <= 600 * SEC
  BY <1>1, <1>2
<1>4. err \in Int /\ err * TICK_US \in Int
  BY <1>1, TickNat DEF PhaseError
<1>5. freq_ppm \in Int
  BY DEF DisciplineInv, DisciplineTypeOK, SERVO_MAX_FREQ_PPM
<1>6. ppm \in Int /\ -500 <= ppm /\ ppm <= 500
  <2> HIDE DEF err
  <2>1. ppm \in -SERVO_MAX_FREQ_PPM .. SERVO_MAX_FREQ_PPM
    BY <1>4, <1>5, NewFreqRange
  <2> QED BY <2>1 DEF SERVO_MAX_FREQ_PPM
<1>7. SecondOfEdge(pred, gps).unix = SecondOfEdge(E, gps).unix
      /\ gps \in {NONE, E} /\ E \in Int
  <2> HIDE DEF ppm
  <2>1. pred = E
    BY <1>1, <1>2, <1>3, <1>6, PredictedSecondRight
  <2>2. gps \in {NONE, E}
    BY <1>1, PairedSecondRight DEF SecondInv, DisciplineInv
  <2> QED BY <1>1, <2>1, <2>2
<1>8. /\ clock_anchor' = AnchorAt(SecondOfEdge(pred, gps).unix, mon_edge - nudge)
      /\ last_pps_monotonic_us' = mon_edge /\ UNCHANGED gpsRecord
  BY DEF AcceptPulse
<1> HIDE DEF nudge, pred, gps, E
<1>9. SecondOfEdge(E, gps).unix = E
  BY <1>7 DEF SecondOfEdge
<1> QED BY <1>7, <1>8, <1>9 DEF E, nudge

(* The nudge is small, so the anchor stays near.                            *)
LEMMA AcceptNear ==
  ASSUME TimelyEnvironment, LoopInv, DisciplineInv, SecondInv, PulsesKeepComing,
         UNCHANGED mon_edge, NEW interval \in Nat, AcceptPulse(interval, mon_edge)
  PROVE  AnchorKept' /\ UNCHANGED gpsRecord
<1> DEFINE nudge == Truncated(PhaseError(interval), SERVO_KP_INV)
<1>1. mon_edge \in Int /\ EdgeOnTime(mon_edge) /\ InRange(interval) /\ interval \in Int
  BY DEF LoopInv, SecondInv, AcceptPulse
<1>2. nudge \in Int /\ -SEC <= 40 * nudge /\ 40 * nudge <= SEC
  BY <1>1, NudgeSmall
<1>3. /\ clock_anchor' = AnchorAt(mon_edge \div SEC, mon_edge - nudge)
      /\ last_pps_monotonic_us' = mon_edge /\ UNCHANGED gpsRecord
  BY AcceptedSecond
<1> HIDE DEF nudge
<1>4. AnchorNear'
  BY <1>1, <1>2, <1>3, AnchorAtEdge
<1> QED BY <1>1, <1>3, <1>4 DEF AnchorKept

(* Every observed pulse leaves the anchor near. *)
LEMMA PulseNear ==
  ASSUME TimelyEnvironment, LoopInv, DisciplineInv, SecondInv, PulsesKeepComing,
         NEW enabled \in BOOLEAN, PpsPulse(enabled)
  PROVE  AnchorKept' /\ UNCHANGED gpsRecord
<1>1. UNCHANGED mon_edge
  BY DEF PpsPulse
<1>2. CASE last_edge_us > 0
  <2> DEFINE interval == PpsDelta(mon_edge, last_edge_us)
  <2>1. interval \in Nat
    <3>1. INTERVAL_WRAP \in Nat /\ INTERVAL_WRAP > 0
      BY SecAssumption DEF INTERVAL_WRAP
    <3>2. mon_edge - last_edge_us \in Int
      BY DEF LoopInv
    <3> QED BY <3>1, <3>2, Z3T(20) DEF PpsDelta
  <2>2. ObserveDelta(interval, mon_edge)
    BY <1>2, Zenon DEF PpsPulse
  <2> HIDE DEF interval
  <2>3. CASE RejectInterval(interval)
    BY <1>1, <2>3 DEF RejectInterval, ntpVars, lastPulse, SecondInv, AnchorKept, AnchorNear
  <2>4. CASE DeltaFirstLock(interval, mon_edge)
    BY <1>1, <2>4, LockNear DEF DeltaFirstLock
  <2>5. CASE RejectOutlier(interval)
    BY <1>1, <2>5 DEF RejectOutlier, lastPulse, SecondInv, AnchorKept, AnchorNear
  <2>6. CASE AcceptPulse(interval, mon_edge)
    BY <1>1, <2>1, <2>6, AcceptNear
  <2> QED BY <2>2, <2>3, <2>4, <2>5, <2>6 DEF ObserveDelta
<1>3. CASE ~(last_edge_us > 0)
  <2>1. ObserveFirst(mon_edge)
    BY <1>3, Zenon DEF PpsPulse
  <2> QED BY <1>1, <2>1, LockNear DEF ObserveFirst
<1> QED BY <1>2, <1>3

(* While the clock is locked with a fresh pulse and its anchor near, what   *)
(* the server gives as the time is within a second of it                    *)
(* (maybe_writeback_rtc reads current_utc_unix_seconds).                    *)
LEMMA LockedUtcNear ==
  TimelyEnvironment /\ LoopInv /\ DisciplineInv /\ AnchorKept
      /\ DisciplineState(fix) = "Locked"
    => Magnitude(CurrentUtc - now \div SEC) <= 1
<1> SUFFICES ASSUME TimelyEnvironment, LoopInv, DisciplineInv, AnchorKept,
                    DisciplineState(fix) = "Locked"
             PROVE  Magnitude(CurrentUtc - now \div SEC) <= 1
  OBVIOUS
<1> DEFINE M == clock_anchor.unix
           mono == clock_anchor.mono
<1>1. PpsFresh /\ clock_anchor # NONE
  <2>1. FullySynced(fix)
    BY DEF DisciplineState
  <2> QED BY <2>1 DEF FullySynced
<1>2. pps_locked
  BY <1>1 DEF PpsFresh, DisciplineInv, LockConsistent
<1>3. /\ last_pps_monotonic_us \in Int /\ last_pps_monotonic_us <= now
      /\ now - last_pps_monotonic_us < 10 * SEC
      /\ now \in Int /\ SEC \in Nat
  BY <1>1, <1>2, SecAssumption DEF PpsFresh, HOLDOVER_ENTRY, AnchorKept, AnchorNear, LoopInv
<1>4. /\ M \in Int /\ mono \in Int
      /\ -SEC <= 40 * (mono - M * SEC) /\ 40 * (mono - M * SEC) <= 6 * SEC
      /\ -SEC <= 40 * (mono - last_pps_monotonic_us)
      /\ 40 * (mono - last_pps_monotonic_us) <= SEC
  BY <1>2 DEF AnchorKept, AnchorNear, Anchor
<1>5. freq_ppm \in Int /\ -500 <= freq_ppm /\ freq_ppm <= 500
  BY DEF DisciplineInv, DisciplineTypeOK, SERVO_MAX_FREQ_PPM
<1>6. CurrentUtc = M + (CorrectedElapsed(now - mono, freq_ppm) \div SEC)
  BY <1>1 DEF CurrentUtc
<1> HIDE DEF M, mono
<1>7. -SEC <= 40 * (now - mono) /\ now - mono <= 11 * SEC
  BY <1>3, <1>4
<1>8. /\ -SEC <= 40 * (mono - M * SEC) /\ 40 * (mono - M * SEC) <= 6 * SEC
      /\ M \in Int /\ mono \in Int /\ now \in Int
  BY <1>3, <1>4
<1>9. Magnitude((M + (CorrectedElapsed(now - mono, freq_ppm) \div SEC)) - (now \div SEC)) <= 1
  BY <1>5, <1>7, <1>8, ServedSecondNear, Zenon
<1> QED BY <1>6, <1>9, Zenon
(* A seed leaves a locked clock and the sentence record alone. *)
LEMMA SeedKeeps ==
  ASSUME SecondInv, UNCHANGED mon_edge, NEW utc, SeedUtcSeconds(utc)
  PROVE  AnchorKept' /\ SentenceOnTime'
BY DEF SeedUtcSeconds, SecondInv, AnchorKept, AnchorNear, SentenceOnTime,
       gpsRecord, lastPulse

(* The loop reads the sentence in the second it names and acts on it before *)
(* time passes.                                                             *)
LEMMA SecondLoop ==
  ASSUME TimelyEnvironment, LoopInv, DisciplineInv, SecondInv, PulsesKeepComing,
         Loop
  PROVE  SecondInv'
<1>1. /\ UNCHANGED <<now, mon_edge, leap_at>>
      /\ uart' = <<>> \/ (pc \in {"rtc", "pps", "check"} /\ uart' = uart)
  BY DEF Loop, Boot, GpsPoll, RtcFallback, PpsIdle, PpsPulse, SelfCheck,
         disciplineVars, ppsVars, envVars
<1>2. UartFresh' /\ EdgeOnTime(mon_edge)' /\ leap_at' = 0 /\ now' >= SEC
  BY <1>1 DEF SecondInv, UartFresh, EdgeOnTime
<1> SUFFICES SentenceOnTime' /\ AnchorKept' /\ FirstFixNow' /\ RtcRequestIsGpsTime'
  BY <1>2 DEF SecondInv
<1>3. UNCHANGED rtc_request => RtcRequestIsGpsTime'
  BY DEF RtcRequestIsGpsTime, SecondInv
<1>4. UNCHANGED ntpVars => SentenceOnTime' /\ AnchorKept'
  BY <1>1 DEF ntpVars, gpsRecord, lastPulse, SentenceOnTime, AnchorKept,
              AnchorNear, SecondInv
<1>5. ASSUME UNCHANGED <<fix, first_fix_logged, utc_unix_seconds>>,
             pc' \in {"rtc", "pps", "check"} \/ pc \in {"boot", "gps"}
      PROVE  FirstFixNow'
  BY <1>1, <1>5 DEF FirstFixNow, SecondInv, Second
<1>6. CASE Boot
  <2>1. UNCHANGED <<fix, first_fix_logged, utc_unix_seconds, rtc_request>> /\ pc = "boot"
    BY <1>6 DEF Boot, loopVars
  <2>2. SentenceOnTime' /\ AnchorKept'
    BY <1>1, <1>4, <1>6, SeedKeeps DEF Boot
  <2> QED BY <1>3, <1>5, <2>1, <2>2
<1>7. CASE GpsPoll
  <2> DEFINE timed == {i \in DOMAIN uart : uart[i].fix /\ uart[i].utc # NONE}
  <2>1. UNCHANGED rtc_request /\ pc = "gps" /\ pc' = "rtc" /\ UNCHANGED first_fix_logged
    BY <1>7 DEF GpsPoll
  <2>2. uart # <<>> =>
          Offset = NMEA_AT /\ \A i \in DOMAIN uart : uart[i].utc = Second
    BY <2>1 DEF SecondInv, UartFresh
  <2>3. FirstFixNow'
    <3>1. CASE uart = <<>>
      <4>1. UNCHANGED <<fix, utc_unix_seconds>>
        BY <1>7, <3>1 DEF GpsPoll
      <4> QED BY <1>5, <2>1, <4>1
    <3>2. CASE uart # <<>>
      <4>1. uart \in Seq(Sentences)
        BY DEF LoopInv
      <4>2. Len(uart) \in DOMAIN uart
        BY <3>2, <4>1
      <4>3. utc_unix_seconds' = uart[Len(uart)].utc
        BY <1>7, <3>2 DEF GpsPoll
      <4>4. utc_unix_seconds' = Second'
        BY <1>1, <2>2, <3>2, <4>2, <4>3 DEF Second
      <4> QED BY <2>1, <4>4 DEF FirstFixNow
    <3> QED BY <3>1, <3>2
  <2>4. SentenceOnTime' /\ AnchorKept'
    <3>1. CASE timed = {}
      BY <1>4, <1>7, <3>1 DEF GpsPoll
    <3>2. CASE timed # {}
      <4>1. PICK last \in timed : UpdateGpsUtcSeconds(uart[last].utc)
        BY <1>7, <3>2 DEF GpsPoll
      <4>2. Offset = NMEA_AT /\ uart[last].utc = Second
        BY <2>2
      <4>3. /\ last_gps_utc_seconds' = now \div SEC /\ last_gps_utc_update_us' = now
            /\ now % SEC = NMEA_AT
        BY <4>1, <4>2 DEF UpdateGpsUtcSeconds, Second, Offset
      <4>4. SentenceOnTime'
        BY <4>3 DEF SentenceOnTime
      <4>5. AnchorKept'
        BY <1>1, <4>1 DEF UpdateGpsUtcSeconds, SecondInv, AnchorKept, AnchorNear, lastPulse
      <4> QED BY <4>4, <4>5
    <3> QED BY <3>1, <3>2
  <2> QED BY <1>3, <2>1, <2>3, <2>4
<1>8. CASE RtcFallback
  <2>1. /\ UNCHANGED <<fix, first_fix_logged, utc_unix_seconds, rtc_request>>
        /\ pc' = "pps"
    BY <1>8 DEF RtcFallback
  <2>2. SentenceOnTime' /\ AnchorKept'
    BY <1>1, <1>4, <1>8, SeedKeeps DEF RtcFallback
  <2> QED BY <1>3, <1>5, <2>1, <2>2
<1>9. CASE PpsIdle
  <2>1. /\ UNCHANGED <<fix, first_fix_logged, utc_unix_seconds, rtc_request, ntpVars>>
        /\ pc' = "check"
    BY <1>9 DEF PpsIdle, loopVars, disciplineVars
  <2> QED BY <1>3, <1>4, <1>5, <2>1
<1>10. ASSUME NEW enabled \in BOOLEAN, PpsPulse(enabled)
       PROVE  SentenceOnTime' /\ AnchorKept' /\ FirstFixNow' /\ RtcRequestIsGpsTime'
  <2>1. UNCHANGED <<fix, first_fix_logged, utc_unix_seconds>> /\ pc' = "check"
    BY <1>10 DEF PpsPulse
  <2>2. AnchorKept' /\ UNCHANGED gpsRecord
    BY <1>10, PulseNear
  <2>3. SentenceOnTime'
    BY <2>2 DEF SecondInv, SentenceOnTime, gpsRecord
  <2>4. RtcRequestIsGpsTime'
    <3>1. CASE ~WritebackDue
      BY <1>3, <1>10, <3>1 DEF PpsPulse
    <3>2. CASE WritebackDue
      <4>1. /\ rtc_request' = [val |-> CurrentUtc', at |-> now]
            /\ (DisciplineState(fix) = "Locked")'
        BY <1>10, <3>2, Zenon DEF PpsPulse, WritebackDue
      <4>2. LoopInv' /\ DisciplineInv'
        <5>1. LoopInv' /\ (DisciplineNext \/ UNCHANGED disciplineVars)
          BY LoopStep
        <5> QED BY <5>1, NextInv
      <4>3. (Magnitude(CurrentUtc - now \div SEC) <= 1)'
        <5>1. TimelyEnvironment'
          BY DEF TimelyEnvironment
        <5> QED BY <2>2, <4>1, <4>2, <5>1, LockedUtcNear, PTL
      <4>4. rtc_request'.val = CurrentUtc' /\ rtc_request'.at = now'
        BY <1>1, <4>1
      <4> QED BY <4>3, <4>4 DEF RtcRequestIsGpsTime
    <3> QED BY <3>1, <3>2
  <2> QED BY <1>5, <2>1, <2>2, <2>3, <2>4
<1>11. CASE SelfCheck
  <2>1. SentenceOnTime' /\ AnchorKept'
    BY <1>4, <1>11 DEF SelfCheck, disciplineVars
  <2>2. FirstFixNow'
    BY <1>11 DEF SelfCheck, FirstFixNow
  <2>3. RtcRequestIsGpsTime'
    <3>1. CASE UNCHANGED rtc_request
      BY <1>3, <3>1
    <3>2. CASE rtc_request' # rtc_request
      <4>1. fix /\ ~first_fix_logged /\ rtc_request' = [val |-> utc_unix_seconds, at |-> now]
        BY <1>11, <3>2, Zenon DEF SelfCheck
      <4>2. rtc_request'.val = now \div SEC /\ rtc_request'.at = now
        BY <4>1 DEF SecondInv, FirstFixNow, Second
      <4>3. now \div SEC \in Int
        BY SecAssumption, DivMod DEF LoopInv
      <4> QED BY <4>2, <4>3 DEF RtcRequestIsGpsTime, Magnitude
    <3> QED BY <3>1, <3>2
  <2> QED BY <2>1, <2>2, <2>3
<1> QED BY <1>6, <1>7, <1>8, <1>9, <1>10, <1>11 DEF Loop
(* An anchor that is near names the second at its tick. *)
LEMMA NearIsRight ==
  ASSUME TimelyEnvironment, leap_at = 0, AnchorNear
  PROVE  AnchorRight
<1> DEFINE M == clock_anchor.unix
           mono == clock_anchor.mono
           h == SEC \div 2
<1>1. SEC \in Nat \ {0} /\ SEC >= 1000
  BY SecAssumption DEF TimelyEnvironment
<1>2. M \in Int /\ mono \in Int /\ M * SEC \in Int
  BY <1>1 DEF AnchorNear, Anchor
<1>3. -SEC <= 40 * (mono - M * SEC) /\ 40 * (mono - M * SEC) <= 6 * SEC
  BY DEF AnchorNear
<1>4. h \in Int /\ 2 * h <= SEC /\ 2 * h >= SEC - 1
  BY <1>1
<1> HIDE DEF M, mono, h
<1>5. mono + h = M * SEC + (mono + h - M * SEC) /\ mono + h - M * SEC \in 0 .. SEC - 1
  BY <1>1, <1>2, <1>3, <1>4
<1>6. (mono + h) \div SEC = M
  BY <1>1, <1>2, <1>5, DivIs
<1> QED BY <1>6 DEF AnchorRight, Labels, M, mono, h

-----------------------------------------------------------------------------
(* The second accounting: theorems. *)

(* The accounting starts right. *)
LEMMA SecondInit ==
  ASSUME TimelyEnvironment, Init
  PROVE  SecondInv
<1>1. 0 % SEC = 0
  BY SecAssumption, Z3T(20)
<1>2. leap_at = 0
  BY DEF Init, TimelyEnvironment
<1> QED
  BY <1>1, <1>2, SecAssumption
     DEF Init, DisciplineInit, SecondInv, UartFresh, SentenceOnTime, EdgeOnTime,
         AnchorKept, FirstFixNow, RtcRequestIsGpsTime

(* The accounting stays right as long as pulses keep coming (GpsUart::poll,  *)
(* gps_second_at_edge, observe_pps_pulse, maybe_writeback_rtc).             *)
THEOREM SecondInvHolds ==
  ASSUME TimelyEnvironment
  PROVE  Spec /\ []PulsesKeepComing => []SecondInv
<1>1. Init => SecondInv
  BY SecondInit
<1>2. LoopInv /\ DisciplineInv /\ PulsesKeepComing /\ SecondInv /\ [Next]_vars
        => SecondInv'
  <2> SUFFICES ASSUME LoopInv, DisciplineInv, PulsesKeepComing, SecondInv, [Next]_vars
               PROVE  SecondInv'
    OBVIOUS
  <2>1. CASE Tick
    BY <2>1, SecondTick
  <2>2. CASE Loop
    BY <2>2, SecondLoop
  <2>3. CASE UNCHANGED vars
    BY <2>3
       DEF vars, disciplineVars, ntpVars, gpsRecord, lastPulse, ppsVars, loopVars, envVars,
           SecondInv, UartFresh, SentenceOnTime, EdgeOnTime, AnchorKept, AnchorNear,
           FirstFixNow, RtcRequestIsGpsTime, Offset, Second
  <2> QED BY <2>1, <2>2, <2>3 DEF Next, Horizon
<1>3. Spec => []DisciplineInv
  BY ImplementsDiscipline, LockConsistentHolds, PTL DEF DisciplineInv
<1> QED BY <1>1, <1>2, <1>3, LoopInvHolds, PTL DEF Spec

(* The clock names the right second once it is locked, however many pulses  *)
(* are missed, displaced or rejected and sentences lost: missing edges are  *)
(* counted by elapsed time, and ten minutes at the worst frequency estimate *)
(* do not round to the wrong second (observe_pps_pulse).                    *)
THEOREM SecondRightHolds ==
  ASSUME TimelyEnvironment
  PROVE  Spec /\ []PulsesKeepComing => []SecondRight
<1>1. SecondInv => SecondRight
  BY NearIsRight DEF SecondInv, AnchorKept, SecondRight
<1> QED BY <1>1, SecondInvHolds, PTL

(* What is queued for the RTC is within a second of the truth, the first    *)
(* fix's write and the later ones of a locked clock, whatever the RTC       *)
(* itself held (maybe_writeback_rtc, app::run).                             *)
THEOREM RtcRequestIsGpsTimeHolds ==
  ASSUME TimelyEnvironment
  PROVE  Spec /\ []PulsesKeepComing => []RtcRequestIsGpsTime
<1>1. SecondInv => RtcRequestIsGpsTime
  BY DEF SecondInv
<1> QED BY <1>1, SecondInvHolds, PTL

-----------------------------------------------------------------------------
(* Recovery. *)

(* The UTC label a sentence gives second n, and the first one of a leap. *)
Right(n) == IF leap_at = 0 \/ n <= leap_at THEN n ELSE n - 1

(* Calm seconds are not those that follow the inserted one. *)
CalmCount ==
  /\ calm \in Nat /\ now >= SEC
  /\ pc = "boot" => calm = 0
  /\ calm >= 1 /\ leap_at # 0 => Second <= leap_at \/ Second > leap_at + calm

(* The UART holds the sentence of this instant, and the loop reads it. *)
UartCalm ==
  calm >= 1 =>
    /\ pc # "gps" => uart = <<>>
    /\ pc = "gps" /\ Offset = NMEA_AT => uart = <<Sentence(Second, TRUE)>>
    /\ pc = "gps" /\ Offset # NMEA_AT /\ (Offset # 0 \/ calm >= 2) => uart = <<>>

GpsKnows(n) ==
  last_gps_utc_seconds = Right(n) /\ last_gps_utc_update_us = n * SEC + NMEA_AT

(* This second's sentence was parsed. *)
Heard == Offset > NMEA_AT \/ (Offset = NMEA_AT /\ pc # "gps")

(* The last sentence is of this second or, before it is due, of the one     *)
(* before.                                                                  *)
SentenceCalm ==
  /\ calm >= 1 /\ Heard /\ Second # leap_at => GpsKnows(Second)
  /\ calm >= 2 /\ ~Heard => GpsKnows(Second - 1)

(* This second's edge has not been observed. *)
Unread == Offset = 0 /\ pc \in {"gps", "rtc", "pps"}

(* Each edge is captured, observed and the interrupt enabled again; from    *)
(* the second on the cursor stands on the second boundaries.                *)
PulseCalm ==
  /\ calm >= 1 /\ ~Unread => ~mon_new
  /\ calm >= 2 /\ ~PpsDead /\ Unread => mon_new /\ mon_edge = now
  /\ calm >= 2 /\ ~PpsDead /\ ~Unread => last_edge_us = Second * SEC
  /\ calm >= 3 /\ ~PpsDead /\ Unread => last_edge_us = (Second - 1) * SEC

(* The anchor is at the edge of second n, and names it rightly or is to be  *)
(* stepped by the next pulse.                                               *)
AnchoredAt(n) ==
  /\ pps_locked /\ clock_anchor.mono = n * SEC
  /\ \/ clock_anchor.unix = Right(n)
     \/ pending_gps_step = Right(n) - clock_anchor.unix

(* The third edge sets the anchor, the fourth confirms its second. *)
LockCalm ==
  /\ calm >= 3 /\ ~PpsDead /\ ~Unread => AnchoredAt(Second)
  /\ calm >= 4 /\ ~PpsDead /\ Unread => AnchoredAt(Second - 1)
  /\ calm >= 4 /\ ~PpsDead /\ ~Unread => clock_anchor.unix = Right(Second)

(* The inductive invariant. *)
CalmInv == CalmCount /\ UartCalm /\ SentenceCalm /\ PulseCalm /\ LockCalm

(* The timer as its second and its instant. *)
LEMMA TimeParts ==
  ASSUME now \in Nat
  PROVE  /\ SEC \in Nat \ {0} /\ Second \in Nat /\ Offset \in Nat /\ Offset < SEC
         /\ Second * SEC \in Nat /\ now = Second * SEC + Offset
<1>1. SEC \in Nat \ {0}
  BY SecAssumption
<1>2. Second \in Int /\ Offset \in 0 .. SEC - 1 /\ now = Second * SEC + Offset
  BY <1>1, DivMod DEF Second, Offset
<1>3. Second >= 0
  <2>1. Second <= -1 => Second * SEC <= -SEC
    BY <1>1, <1>2, Z3T(20)
  <2>2. Second * SEC \in Int
    BY <1>1, <1>2
  <2> QED BY <1>1, <1>2, <2>1, <2>2
<1>4. Second * SEC \in Nat
  BY <1>1, <1>2, <1>3, Z3T(20)
<1> QED BY <1>1, <1>2, <1>3, <1>4

(* The next instant is the next second, or a later one of this second that *)
(* is not beyond the one of the sentence.                                  *)
LEMMA InstantIs ==
  ASSUME now \in Nat
  PROVE  \/ /\ Instant % SEC = 0 /\ Instant \div SEC = Second + 1
            /\ Offset >= NMEA_AT
         \/ /\ Instant % SEC \in Nat /\ Instant % SEC # 0 /\ Instant \div SEC = Second
            /\ Instant % SEC > Offset
            /\ Offset < NMEA_AT => Instant % SEC <= NMEA_AT
<1> DEFINE later == {o \in OFFSETS : o > Offset}
<1>1. /\ SEC \in Nat \ {0} /\ Second \in Nat /\ Offset \in Nat /\ Offset < SEC
      /\ now = Second * SEC + Offset
  BY TimeParts
<1>2. NMEA_AT \in OFFSETS /\ \A o \in OFFSETS : o \in Nat /\ o < SEC
  <2>1. \A o \in 0 .. SEC - 1 : o \in Nat /\ o < SEC
    BY <1>1
  <2> QED BY <2>1, EnvAssumption, Zenon
<1>3. CASE later = {}
  <2>1. Offset >= NMEA_AT
    BY <1>1, <1>2, <1>3
  <2>2. Instant = (Second + 1) * SEC + 0
    BY <1>1, <1>3, Z3T(20) DEF Instant
  <2>3. Second + 1 \in Int /\ 0 \in 0 .. SEC - 1
    BY <1>1
  <2>4. Instant \div SEC = Second + 1
    BY <1>1, <2>2, <2>3, DivIs
  <2>5. (Second + 1) * SEC \in Int
    BY <1>1
  <2>6. Instant = (Instant \div SEC) * SEC + (Instant % SEC) /\ Instant % SEC \in Int
    <3>1. Instant \in Int
      BY <2>2, <2>5
    <3> QED BY <1>1, <3>1, DivMod
  <2>7. Instant % SEC = 0
    BY <2>2, <2>4, <2>5, <2>6
  <2> QED BY <2>1, <2>4, <2>7
<1>4. CASE later # {}
  <2>1. later \subseteq Nat
    BY <1>2
  <2>2. Min(later) \in later /\ \A y \in later : Min(later) <= y
    BY <1>4, <2>1, MinNat
  <2>3. Min(later) \in Nat /\ Min(later) < SEC /\ Min(later) > Offset
    BY <1>2, <2>2
  <2>4. Offset < NMEA_AT => Min(later) <= NMEA_AT
    BY <1>2, <2>2
  <2>5. Instant = Second * SEC + Min(later)
    BY <1>4 DEF Instant
  <2> HIDE DEF later
  <2>6. Min(later) \in 0 .. SEC - 1 /\ Second * SEC \in Int /\ Second \in Int
    BY <1>1, <2>3
  <2>7. Instant \div SEC = Second
    BY <1>1, <2>5, <2>6, DivIs
  <2>8. Instant = (Instant \div SEC) * SEC + (Instant % SEC) /\ Instant % SEC \in Int
    <3>1. Instant \in Int
      BY <2>3, <2>5, <2>6
    <3> QED BY <1>1, <3>1, DivMod
  <2>9. Instant % SEC = Min(later)
    BY <2>3, <2>5, <2>6, <2>7, <2>8
  <2> QED BY <1>1, <2>3, <2>4, <2>7, <2>9
<1> QED BY <1>3, <1>4

(* A fault starts the count again, of which nothing is known then. *)
LEMMA CalmReset ==
  ASSUME now' \in Nat, now' >= SEC, calm' = 0
  PROVE  CalmInv'
BY DEF CalmInv, CalmCount, UartCalm, SentenceCalm, PulseCalm, LockCalm

(* The edge of a calm second. *)
LEMMA CalmEdge ==
  ASSUME LoopInv, CalmInv, TickEdge, UNCHANGED <<ntpVars, leap_at>>,
         pc = "sleep", pc' = "gps", now' = Instant,
         calm' \in Nat, calm' <= calm + 1,
         leap_at # 0 => Second + 1 # leap_at + 1
  PROVE  CalmInv'
<1>1. /\ Second \in Nat /\ Offset \in Nat /\ SEC \in Nat \ {0} /\ calm \in Nat
      /\ now \in Nat /\ leap_at \in Nat
  BY TimeParts DEF LoopInv, CalmInv, CalmCount
<1>2. /\ Second' = Second + 1 /\ Offset' = 0 /\ Offset >= NMEA_AT
      /\ NMEA_AT \in Nat /\ NMEA_AT > 0
  <2>1. Instant % SEC = 0
    BY DEF TickEdge
  <2>2. Instant \div SEC = Second + 1 /\ Offset >= NMEA_AT
    BY <1>1, <2>1, InstantIs
  <2>3. \A o \in 0 .. SEC - 1 : o \in Nat
    BY <1>1
  <2>4. NMEA_AT \in Nat /\ NMEA_AT # 0
    BY <2>3, EnvAssumption
  <2> QED BY <2>1, <2>2, <2>4 DEF Second, Offset
<1>3. now' >= SEC
  BY <1>1, InstantAhead DEF CalmInv, CalmCount
<1>4. Second # leap_at \/ leap_at = 0
  BY <1>1
<1>5. Second >= 1
  <2>1. Second = 0 => Second * SEC = 0
    BY <1>1
  <2> QED BY <1>1, <2>1, TimeParts DEF CalmInv, CalmCount
<1>6. Heard /\ ~Heard' /\ ~Unread /\ Unread' /\ Second' - 1 = Second
  BY <1>1, <1>2 DEF Heard, Unread
<1>7. CalmCount'
  <2>1. calm >= 1 /\ leap_at # 0 => Second <= leap_at \/ Second > leap_at + calm
    BY DEF CalmInv, CalmCount
  <2>2. ASSUME calm' >= 1, leap_at # 0
        PROVE  Second' <= leap_at \/ Second' > leap_at + calm'
    <3>1. Second # leap_at
      BY <1>1, <2>2
    <3>2. Second' = Second + 1
      BY <1>2
    <3>3. Second + 1 <= leap_at \/ Second + 1 > leap_at + calm'
      <4>1. ASSUME NEW s \in Nat, NEW l \in Nat, NEW c \in Nat, NEW d \in Nat,
                   d <= c + 1, s # l, c >= 1 => s <= l \/ s > l + c
            PROVE  s + 1 <= l \/ s + 1 > l + d
        BY <4>1
      <4>2. calm >= 1 => Second <= leap_at \/ Second > leap_at + calm
        BY <2>1, <2>2
      <4> QED BY <1>1, <3>1, <4>1, <4>2
    <3> QED BY <3>2, <3>3
  <2> QED BY <1>3, <2>2 DEF CalmCount
<1>8. UartCalm'
  <2>1. calm' >= 2 => uart' = <<>>
    BY <1>1 DEF CalmInv, UartCalm, TickEdge
  <2>2. pc' = "gps" /\ Offset' = 0 /\ Offset' # NMEA_AT
    BY <1>2
  <2> QED BY <2>1, <2>2 DEF UartCalm
<1>9. SentenceCalm'
  <2>1. ASSUME calm' >= 2
        PROVE  last_gps_utc_seconds' = Right(Second)
               /\ last_gps_utc_update_us' = Second * SEC + NMEA_AT
    <3>1. calm >= 1
      BY <1>1, <2>1
    <3>2. GpsKnows(Second)
      BY <1>4, <1>5, <1>6, <3>1 DEF CalmInv, SentenceCalm
    <3> QED BY <3>2 DEF GpsKnows, ntpVars, gpsRecord
  <2>2. ASSUME NEW n, n = Second' - 1, calm' >= 2
        PROVE  last_gps_utc_seconds' = Right(n)' /\ last_gps_utc_update_us' = n * SEC + NMEA_AT
    <3>1. n = Second
      BY <1>6, <2>2
    <3> QED BY <2>1, <2>2, <3>1 DEF Right
  <2> QED BY <1>6, <2>2 DEF SentenceCalm, GpsKnows, Right
<1>10. PulseCalm'
  <2>1. ASSUME ~PpsDead'
        PROVE  ~PpsDead
    BY <2>1 DEF TickEdge, RecordEdge, PpsDead, ppsVars
  <2>2. ASSUME ~PpsDead', calm >= 1
        PROVE  mon_new' /\ mon_edge' = now'
    BY <1>6, <2>1, <2>2 DEF TickEdge, RecordEdge, PpsDead, CalmInv, PulseCalm
  <2>3. ASSUME ~PpsDead', calm >= 2
        PROVE  last_edge_us' = (Second' - 1) * SEC
    BY <1>6, <2>1, <2>3 DEF TickEdge, RecordEdge, PpsDead, CalmInv, PulseCalm, ppsVars
  <2> QED BY <1>1, <1>6, <2>2, <2>3 DEF PulseCalm
<1>11. LockCalm'
  <2>1. ASSUME ~PpsDead', calm' >= 4, NEW n \in Int, n = Second' - 1
        PROVE  /\ pps_locked' /\ clock_anchor'.mono = n * SEC
               /\ \/ clock_anchor'.unix = Right(n)
                  \/ pending_gps_step' = Right(n) - clock_anchor'.unix
    <3>1. ~PpsDead /\ calm >= 3
      BY <1>1, <2>1 DEF TickEdge, RecordEdge, PpsDead, ppsVars
    <3>2. AnchoredAt(Second) /\ n = Second
      BY <1>6, <2>1, <3>1 DEF CalmInv, LockCalm
    <3> QED BY <3>2 DEF AnchoredAt, ntpVars, pairing
  <2>2. Right(Second' - 1) = Right(Second - 1)'
    BY DEF Right
  <2>3. Second' - 1 \in Int
    BY <1>1, <1>2
  <2> QED BY <1>6, <2>1, <2>2, <2>3 DEF LockCalm, AnchoredAt
<1> QED BY <1>7, <1>8, <1>9, <1>10, <1>11 DEF CalmInv
(* An instant within a calm second. *)
LEMMA CalmWithin ==
  ASSUME LoopInv, CalmInv, TickQuiet \/ TickSentence, UNCHANGED <<ntpVars, leap_at>>,
         pc = "sleep", pc' = "gps", now' = Instant, calm' = calm
  PROVE  CalmInv'
<1>1. /\ Second \in Nat /\ Offset \in Nat /\ SEC \in Nat \ {0} /\ calm \in Nat
      /\ now \in Nat /\ NMEA_AT \in Nat /\ NMEA_AT # 0
  <2>1. \A o \in 0 .. SEC - 1 : o \in Nat
    BY TimeParts DEF LoopInv
  <2> QED BY <2>1, TimeParts, EnvAssumption DEF LoopInv, CalmInv, CalmCount
<1>2. /\ Second' = Second /\ Offset' \in Nat /\ Offset' # 0 /\ Offset' > Offset
      /\ Offset < NMEA_AT => Offset' <= NMEA_AT
      /\ TickSentence => Offset' = NMEA_AT
      /\ TickQuiet => Offset' # NMEA_AT
  <2>1. /\ Instant % SEC # 0 
        /\ TickSentence => Instant % SEC = NMEA_AT
        /\ TickQuiet => Instant % SEC # NMEA_AT
    BY <1>1 DEF TickQuiet, TickSentence
  <2>2. /\ Instant % SEC \in Nat /\ Instant \div SEC = Second
        /\ Instant % SEC > Offset
        /\ Offset < NMEA_AT => Instant % SEC <= NMEA_AT
    BY <1>1, <2>1, InstantIs
  <2> QED BY <2>1, <2>2 DEF Second, Offset
<1>3. now' >= SEC
  BY <1>1, InstantAhead DEF CalmInv, CalmCount
<1>4. ~Unread /\ ~Unread' /\ (Heard <=> Heard')
  BY <1>1, <1>2 DEF Unread, Heard
<1>5. UNCHANGED ppsVars
  BY DEF TickQuiet, TickSentence
<1>6. CalmCount'
  BY <1>2, <1>3 DEF CalmInv, CalmCount
<1>7. UartCalm'
  <2> SUFFICES ASSUME calm >= 1 PROVE UartCalm'
    BY DEF UartCalm
  <2>1. uart = <<>>
    BY DEF CalmInv, UartCalm
  <2>2. CASE TickQuiet
    BY <1>2, <2>1, <2>2 DEF UartCalm, TickQuiet
  <2>3. CASE TickSentence
    <3>1. Sentence(Second, TRUE)' = Sentence(Second, TRUE)
      BY <1>2 DEF Sentence, Labels
    <3>2. Receive(Sentence(Second, TRUE))
      BY <2>3 DEF TickSentence
    <3> HIDE DEF Sentence
    <3>3. uart' = <<Sentence(Second, TRUE)>>
      <4>1. Len(<<>>) < UART_CAP
        BY EmptySeq, EnvAssumption
      <4>2. uart' = Append(<<>>, Sentence(Second, TRUE))
        BY <2>1, <3>2, <4>1 DEF Receive
      <4> QED BY <4>2
    <3> QED BY <1>2, <2>3, <3>1, <3>3 DEF UartCalm
  <2> QED BY <2>2, <2>3
<1>8. SentenceCalm'
  BY <1>2, <1>4 DEF CalmInv, SentenceCalm, GpsKnows, Right, ntpVars, gpsRecord
<1>9. PulseCalm'
  BY <1>2, <1>4, <1>5 DEF CalmInv, PulseCalm, PpsDead, ppsVars
<1>10. LockCalm'
  BY <1>2, <1>4, <1>5
     DEF CalmInv, LockCalm, AnchoredAt, Right, PpsDead, ppsVars, ntpVars, pairing
<1> QED BY <1>6, <1>7, <1>8, <1>9, <1>10 DEF CalmInv

(* Time passes: a second stays calm, or the count starts again. *)
LEMMA CalmTick ==
  ASSUME LoopInv, CalmInv, Tick
  PROVE  CalmInv'
<1>1. now \in Nat /\ calm \in Nat /\ now >= SEC /\ CALM_MAX \in Nat
      /\ Instant \in Nat /\ Instant > now
  BY InstantAhead, EnvAssumption DEF LoopInv, CalmInv, CalmCount
<1>2. UNCHANGED <<ntpVars, leap_at>> /\ now' \in Nat /\ now' >= SEC
  <2>1. TimePasses /\ SEC \in Nat
    BY TickStep, SecAssumption
  <2>2. UNCHANGED leap_at
    BY DEF Tick, TickQuiet, TickEdge, TickNoEdge, TickStrayEdge, TickSentence,
           TickVoid, TickLost, Outage, envVars
  <2> QED BY <1>1, <2>1, <2>2 DEF TimePasses
<1>3. ASSUME NEW c \in {0, 1}, Passes(c)
      PROVE  \/ calm' = 0
             \/ /\ c = 0 /\ pc = "sleep" /\ pc' = "gps" /\ now' = Instant
                /\ IF Instant % SEC # 0 THEN calm' = calm
                   ELSE /\ calm' \in Nat /\ calm' <= calm + 1
                        /\ leap_at # 0 => Instant \div SEC # leap_at + 1
  BY <1>1, <1>3 DEF Passes, Lower
<1>4. CASE calm' = 0
  BY <1>2, <1>4, CalmReset
<1>5. CASE calm' # 0 /\ TickEdge
  <2>1. Instant % SEC = 0 /\ Passes(0)
    BY <1>5 DEF TickEdge
  <2>2. Instant \div SEC = Second + 1
    BY <1>1, <2>1, InstantIs
  <2>3. /\ pc = "sleep" /\ pc' = "gps" /\ now' = Instant
        /\ calm' \in Nat /\ calm' <= calm + 1
        /\ leap_at # 0 => Second + 1 # leap_at + 1
    BY <1>3, <1>5, <2>1, <2>2
  <2> QED BY <1>2, <1>5, <2>3, CalmEdge
<1>6. CASE calm' # 0 /\ (TickQuiet \/ TickSentence)
  <2>1. NMEA_AT # 0
    BY EnvAssumption
  <2>2. Instant % SEC # 0 /\ Passes(0)
    BY <1>6, <2>1 DEF TickQuiet, TickSentence
  <2>3. pc = "sleep" /\ pc' = "gps" /\ now' = Instant /\ calm' = calm
    BY <1>3, <1>6, <2>2
  <2> QED BY <1>2, <1>6, <2>3, CalmWithin
<1>7. TickNoEdge \/ TickStrayEdge \/ TickVoid \/ TickLost => calm' = 0
  <2>1. TickNoEdge \/ TickStrayEdge \/ TickVoid \/ TickLost => Passes(1)
    BY DEF TickNoEdge, TickStrayEdge, TickVoid, TickLost
  <2> QED BY <1>3, <2>1
<1>8. (\E k \in OUTAGES : Outage(k)) => calm' = 0
  BY DEF Outage
<1> QED BY <1>4, <1>5, <1>6, <1>7, <1>8 DEF Tick

(* The sentence heard in a calm second is the one before the edge.          *)
LEMMA CalmSecond ==
  ASSUME LoopInv, CalmInv, NMEA_PPS_FUDGE_S = 1, calm >= 2, Offset = 0
  PROVE  /\ Right(Second) = Right(Second - 1) + 1
         /\ Right(Second) \in Int /\ Right(Second - 1) \in Int
         /\ GpsSecondAtEdge(now) = Right(Second)
<1>1. /\ Second \in Nat /\ SEC \in Nat \ {0} /\ now \in Nat /\ now = Second * SEC
      /\ Second * SEC \in Nat /\ leap_at \in Nat /\ calm \in Nat
  BY TimeParts DEF LoopInv, CalmInv, CalmCount
<1>2. NMEA_AT \in Nat /\ NMEA_AT # 0 /\ NMEA_AT < SEC
  <2>1. \A o \in 0 .. SEC - 1 : o \in Nat /\ o < SEC
    BY <1>1
  <2> QED BY <2>1, EnvAssumption
<1>3. GpsKnows(Second - 1)
  BY <1>2 DEF CalmInv, SentenceCalm, Heard
<1>4. Right(Second) = Right(Second - 1) + 1 /\ Right(Second) \in Int
  <2>1. leap_at # 0 => Second # leap_at + 1
    BY <1>1 DEF CalmInv, CalmCount
  <2> QED BY <1>1, <2>1 DEF Right
<1>5. (Second - 1) * SEC = now - SEC
  BY <1>1, Z3T(20)
<1>6. /\ last_gps_utc_seconds = Right(Second - 1)
      /\ last_gps_utc_update_us = (now - SEC) + NMEA_AT
  BY <1>3, <1>5 DEF GpsKnows
<1>7. last_gps_utc_update_us \in Int /\ now - last_gps_utc_update_us = SEC - NMEA_AT
  BY <1>1, <1>2, <1>6
<1>8. GpsTimeFresh(now)
  BY <1>1, <1>2, <1>7, NoneAssumption DEF GpsTimeFresh, GPS_STALE_THRESHOLD
<1>9. (now - last_gps_utc_update_us) \div SEC = 0
  <2>1. SEC - NMEA_AT \in 0 .. SEC - 1 /\ 0 * SEC = 0 /\ 0 \in Int
    BY <1>1, <1>2
  <2>2. (0 * SEC + (SEC - NMEA_AT)) \div SEC = 0
    BY <1>1, <2>1, DivIs
  <2> QED BY <1>1, <1>2, <1>7, <2>1, <2>2
<1>10. Right(Second - 1) \in Int
  BY <1>1 DEF Right
<1> QED BY <1>4, <1>6, <1>8, <1>9, <1>10 DEF GpsSecondAtEdge

(* Two edges a second apart: the second is counted as one, whatever the    *)
(* frequency estimate, and the interval is neither out of range nor an     *)
(* outlier.                                                                *)
LEMMA OneSecond ==
  ASSUME SEC >= 1000
  PROVE  /\ \A last \in Nat : PpsDelta(last + SEC, last) = SEC
         /\ InRange(SEC) /\ ~IsOutlier(SEC) /\ PhaseError(SEC) = 0
         /\ \A ppm \in Int : -500 <= ppm /\ ppm <= 500
              => (CorrectedElapsed(SEC, ppm) + SEC \div 2) \div SEC = 1
<1>1. SEC \in Nat \ {0}
  BY SecAssumption
<1>2. ASSUME NEW last \in Nat
      PROVE  PpsDelta(last + SEC, last) = SEC
  <2>1. ASSUME NEW n \in Nat, NEW x \in Nat, x < n
        PROVE  x % n = x
    BY <2>1, Z3T(20)
  <2>2. INTERVAL_WRAP \in Nat /\ SEC < INTERVAL_WRAP /\ (last + SEC) - last = SEC
    BY <1>1 DEF INTERVAL_WRAP
  <2> QED BY <1>1, <2>1, <2>2 DEF PpsDelta
<1>3. InRange(SEC) /\ PhaseError(SEC) = 0
  BY <1>1 DEF InRange, MIN_INTERVAL, MAX_INTERVAL, PhaseError
<1>4. ~IsOutlier(SEC)
  BY <1>1, <1>3 DEF IsOutlier, Magnitude, PPS_OUTLIER_THRESHOLD
<1>5. ASSUME NEW ppm \in Int, -500 <= ppm, ppm <= 500
      PROVE  (CorrectedElapsed(SEC, ppm) + SEC \div 2) \div SEC = 1
  <2> DEFINE C == CorrectedElapsed(SEC, ppm)
             h == SEC \div 2
  <2>1. C \in Nat /\ 2000 * (C - SEC) <= SEC + 4000 /\ 2000 * (SEC - C) <= SEC + 4000
    BY <1>1, <1>5, ElapsedNear
  <2>2. h \in Int /\ 2 * h <= SEC /\ 2 * h >= SEC - 1
    BY <1>1
  <2> HIDE DEF C, h
  <2>3. (C + h) - SEC \in 0 .. SEC - 1 /\ C + h = 1 * SEC + ((C + h) - SEC) /\ 1 \in Int
    BY <1>1, <2>1, <2>2
  <2>4. (1 * SEC + ((C + h) - SEC)) \div SEC = 1
    BY <1>1, <2>3, DivIs
  <2> QED BY <2>3, <2>4 DEF C, h
<1> QED BY <1>2, <1>3, <1>4, <1>5

(* The third pulse accepted leaves an anchor that is right or about to be    *)
(* stepped, and the fourth one that is right.                               *)
LEMMA CalmObserved ==
  ASSUME LoopInv, DisciplineInv, CalmInv, NMEA_PPS_FUDGE_S = 1, SEC >= 1000,
         calm >= 3, Unread, ~PpsDead,
         NEW enabled \in BOOLEAN, PpsPulse(enabled)
  PROVE  /\ pps_locked' /\ clock_anchor'.mono = Second * SEC
         /\ \/ clock_anchor'.unix = Right(Second)
            \/ /\ pending_gps_step' = Right(Second) - clock_anchor'.unix
               /\ calm < 4
<1>1. /\ Second \in Nat /\ SEC \in Nat \ {0} /\ now \in Nat /\ Offset = 0
      /\ now = Second * SEC /\ calm \in Nat
  BY TimeParts DEF LoopInv, Unread, CalmInv, CalmCount
<1>2. mon_edge = now /\ last_edge_us = (Second - 1) * SEC
  BY <1>1 DEF CalmInv, PulseCalm
<1>3. /\ Right(Second) = Right(Second - 1) + 1
      /\ Right(Second) \in Int /\ Right(Second - 1) \in Int
      /\ GpsSecondAtEdge(now) = Right(Second)
  BY <1>1, CalmSecond
<1>4. calm >= 4 => AnchoredAt(Second - 1)
  BY DEF CalmInv, LockCalm
<1>5. last_edge_us \in Nat /\ now = last_edge_us + SEC
  <2>1. (Second - 1) * SEC = now - SEC
    BY <1>1, Z3T(20)
  <2> QED BY <1>1, <1>2, <2>1 DEF LoopInv
<1> HIDE DEF Right
<1>6. ASSUME LockIfFresh(now)
      PROVE  /\ pps_locked' /\ clock_anchor'.mono = Second * SEC
             /\ clock_anchor'.unix = Right(Second)
  <2>1. LockAnchor(Right(Second), now)
    BY <1>3, <1>6, NoneAssumption DEF LockIfFresh
  <2> QED BY <1>1, <2>1 DEF LockAnchor, AnchorAt
<1>7. ASSUME AcceptPulse(SEC, now)
      PROVE  /\ pps_locked' /\ clock_anchor'.mono = Second * SEC
             /\ \/ clock_anchor'.unix = Right(Second)
                \/ /\ pending_gps_step' = Right(Second) - clock_anchor'.unix
                   /\ calm < 4
  <2> DEFINE ppm == NewFreq(0 * TICK_US)
             pred == PredictedSecond(now, ppm)
             sec == SecondOfEdge(pred, Right(Second))
  <2>1. PhaseError(SEC) = 0
    BY OneSecond
  <2>2. /\ clock_anchor' = AnchorAt(sec.unix, now - Truncated(0, SERVO_KP_INV))
        /\ pending_gps_step' = sec.pending /\ UNCHANGED pps_locked
        /\ pps_locked /\ clock_anchor # NONE
    BY <1>3, <1>7, <2>1 DEF AcceptPulse
  <2>3. ppm \in Int /\ -500 <= ppm /\ ppm <= 500
    <3>1. freq_ppm \in Int
      BY DEF DisciplineInv, DisciplineTypeOK, SERVO_MAX_FREQ_PPM
    <3>2. 0 * TICK_US \in Int
      BY TickNat
    <3>3. ppm \in -SERVO_MAX_FREQ_PPM .. SERVO_MAX_FREQ_PPM
      BY <3>1, <3>2, NewFreqRange
    <3> QED BY <3>3 DEF SERVO_MAX_FREQ_PPM
  <2> HIDE DEF ppm
  <2>4. now - Truncated(0, SERVO_KP_INV) = now
    BY <1>1 DEF Truncated, SERVO_KP_INV
  <2>5. clock_anchor \in Anchor
    BY <2>2 DEF DisciplineInv, DisciplineTypeOK
  <2>6. pred \in Int
    BY <1>1, <2>3, <2>5, PredictedInt
  <2>7. calm >= 4 => pred = clock_anchor.unix + 1
    <3>1. SUFFICES ASSUME calm >= 4 PROVE pred = clock_anchor.unix + 1
      OBVIOUS
    <3>2. now - clock_anchor.mono = SEC
      BY <1>1, <1>2, <1>4, <1>5, <3>1 DEF AnchoredAt
    <3> QED BY <2>3, <3>2, OneSecond DEF PredictedSecond
  <2> HIDE DEF pred
  <2>8. clock_anchor'.unix = sec.unix /\ clock_anchor'.mono = Second * SEC
    BY <1>1, <2>2, <2>4 DEF AnchorAt
  <2>9. \/ sec.unix = Right(Second)
        \/ /\ sec.unix = pred /\ sec.pending = Right(Second) - pred
           /\ pending_gps_step # Right(Second) - pred /\ pred # Right(Second)
    BY <1>3, NoneAssumption DEF SecondOfEdge
  <2>10. calm >= 4 => \/ pending_gps_step = Right(Second) - pred
                      \/ pred = Right(Second)
    <3> SUFFICES ASSUME calm >= 4
                 PROVE  pending_gps_step = Right(Second) - pred \/ pred = Right(Second)
      OBVIOUS
    <3>1. clock_anchor.unix \in Int /\ pred = clock_anchor.unix + 1
      BY <2>5, <2>7 DEF Anchor
    <3>2. \/ clock_anchor.unix = Right(Second - 1)
          \/ pending_gps_step = Right(Second - 1) - clock_anchor.unix
      BY <1>4 DEF AnchoredAt
    <3>3. Right(Second) - pred = Right(Second - 1) - clock_anchor.unix
      BY <1>3, <3>1
    <3> QED BY <1>3, <3>1, <3>2, <3>3
  <2> HIDE DEF sec
  <2> QED BY <1>1, <2>2, <2>8, <2>9, <2>10
<1>8. CASE last_edge_us > 0
  <2>1. ObserveDelta(SEC, now)
    <3>1. PpsDelta(mon_edge, last_edge_us) = SEC
      BY <1>2, <1>5, OneSecond
    <3> QED BY <1>2, <1>8, <3>1, Zenon DEF PpsPulse
  <2>2. ~RejectInterval(SEC) /\ ~RejectOutlier(SEC)
    BY OneSecond DEF RejectInterval, RejectOutlier
  <2>3. DeltaFirstLock(SEC, now) => LockIfFresh(now)
    BY DEF DeltaFirstLock
  <2> QED BY <1>6, <1>7, <2>1, <2>2, <2>3 DEF ObserveDelta
<1>9. CASE ~(last_edge_us > 0)
  <2>1. ObserveFirst(now)
    BY <1>2, <1>9, Zenon DEF PpsPulse
  <2> QED BY <1>6, <2>1 DEF ObserveFirst
<1> QED BY <1>8, <1>9

(* A step of the loop in a calm second. *)
LEMMA CalmLoop ==
  ASSUME LoopInv, DisciplineInv, CalmInv, NMEA_PPS_FUDGE_S = 1, SEC >= 1000, Loop
  PROVE  CalmInv'
<1>1. /\ now \in Nat /\ now >= SEC /\ calm \in Nat /\ SEC \in Nat \ {0}
      /\ Second \in Nat /\ Offset \in Nat
      /\ NMEA_AT \in Nat /\ NMEA_AT # 0
  <2>1. \A o \in 0 .. SEC - 1 : o \in Nat
    BY TimeParts DEF LoopInv
  <2> QED BY <2>1, TimeParts, EnvAssumption DEF LoopInv, CalmInv, CalmCount
<1>2. UNCHANGED <<now, leap_at>> /\ calm' \in {calm, 0}
  BY DEF Loop, Boot, GpsPoll, RtcFallback, PpsIdle, PpsPulse, SelfCheck, envVars,
         disciplineVars
<1>3. UNCHANGED <<Second, Offset>>
  BY <1>2 DEF Second, Offset
<1>4. CASE calm' = 0
  BY <1>1, <1>2, <1>4, CalmReset
<1>5. SUFFICES ASSUME calm >= 1, calm' = calm PROVE CalmInv'
  BY <1>1, <1>2, <1>4
<1>6. CASE Boot
  BY <1>1, <1>5, <1>6 DEF Boot, CalmInv, CalmCount
<1>7. CASE GpsPoll
  <2>1. /\ pc = "gps" /\ pc' = "rtc" /\ uart' = <<>> /\ UNCHANGED ppsVars
        /\ UNCHANGED <<pps_locked, pending_gps_step>>
        /\ pps_locked => UNCHANGED clock_anchor
    BY <1>7 DEF GpsPoll, UpdateGpsUtcSeconds, ntpVars, pairing
  <2>2. Unread' <=> Unread
    BY <1>3, <2>1 DEF Unread
  <2>3. CalmCount'
    BY <1>1, <1>2, <1>3, <1>5, <2>1 DEF CalmInv, CalmCount
  <2>4. UartCalm'
    BY <2>1 DEF UartCalm
  <2>5. SentenceCalm'
    <3>1. Offset > NMEA_AT => Heard
      BY DEF Heard
    <3>2. Heard' <=> Offset >= NMEA_AT
      BY <1>1, <1>3, <2>1 DEF Heard
    <3>3. CASE Offset # NMEA_AT /\ (Offset # 0 \/ calm >= 2)
      <4>1. uart = <<>>
        BY <1>5, <2>1, <3>3 DEF CalmInv, UartCalm
      <4>2. UNCHANGED ntpVars
        <5>1. DOMAIN uart = {}
          BY <4>1
        <5>2. {i \in DOMAIN uart : uart[i].fix /\ uart[i].utc # NONE} = {}
          BY <5>1
        <5> QED BY <1>7, <5>2 DEF GpsPoll
      <4>3. Heard' <=> Heard
        BY <1>1, <2>1, <3>2, <3>3 DEF Heard
      <4> QED
        BY <1>2, <1>3, <1>5, <4>2, <4>3
           DEF CalmInv, SentenceCalm, GpsKnows, Right, ntpVars, gpsRecord
    <3>4. CASE Offset = 0 /\ calm < 2
      BY <1>1, <1>3, <1>5, <3>2, <3>4 DEF SentenceCalm
    <3>5. CASE Offset = NMEA_AT
      <4>1. calm' >= 1 /\ Heard'
        BY <1>1, <1>5, <3>2, <3>5
      <4> SUFFICES ASSUME Second # leap_at
                   PROVE  last_gps_utc_seconds' = Right(Second)
                          /\ last_gps_utc_update_us' = Second * SEC + NMEA_AT
        BY <1>2, <1>3, <4>1 DEF SentenceCalm, GpsKnows, Right
      <4> DEFINE sent == Sentence(Second, TRUE)
      <4>2. uart = <<sent>>
        BY <1>5, <2>1, <3>5 DEF CalmInv, UartCalm
      <4>3. sent.fix = TRUE /\ sent.utc = Right(Second) /\ Right(Second) \in Int
        <5>1. Labels(Second) = {Right(Second)}
          BY <1>1 DEF Labels, Right, LoopInv
        <5>2. (CHOOSE u \in Labels(Second) : TRUE) = Right(Second)
          BY <5>1
        <5>3. Right(Second) \in Int
          BY <1>1 DEF Right
        <5> QED BY <5>2, <5>3 DEF Sentence
      <4> HIDE DEF sent
      <4>4. DOMAIN uart = {1} /\ uart[1] = sent
        BY <4>2
      <4>5. {i \in DOMAIN uart : uart[i].fix /\ uart[i].utc # NONE} = {1}
        BY <4>3, <4>4, NoneAssumption
      <4>6. UpdateGpsUtcSeconds(uart[1].utc)
        BY <1>7, <4>5 DEF GpsPoll
      <4>7. now = Second * SEC + NMEA_AT
        BY <1>1, <3>5, TimeParts
      <4> QED BY <4>3, <4>4, <4>6, <4>7 DEF UpdateGpsUtcSeconds
    <3> QED BY <1>1, <3>3, <3>4, <3>5
  <2>6. PulseCalm'
    BY <1>2, <1>3, <1>5, <2>1, <2>2 DEF CalmInv, PulseCalm, PpsDead, ppsVars
  <2>7. LockCalm'
    <3>1. CASE UNCHANGED clock_anchor
      BY <1>2, <1>3, <1>5, <2>1, <2>2, <3>1
         DEF CalmInv, LockCalm, AnchoredAt, Right, PpsDead, ppsVars
    <3>2. CASE ~pps_locked
      <4>1. PpsDead \/ (Unread /\ calm < 4) \/ calm < 3
        BY <1>1, <3>2 DEF CalmInv, LockCalm, AnchoredAt
      <4> QED
        BY <1>1, <1>2, <1>3, <1>5, <2>1, <2>2, <4>1 DEF LockCalm, PpsDead, ppsVars
    <3> QED BY <2>1, <3>1, <3>2
  <2> QED BY <2>3, <2>4, <2>5, <2>6, <2>7 DEF CalmInv
<1>8. CASE RtcFallback
  <2>1. /\ pc = "rtc" /\ pc' = "pps" /\ UNCHANGED <<uart, ppsVars>>
        /\ UNCHANGED <<pps_locked, pending_gps_step, gpsRecord>>
        /\ pps_locked => UNCHANGED clock_anchor
    BY <1>8 DEF RtcFallback, SeedUtcSeconds, ntpVars, pairing
  <2>2. (Unread' <=> Unread) /\ (Heard' <=> Heard)
    BY <1>3, <2>1 DEF Unread, Heard
  <2> QED
    BY <1>1, <1>2, <1>3, <1>5, <2>1, <2>2
       DEF CalmInv, CalmCount, UartCalm, SentenceCalm, PulseCalm, LockCalm, GpsKnows,
           AnchoredAt, Right, PpsDead, ppsVars, gpsRecord
<1>9. CASE PpsIdle
  <2>1. /\ pc = "pps" /\ pc' = "check" /\ UNCHANGED <<uart, ppsVars, ntpVars>> /\ ~mon_new
    BY <1>9 DEF PpsIdle, disciplineVars
  <2>2. ~Unread' /\ (Heard' <=> Heard)
    BY <1>3, <2>1 DEF Unread, Heard
  <2>3. calm >= 2 /\ ~PpsDead => ~Unread
    BY <2>1 DEF CalmInv, PulseCalm
  <2> QED
    BY <1>1, <1>2, <1>3, <1>5, <2>1, <2>2, <2>3
       DEF CalmInv, CalmCount, UartCalm, SentenceCalm, PulseCalm, LockCalm, GpsKnows,
           AnchoredAt, Right, PpsDead, ppsVars, ntpVars, gpsRecord, pairing
<1>10. ASSUME NEW enabled \in BOOLEAN, PpsPulse(enabled)
       PROVE  CalmInv'
  <2>1. /\ pc = "pps" /\ pc' = "check" /\ mon_new /\ ~mon_new'
        /\ UNCHANGED <<uart, mon_edge>> /\ last_edge_us' = mon_edge
    BY <1>10 DEF PpsPulse
  <2>2. Unread /\ ~Unread' /\ (Heard' <=> Heard) /\ ~PpsDead /\ Offset = 0
    BY <1>3, <1>5, <2>1 DEF Unread, Heard, PpsDead, CalmInv, PulseCalm
  <2>3. now = Second * SEC
    BY <1>1, <2>2, TimeParts
  <2>4. calm >= 2 => mon_edge = now
    BY <2>2 DEF CalmInv, PulseCalm
  <2>5. UNCHANGED gpsRecord
    BY <1>10 DEF PpsPulse, ObserveDelta, ObserveFirst, RejectInterval, RejectOutlier,
                 DeltaFirstLock, LockIfFresh, LockAnchor, AcceptPulse, ntpVars, gpsRecord
  <2>6. CalmCount' /\ UartCalm'
    BY <1>1, <1>2, <1>3, <1>5, <2>1 DEF CalmInv, CalmCount, UartCalm
  <2>7. SentenceCalm'
    BY <1>2, <1>3, <1>5, <2>2, <2>5 DEF CalmInv, SentenceCalm, GpsKnows, Right, gpsRecord
  <2>8. PulseCalm'
    BY <1>3, <1>5, <2>1, <2>2, <2>3, <2>4 DEF PulseCalm
  <2>9. LockCalm'
    <3> SUFFICES ASSUME calm >= 3
                 PROVE  AnchoredAt(Second)'
                        /\ (calm >= 4 => clock_anchor'.unix = Right(Second)')
      BY <1>1, <1>5, <2>2 DEF LockCalm
    <3>1. /\ pps_locked' /\ clock_anchor'.mono = Second * SEC
          /\ \/ clock_anchor'.unix = Right(Second)
             \/ /\ pending_gps_step' = Right(Second) - clock_anchor'.unix
                /\ calm < 4
      BY <1>10, <2>2, CalmObserved
    <3>2. Right(Second)' = Right(Second)
      BY <1>2, <1>3 DEF Right
    <3> QED BY <1>1, <1>3, <3>1, <3>2 DEF AnchoredAt
  <2> QED BY <2>6, <2>7, <2>8, <2>9 DEF CalmInv
<1>11. CASE SelfCheck
  <2>1. /\ pc = "check" /\ pc' = "sleep" /\ UNCHANGED <<uart, ppsVars, ntpVars>>
    BY <1>11 DEF SelfCheck, disciplineVars
  <2>2. ~Unread' /\ ~Unread /\ (Heard' <=> Heard)
    BY <1>3, <2>1 DEF Unread, Heard
  <2> QED
    BY <1>1, <1>2, <1>3, <1>5, <2>1, <2>2
       DEF CalmInv, CalmCount, UartCalm, SentenceCalm, PulseCalm, LockCalm, GpsKnows,
           AnchoredAt, Right, PpsDead, ppsVars, ntpVars, gpsRecord, pairing
<1> QED BY <1>6, <1>7, <1>8, <1>9, <1>10, <1>11 DEF Loop

(* What a count of calm seconds stands for (app::run, observe_pps_pulse).   *)
THEOREM CalmInvHolds ==
  ASSUME NMEA_PPS_FUDGE_S = 1, SEC >= 1000
  PROVE  Spec => []CalmInv
<1>1. Init => CalmInv
  BY SecAssumption
     DEF Init, CalmInv, CalmCount, UartCalm, SentenceCalm, PulseCalm, LockCalm
<1>2. LoopInv /\ DisciplineInv /\ CalmInv /\ [Next]_vars => CalmInv'
  <2> SUFFICES ASSUME LoopInv, DisciplineInv, CalmInv, [Next]_vars
               PROVE  CalmInv'
    OBVIOUS
  <2>1. CASE Tick
    BY <2>1, CalmTick
  <2>2. CASE Loop
    BY <2>2, CalmLoop
  <2>3. CASE UNCHANGED vars
    BY <2>3
       DEF vars, disciplineVars, ntpVars, gpsRecord, pairing, ppsVars, loopVars, envVars,
           CalmInv, CalmCount, UartCalm, SentenceCalm, PulseCalm, LockCalm, GpsKnows,
           AnchoredAt, Right, PpsDead, Heard, Unread, Offset, Second, Sentence, Labels
  <2> QED BY <2>1, <2>2, <2>3 DEF Next, Horizon
<1>3. Spec => []DisciplineInv
  BY ImplementsDiscipline, LockConsistentHolds, PTL DEF DisciplineInv
<1> QED BY <1>1, <1>2, <1>3, LoopInvHolds, PTL DEF Spec

(* Whatever the faults before, however many and of whatever kind, four calm *)
(* seconds bring lock and the right second, unless the interrupt is lost    *)
(* (observe_pps_pulse, gps_second_at_edge).                                 *)
THEOREM RecoversInFourHolds ==
  ASSUME NMEA_PPS_FUDGE_S = 1, SEC >= 1000
  PROVE  Spec => []RecoversInFour
<1>1. LoopInv /\ CalmInv => RecoversInFour
  <2> SUFFICES ASSUME LoopInv, CalmInv, calm >= 4, ~PpsDead, pc = "sleep"
               PROVE  pps_locked /\ AnchorRight
    BY DEF RecoversInFour
  <2>1. /\ Second \in Nat /\ SEC \in Nat \ {0} /\ Second * SEC \in Nat
        /\ calm \in Nat /\ leap_at \in Nat
    BY TimeParts DEF LoopInv, CalmInv, CalmCount
  <2>2. /\ pps_locked /\ clock_anchor.mono = Second * SEC
        /\ clock_anchor.unix = Right(Second)
    BY <2>1 DEF CalmInv, LockCalm, AnchoredAt, Unread
  <2>3. (Second * SEC + SEC \div 2) \div SEC = Second
    <3>1. SEC \div 2 \in 0 .. SEC - 1 /\ Second \in Int
      BY <2>1
    <3> QED BY <2>1, <3>1, DivIs
  <2>4. Right(Second) \in Labels(Second)
    BY <2>1 DEF Right, Labels
  <2> QED BY <2>2, <2>3, <2>4 DEF AnchorRight
<1> QED BY <1>1, CalmInvHolds, LoopInvHolds, PTL

-----------------------------------------------------------------------------
(* The advertised error: what is served and what is advertised of it. *)

(* The remainder of a number below the divisor is the number. *)
LEMMA ModBelow ==
  ASSUME NEW n \in Nat \ {0}, NEW x \in 0 .. n - 1
  PROVE  x % n = x
<1>1. x = 0 * n + x /\ x \in Int
  OBVIOUS
<1>2. x \div n = 0
  BY <1>1, DivIs
<1>3. x = (x \div n) * n + (x % n) /\ x % n \in Int
  BY <1>1, DivMod
<1> QED BY <1>2, <1>3

(* What corrected_elapsed_us adds to the elapsed time. *)
Correction(raw, ppm) ==
  (((-((raw % 1000) * ppm)) \div 1000) - (raw \div 1000) * ppm) \div 1000

(* The correction is -raw * ppm / 10^6, rounded down.                       *)
LEMMA ElapsedExact ==
  ASSUME NEW raw \in Int, NEW ppm \in Int
  PROVE  /\ Correction(raw, ppm) \in Int
         /\ CorrectedElapsed(raw, ppm) = Higher(0, raw + Correction(raw, ppm))
         /\ 1000000 * Correction(raw, ppm) <= -(raw * ppm)
         /\ -(raw * ppm) < 1000000 * Correction(raw, ppm) + 1000000
<1> DEFINE a == raw % 1000
           q == raw \div 1000
           A == a * ppm
           Q == q * ppm
           b == (-A) \div 1000
           c == (b - Q) \div 1000
<1>1. a \in Int /\ q \in Int /\ raw = 1000 * q + a
  BY Z3T(20)
<1>2. CorrectedElapsed(raw, ppm) = Higher(0, raw + c) /\ Correction(raw, ppm) = c
  BY DEF CorrectedElapsed, Correction
<1> HIDE DEF a, q
<1>3. A \in Int /\ Q \in Int
  BY <1>1
<1>4. raw * ppm = 1000 * Q + A
  BY <1>1, Z3T(20)
<1> HIDE DEF A, Q
<1>5. b \in Int /\ 1000 * b <= -A /\ -A < 1000 * b + 1000
  BY <1>3
<1> HIDE DEF b
<1>6. c \in Int /\ 1000 * c <= b - Q /\ b - Q < 1000 * c + 1000
  BY <1>3, <1>5
<1> HIDE DEF c
<1>7. 1000000 * c <= -(1000 * Q + A) /\ -(1000 * Q + A) < 1000000 * c + 1000000
  BY <1>3, <1>5, <1>6
<1> QED BY <1>2, <1>4, <1>6, <1>7

(* The magnitude of an estimate within its clamp, and of a product with it. *)
LEMMA MagnitudeProduct ==
  ASSUME NEW q \in Nat, NEW ppm \in Int, -500 <= ppm, ppm <= 500
  PROVE  /\ Magnitude(ppm) \in 0 .. 500
         /\ q * Magnitude(ppm) \in Nat /\ q * ppm \in Int
         /\ q * ppm <= q * Magnitude(ppm) /\ -(q * ppm) <= q * Magnitude(ppm)
<1>1. Magnitude(ppm) \in 0 .. 500 /\ (Magnitude(ppm) = ppm \/ Magnitude(ppm) = -ppm)
  BY DEF Magnitude
<1>2. q * Magnitude(ppm) \in Nat /\ q * ppm \in Int
  BY <1>1, Z3T(20)
<1>3. q * (-ppm) = -(q * ppm)
  BY Z3T(20)
<1>4. q * Magnitude(ppm) = q * ppm \/ q * Magnitude(ppm) = -(q * ppm)
  BY <1>1, <1>3
<1> QED BY <1>1, <1>2, <1>4

(* Elapsed time is off by the drift of the estimate and a tick of rounding, *)
(* and an anchor in the future has no elapsed time (corrected_elapsed_us).  *)
LEMMA ElapsedDrift ==
  ASSUME NEW raw \in Int, NEW ppm \in Int, -500 <= ppm, ppm <= 500
  PROVE  /\ CorrectedElapsed(raw, ppm) \in Nat
         /\ raw < 0 => CorrectedElapsed(raw, ppm) = 0
         /\ raw >= 0 =>
              /\ 1000000 * (CorrectedElapsed(raw, ppm) - raw)
                   <= raw * Magnitude(ppm) + 1000000
              /\ 1000000 * (raw - CorrectedElapsed(raw, ppm))
                   <= raw * Magnitude(ppm) + 1000000
<1> DEFINE C == CorrectedElapsed(raw, ppm)
           c == Correction(raw, ppm)
<1>1. /\ c \in Int /\ C = Higher(0, raw + c)
      /\ 1000000 * c <= -(raw * ppm) /\ -(raw * ppm) < 1000000 * c + 1000000
  BY ElapsedExact
<1> HIDE DEF C, c
<1>2. c \in Int /\ C \in Nat /\ C >= raw + c /\ (C = raw + c \/ (C = 0 /\ raw + c < 0))
  BY <1>1 DEF Higher
<1>3. ASSUME raw < 0 PROVE C = 0
  <2>1. -raw \in Nat
    BY <1>3
  <2>2. (-raw) * ppm \in -(500 * (-raw)) .. 500 * (-raw)
    BY <2>1, PpmProduct
  <2>3. (-raw) * ppm = -(raw * ppm) /\ raw * ppm \in Int
    BY Z3T(20)
  <2>4. 1000000 * c <= 500 * (-raw)
    BY <1>1, <2>2, <2>3
  <2>5. raw + c < 0
    BY <1>2, <1>3, <2>4
  <2> QED BY <1>2, <2>5
<1>4. ASSUME raw >= 0
      PROVE  /\ 1000000 * (C - raw) <= raw * Magnitude(ppm) + 1000000
             /\ 1000000 * (raw - C) <= raw * Magnitude(ppm) + 1000000
  <2> DEFINE P == raw * Magnitude(ppm)
             S == raw * ppm
  <2>1. raw \in Nat
    BY <1>4
  <2>2. P \in Nat /\ S \in Int /\ S <= P /\ -S <= P
    BY <2>1, MagnitudeProduct
  <2>3. 1000000 * c <= -S /\ -S < 1000000 * c + 1000000
    BY <1>1
  <2> HIDE DEF P, S
  <2>4. 1000000 * (C - raw) <= P + 1000000 /\ 1000000 * (raw - C) <= P + 1000000
    BY <1>2, <1>4, <2>2, <2>3
  <2> QED BY <2>4 DEF P
<1> QED BY <1>2, <1>3, <1>4 DEF C

(* A tick of TICK_US microseconds is at most the SECth part of a second. *)
LEMMA TickWithin == TICK_US \in Nat /\ TICK_US * SEC <= 1000000
<1>1. SEC \in Nat \ {0} /\ 1000000 \in Int
  BY SecAssumption
<1>2. TICK_US \in Int /\ 1000000 % SEC \in 0 .. SEC - 1
      /\ 1000000 = TICK_US * SEC + (1000000 % SEC)
  BY <1>1, DivMod DEF TICK_US
<1>3. TICK_US * SEC \in Int
  BY <1>1, <1>2
<1> QED BY <1>1, <1>2, <1>3, TickNat

(* An error of e ticks above the rounding, in microseconds: drift of p ppm  *)
(* over raw ticks is at most p * raw / SEC.                                 *)
LEMMA ExcessMicros ==
  ASSUME NEW e \in Nat, NEW w \in Nat, NEW s \in Nat \ {0}, w * s <= 1000000,
         NEW P \in Nat, 1000000 * e <= P
  PROVE  e * w \in Nat /\ s * (e * w) <= P
<1>1. e * w \in Nat /\ w * s \in Nat /\ s * (e * w) = e * (w * s)
  BY Z3T(20)
<1>2. PICK d \in Nat : 1000000 = w * s + d
  <2>1. 1000000 - (w * s) \in Nat /\ 1000000 = w * s + (1000000 - (w * s))
    BY <1>1
  <2> QED BY <2>1
<1>3. 1000000 * e = e * (w * s) + e * d /\ e * d \in Nat /\ e * (w * s) \in Nat
  BY <1>1, <1>2, Z3T(20)
<1> QED BY <1>1, <1>3

(* An error of err ticks is e above D and the rounding, and e is what an    *)
(* estimate of ppm drifts within span / 40 ticks.                           *)
ErrorExceeds(e, err, D, span, ppm) ==
  err <= D + 1 + e /\ 1000000 * (40 * e) <= span * Magnitude(ppm)

(* The time served from an anchor M at m, set by a pulse at L within D of   *)
(* second M, is off by D, a tick, and an excess e that is the drift of the  *)
(* estimate since the pulse (current_ntp_timestamp).                        *)
LEMMA ServedError ==
  ASSUME NEW s \in Nat \ {0}, NEW D \in Nat,
         NEW M \in Int, NEW m \in Int, NEW L \in Int, NEW t \in Int, L <= t,
         NEW ppm \in Int, -500 <= ppm, ppm <= 500,
         m - M * s \in 0 .. D, L - M * s \in 0 .. D, 40 * (L - m) <= s
  PROVE  \E e \in Nat :
           ErrorExceeds(e, Magnitude((M * s + CorrectedElapsed(t - m, ppm)) - t), D,
                        40 * (t - L) + s, ppm)
<1> DEFINE raw == t - m
           C == CorrectedElapsed(raw, ppm)
           p == Magnitude(ppm)
           u == M * s
           err == Magnitude((u + C) - t)
           B == (40 * (t - L) + s) * p
           R == raw * p
           e == Higher(0, err - D - 1)
<1>1. raw \in Int /\ raw = t - m /\ u \in Int /\ m - u \in 0 .. D /\ L - u \in 0 .. D
  OBVIOUS
<1>2. p \in 0 .. 500
  BY DEF Magnitude
<1>3. /\ C \in Nat
      /\ raw < 0 => C = 0
      /\ raw >= 0 => 1000000 * (C - raw) <= R + 1000000
      /\ raw >= 0 => 1000000 * (raw - C) <= R + 1000000
  <2>1. raw \in Int
    BY <1>1
  <2> HIDE DEF raw
  <2> QED BY <2>1, ElapsedDrift
<1>4. B \in Nat /\ (raw >= 0 => R \in Nat /\ 40 * R <= B)
  <2> DEFINE b == 40 * (t - L) + s
  <2>1. b \in Nat /\ 40 * raw <= b
    BY <1>1
  <2>2. PICK d \in Nat : b = 40 * raw + d
    <3>1. b - (40 * raw) \in Nat /\ b = 40 * raw + (b - (40 * raw))
      BY <1>1, <2>1
    <3> QED BY <3>1
  <2> HIDE DEF b, p, raw
  <2>3. b * p \in Nat /\ d * p \in Nat /\ b * p = 40 * (raw * p) + d * p /\ raw * p \in Int
    BY <1>1, <1>2, <2>1, <2>2, Z3T(20)
  <2>4. raw >= 0 => raw * p \in Nat
    BY <1>1, <1>2, Z3T(20)
  <2> QED BY <2>3, <2>4 DEF b
<1>5. err = Magnitude((u + C) - t) /\ (u + C) - t = (C - raw) - (m - u)
  BY <1>1, <1>3
<1> HIDE DEF raw, C, p, u, R, B, err
<1>6. err \in Nat /\ (err = (u + C) - t \/ err = t - (u + C))
  BY <1>1, <1>3, <1>5 DEF Magnitude
<1>7. e \in Nat /\ err <= D + 1 + e /\ (e = 0 \/ e = err - D - 1)
  BY <1>6 DEF Higher
<1> HIDE DEF e
<1>8. 1000000 * (40 * e) <= B
  <2>1. CASE raw < 0
    <3>1. err <= D
      BY <1>1, <1>3, <1>5, <1>6, <2>1
    <3> QED BY <1>4, <1>6, <1>7, <3>1
  <2>2. CASE raw >= 0
    <3>1. 1000000 * (C - raw) <= R + 1000000 /\ 1000000 * (raw - C) <= R + 1000000
          /\ R \in Nat /\ 40 * R <= B
      BY <1>3, <1>4, <2>2
    <3>2. err <= D + (raw - C) \/ err <= C - raw
      BY <1>1, <1>3, <1>5, <1>6
    <3>3. 1000000 * e <= R
      BY <1>1, <1>3, <1>6, <1>7, <3>1, <3>2
    <3> QED BY <1>4, <1>7, <3>1, <3>3
  <2> QED BY <1>1, <2>1, <2>2
<1>9. ErrorExceeds(e, err, D, 40 * (t - L) + s, ppm)
  BY <1>7, <1>8 DEF ErrorExceeds, B, p
<1> QED BY <1>7, <1>9 DEF err, C, u, raw

(* An excess of y us is what p ppm drift in age, with the nudge of a pulse. *)
Drifted(y, age, p, s) == s * (40 * y) <= (40 * age + s) * p

(* Over the first ten seconds the excess is the drift of the estimate and   *)
(* at most 13 us, which the nudge of the anchor and the rounding leave.     *)
LEMMA DriftCovered ==
  ASSUME NEW s \in Nat \ {0}, NEW age \in Nat, NEW p \in 0 .. 500, NEW y \in Nat,
         Drifted(y, age, p, s)
  PROVE  y <= ((p * age) \div s) + 13
<1> DEFINE q == p * age
           G == q \div s
           r == q % s
           z == 40 * y - (40 * G + p)
<1>1. q \in Nat
  BY Z3T(20)
<1>2. (40 * age + s) * p = 40 * q + s * p
  BY Z3T(20)
<1> HIDE DEF q
<1>3. G \in Int /\ r \in 0 .. s - 1 /\ q = G * s + r
  BY <1>1, DivMod
<1> HIDE DEF G, r
<1>4. s * (40 * y) <= 40 * (G * s + r) + s * p
  BY <1>2, <1>3 DEF Drifted
<1>5. s * z = s * (40 * y) - (40 * (G * s) + s * p)
  BY <1>3, Z3T(20)
<1>6. z \in Int /\ s * z <= 40 * r
  <2>1. s * (40 * y) \in Int /\ G * s \in Int /\ s * p \in Int
    BY <1>3
  <2> QED BY <1>3, <1>4, <1>5, <2>1
<1> HIDE DEF z
<1>7. z < 40
  <2> SUFFICES ASSUME z >= 40 PROVE FALSE
    BY <1>6
  <2>1. s * z >= s * 40
    BY <1>6, Z3T(20)
  <2> QED BY <1>3, <1>6, <2>1
<1> QED BY <1>3, <1>6, <1>7 DEF z, G, q

(* What covers it later: h whole seconds after the entry of holdover.       *)
HeldDrift(p, h) == 10 * p + 500 * h + 513

(* After them it is covered by the growth of holdover: 500 us for each      *)
(* whole second, and the 1 ms it starts with for the second that is running.*)
LEMMA HoldoverCovered ==
  ASSUME NEW s \in Nat \ {0}, NEW x \in Nat, NEW p \in 0 .. 500, NEW y \in Nat,
         Drifted(y, 10 * s + x, p, s)
  PROVE  y <= HeldDrift(p, x \div s)
<1> DEFINE h == x \div s
           r == x % s
           z == 40 * y - (441 * p + 40 * (h * p))
<1>0. x \in Int
  OBVIOUS
<1>1. h \in Int /\ r \in 0 .. s - 1 /\ x = h * s + r
  BY <1>0, DivMod, Zenon
<1>2. h \in Nat
  BY Z3T(20)
<1> HIDE DEF h, r
<1>3. PICK d \in Nat : s = r + d
  <2>1. s - r \in Nat /\ s = r + (s - r)
    BY <1>1
  <2> QED BY <2>1
<1>4. (40 * (10 * s + x) + s) * p = 401 * (s * p) + 40 * (s * (h * p)) + 40 * (r * p)
  BY <1>1, <1>2, Z3T(20)
<1>5. s * p = r * p + d * p /\ d * p \in Nat /\ r * p \in Nat
  BY <1>1, <1>3, Z3T(20)
<1>6. s * z = s * (40 * y) - (441 * (s * p) + 40 * (s * (h * p)))
  BY <1>2, Z3T(20)
<1>7. h * p \in Nat /\ h * p <= 500 * h
  <2>1. PICK k \in Nat : 500 = p + k
    <3>1. 500 - p \in Nat /\ 500 = p + (500 - p)
      OBVIOUS
    <3> QED BY <3>1
  <2>2. h * p \in Nat /\ h * k \in Nat /\ 500 * h = h * p + h * k
    BY <1>2, <2>1, Z3T(20)
  <2> QED BY <2>2
<1>8. z \in Int /\ s * z <= 0
  <2>1. s * (40 * y) \in Int /\ s * (h * p) \in Int /\ s * p \in Int
    BY <1>7
  <2>2. s * (40 * y) <= 401 * (s * p) + 40 * (s * (h * p)) + 40 * (r * p)
    BY <1>4 DEF Drifted
  <2>3. s * z \in Int /\ z \in Int
    BY <1>7
  <2> HIDE DEF z
  <2> QED BY <1>5, <1>6, <2>1, <2>2, <2>3
<1> HIDE DEF z
<1>9. z <= 0
  <2> SUFFICES ASSUME z >= 1 PROVE FALSE
    BY <1>8
  <2>1. s * z >= s
    BY <1>8, Z3T(20)
  <2> QED BY <1>8, <2>1
<1>10. 40 * y <= 441 * p + 40 * (h * p)
  BY <1>7, <1>8, <1>9 DEF z
<1> QED BY <1>2, <1>7, <1>10 DEF h, HeldDrift

(* The greatest displacement of an edge. *)
LEMMA MaxLateIs == MaxLate \in Nat /\ \A o \in LATE \cup {0} : o <= MaxLate
<1> DEFINE S == LATE \cup {0}
           T == {n \in Nat : \E o \in S : n = SEC - 1 - o}
<1>1. SEC \in Nat \ {0}
  BY SecAssumption
<1>2. \A o \in S : o \in Nat /\ SEC - 1 - o \in Nat
  BY <1>1, EnvAssumption
<1>3. SEC - 1 \in T
  BY <1>1
<1>4. Min(T) \in T /\ \A n \in T : Min(T) <= n
  BY <1>3, MinNat
<1>5. PICK m \in S : Min(T) = SEC - 1 - m
  BY <1>4
<1>6. \A o \in S : m >= o
  <2> TAKE o \in S
  <2>1. SEC - 1 - o \in T
    BY <1>2
  <2> QED BY <1>1, <1>2, <1>4, <1>5, <2>1
<1>7. Max(S) \in S /\ \A o \in S : Max(S) >= o
  BY <1>6 DEF Max
<1> QED BY <1>2, <1>7 DEF MaxLate

(* The anchor, and the pulse that set it, lie within the displacement of an *)
(* edge after the second the anchor names.                                  *)
AnchorLate ==
  /\ clock_anchor.mono - clock_anchor.unix * SEC \in 0 .. MaxLate
  /\ last_pps_monotonic_us - clock_anchor.unix * SEC \in 0 .. MaxLate

(* The pulse polled last came on time or displaced; the one accepted last   *)
(* is not newer.                                                            *)
LateInv ==
  /\ EdgeOnTime(last_edge_us)
  /\ pps_locked => last_pps_monotonic_us <= last_edge_us /\ AnchorLate

(* What the time served is off by, in microseconds: the displacement, a     *)
(* tick, and an excess bounded by the drift of the estimate.                *)
LEMMA ErrorExcess ==
  ASSUME LoopInv, DisciplineInv, AnchorKept, LateInv, pps_locked
  PROVE  \E y \in Nat :
           /\ Magnitude(ServedTicks - now) * TICK_US <= (MaxLate + 1) * TICK_US + y
           /\ Drifted(y, now - last_pps_monotonic_us, Magnitude(freq_ppm), SEC)
<1> DEFINE M == clock_anchor.unix
           m == clock_anchor.mono
           L == last_pps_monotonic_us
           D == MaxLate
           w == TICK_US
           err == Magnitude(ServedTicks - now)
           B == (40 * (now - L) + SEC) * Magnitude(freq_ppm)
<1>1. /\ SEC \in Nat \ {0} /\ D \in Nat /\ now \in Int
      /\ M \in Int /\ m \in Int /\ L \in Int /\ L <= now
      /\ m - M * SEC \in 0 .. D /\ L - M * SEC \in 0 .. D /\ 40 * (L - m) <= SEC
  <2>1. SEC \in Nat \ {0} /\ D \in Nat /\ now \in Int /\ mon_edge \in Int /\ mon_edge <= now
    BY SecAssumption, MaxLateIs DEF LoopInv
  <2>2. /\ clock_anchor \in Anchor /\ L \in Int /\ L <= mon_edge
        /\ -SEC <= 40 * (m - L)
    BY DEF AnchorKept, AnchorNear
  <2>3. m - M * SEC \in 0 .. D /\ L - M * SEC \in 0 .. D
    BY DEF LateInv, AnchorLate
  <2>4. M \in Int /\ m \in Int
    BY <2>2 DEF Anchor
  <2> HIDE DEF M, m, L, D
  <2> QED BY <2>1, <2>2, <2>3, <2>4
<1>2. freq_ppm \in Int /\ -500 <= freq_ppm /\ freq_ppm <= 500
  BY DEF DisciplineInv, DisciplineTypeOK, SERVO_MAX_FREQ_PPM
<1>3. ServedTicks - now = (M * SEC + CorrectedElapsed(now - m, freq_ppm)) - now
  BY DEF ServedTicks
<1> HIDE DEF M, m, L, D
<1>4. PICK e \in Nat : err <= D + 1 + e /\ 1000000 * (40 * e) <= B
  <2>1. \E e \in Nat :
          ErrorExceeds(e, Magnitude((M * SEC + CorrectedElapsed(now - m, freq_ppm)) - now),
                       D, 40 * (now - L) + SEC, freq_ppm)
    BY <1>1, <1>2, ServedError, Zenon
  <2>2. PICK e \in Nat : ErrorExceeds(e, err, D, 40 * (now - L) + SEC, freq_ppm)
    BY <1>3, <2>1, Zenon
  <2> QED BY <2>2 DEF ErrorExceeds
<1>5. w \in Nat /\ w * SEC <= 1000000
  BY TickWithin
<1>6. err \in Nat
  <2>1. now - m \in Int /\ M * SEC \in Int
    BY <1>1
  <2>2. CorrectedElapsed(now - m, freq_ppm) \in Nat
    BY <1>2, <2>1, ElapsedNat
  <2>3. (M * SEC + CorrectedElapsed(now - m, freq_ppm)) - now \in Int
    BY <1>1, <2>1, <2>2
  <2> QED BY <1>3, <2>3 DEF Magnitude
<1>7. B \in Nat
  <2>1. Magnitude(freq_ppm) \in Nat /\ 40 * (now - L) + SEC \in Nat
    BY <1>1, <1>2 DEF Magnitude
  <2> QED BY <2>1, Z3T(20)
<1> HIDE DEF err, B, w
<1>8. (40 * e) * w \in Nat /\ SEC * ((40 * e) * w) <= B
  <2>1. 40 * e \in Nat
    OBVIOUS
  <2> QED BY <1>1, <1>4, <1>5, <1>7, <2>1, ExcessMicros
<1>9. e * w \in Nat /\ (40 * e) * w = 40 * (e * w)
  BY <1>5, Z3T(20)
<1>10. err * w <= (D + 1) * w + e * w
  <2>1. PICK d \in Nat : D + 1 + e = err + d
    <3>1. (D + 1 + e) - err \in Nat /\ D + 1 + e = err + ((D + 1 + e) - err)
      BY <1>1, <1>4, <1>6
    <3> QED BY <3>1
  <2>2. (D + 1) * w + e * w = err * w + d * w /\ d * w \in Nat /\ err * w \in Nat
    BY <1>1, <1>5, <1>6, <2>1, Z3T(20)
  <2> QED BY <2>2
<1> DEFINE P(y) == err * w <= (D + 1) * w + y /\ SEC * (40 * y) <= B
<1>11. P(e * w)
  BY <1>8, <1>9, <1>10
<1> HIDE DEF P
<1>12. \E y \in Nat : P(y)
  BY <1>9, <1>11
<1> QED BY <1>12 DEF P, Drifted, err, B, w, D, L

(* disp us are advertised for a pulse that is age ticks old.                *)
Advertised(disp, age, s) ==
  \/ age < 10 * s /\ disp >= 100 /\ (age >= s => disp >= 115)
  \/ disp = 1000 + 500 * (Higher(0, age - 10 * s) \div s)

(* What is advertised at stratum 1: a locked clock its floor of 100 us and  *)
(* the drift of a second, one in holdover 1 ms and 500 us for each whole    *)
(* second since its entry (discipline_params).                              *)
LEMMA AdvertisedFloor ==
  ASSUME LoopInv, DisciplineInv, NEW gps_fix, Stratum(gps_fix) = 1
  PROVE  /\ pps_locked /\ now - last_pps_monotonic_us \in Nat
         /\ DispUs(gps_fix) \in Nat
         /\ Advertised(DispUs(gps_fix), now - last_pps_monotonic_us, SEC)
<1> DEFINE age  == now - last_pps_monotonic_us
           held == Higher(0, age - 10 * SEC) \div SEC
<1>1. clock_anchor # NONE /\ pps_locked
  <2>1. CASE FullySynced(gps_fix)
    <3>1. last_pps_monotonic_us # NONE /\ clock_anchor # NONE
      BY <2>1 DEF FullySynced, PpsFresh
    <3> QED BY <3>1 DEF DisciplineInv, LockConsistent, DisciplineTypeOK
  <2>2. CASE HoldoverOk(gps_fix)
    BY <2>2 DEF HoldoverOk
  <2> QED BY <2>1, <2>2 DEF Stratum, STRATUM_UNSYNC
<1>2. SEC \in Nat \ {0} /\ age \in Nat /\ last_pps_monotonic_us # NONE
  <2>1. last_pps_monotonic_us \in 0 .. now /\ now \in Nat
    BY <1>1 DEF DisciplineInv, LockConsistent, LoopInv
  <2> QED BY <2>1, SecAssumption, NoneAssumption
<1>3. Higher(0, age - 10 * SEC) \in Nat
  BY <1>2 DEF Higher
<1>4. held \in Nat
  BY <1>2, <1>3, Z3T(20)
<1>5. CASE FullySynced(gps_fix)
  <2> DEFINE base == Higher(IF pps_has_sample THEN pps_jitter_us ELSE 100, 100)
             one == (15 * Lower(age, SEC)) \div SEC
  <2>1. age < 10 * SEC
    BY <1>5 DEF FullySynced, PpsFresh, HOLDOVER_ENTRY
  <2>2. DispUs(gps_fix) = base + one
    BY <1>5 DEF DispUs, LockedDisp, MIN_HW_ACCURACY_US, PHI_US_PER_S
  <2>3. base \in Nat /\ base >= 100
    BY DEF Higher, DisciplineInv, DisciplineTypeOK
  <2>4. one \in Nat
    <3>1. 15 * Lower(age, SEC) \in Nat
      BY <1>2 DEF Lower
    <3> QED BY <1>2, <3>1, Z3T(20)
  <2>5. age >= SEC => one = 15
    <3> SUFFICES ASSUME age >= SEC PROVE one = 15
      OBVIOUS
    <3>1. 15 * Lower(age, SEC) = 15 * SEC + 0
      BY <1>2 DEF Lower
    <3>2. 0 \in 0 .. SEC - 1 /\ 15 \in Int
      BY <1>2
    <3>3. (15 * SEC + 0) \div SEC = 15
      BY <1>2, <3>2, DivIs
    <3> QED BY <3>1, <3>3
  <2> HIDE DEF base, one
  <2>6. DispUs(gps_fix) \in Nat /\ DispUs(gps_fix) >= 100
        /\ (age >= SEC => DispUs(gps_fix) >= 115)
    BY <2>2, <2>3, <2>4, <2>5
  <2> QED BY <1>1, <1>2, <2>1, <2>6 DEF Advertised
<1>6. CASE ~FullySynced(gps_fix)
  <2>1. HoldoverOk(gps_fix)
    BY <1>6 DEF Stratum, STRATUM_UNSYNC
  <2>2. DispUs(gps_fix) = HoldoverDisp /\ HoldoverDisp < 1000000
    BY <1>1, <1>6, <2>1 DEF DispUs, HoldoverOk, HOLDOVER_UNSYNC_US
  <2>3. HoldoverDisp = Lower(1000 + 500 * held, 2000000)
    BY <1>2
       DEF HoldoverDisp, BASE_DISP_US, HOLDOVER_DISP_RATE_US_PER_SEC,
           MAX_DISP_US, HOLDOVER_ENTRY
  <2> HIDE DEF held
  <2>4. HoldoverDisp = 1000 + 500 * held
    BY <1>4, <2>2, <2>3 DEF Lower
  <2> QED BY <1>1, <1>2, <1>4, <2>2, <2>4 DEF Advertised, held
<1> QED BY <1>5, <1>6

(* The excess is covered by what is advertised and the drift of the first   *)
(* ten seconds, and up to 10 ppm by what is advertised alone.               *)
LEMMA ExcessCovered ==
  ASSUME NEW s \in Nat \ {0}, NEW age \in Nat, NEW p \in 0 .. 500, NEW y \in Nat,
         Drifted(y, age, p, s), NEW disp \in Nat, Advertised(disp, age, s)
  PROVE  /\ y <= disp + ((p * Lower(age, 10 * s)) \div s)
         /\ p <= 10 => y <= disp
<1>1. CASE age < 10 * s
  <2> DEFINE q == p * age
             G == q \div s
  <2>1. Lower(age, 10 * s) = age
    BY <1>1 DEF Lower
  <2>2. q \in Nat
    BY Z3T(20)
  <2>3. y <= G + 13
    BY DriftCovered, Zenon
  <2>4. G \in Nat
    BY <2>2, Z3T(20)
  <2>5. disp >= 100 /\ (age >= s => disp >= 115)
    <3>1. Higher(0, age - 10 * s) = 0
      BY <1>1 DEF Higher
    <3>2. 0 = 0 * s + 0 /\ 0 \in 0 .. s - 1
      OBVIOUS
    <3>3. 0 \div s = 0
      BY <3>2, DivIs
    <3> QED BY <3>1, <3>3 DEF Advertised
  <2>6. ASSUME p <= 10 PROVE y <= disp
    <3>1. PICK d \in Nat : 10 = p + d
      <4>1. 10 - p \in Nat /\ 10 = p + (10 - p)
        BY <2>6
      <4> QED BY <4>1
    <3>2. 10 * age = q + d * age /\ d * age \in Nat
      BY <3>1, Z3T(20)
    <3> HIDE DEF q
    <3>3. q < 100 * s /\ (age < s => q < 10 * s)
      BY <1>1, <2>2, <3>2
    <3>4. G < 100
      BY <2>2, <3>3, DivBelow
    <3>5. age < s => G < 10
      BY <2>2, <3>3, DivBelow
    <3> HIDE DEF G
    <3> QED BY <2>3, <2>4, <2>5, <3>4, <3>5
  <2> HIDE DEF G
  <2>7. y <= disp + G
    BY <2>3, <2>4, <2>5
  <2> QED BY <2>1, <2>6, <2>7 DEF G
<1>2. CASE age >= 10 * s
  <2> DEFINE x == age - 10 * s
             h == x \div s
  <2>1. x \in Nat /\ age = 10 * s + x
    BY <1>2
  <2>2. disp = 1000 + 500 * h
    <3>1. Higher(0, age - 10 * s) = x
      BY <2>1 DEF Higher
    <3> QED BY <1>2, <3>1 DEF Advertised
  <2> HIDE DEF x
  <2>3. y <= HeldDrift(p, h)
    <3>1. Drifted(y, 10 * s + x, p, s)
      BY <2>1
    <3> QED BY <2>1, <3>1, HoldoverCovered, Zenon
  <2>4. h \in Nat
    BY <2>1, Z3T(20)
  <2> HIDE DEF h
  <2>5. (p * Lower(age, 10 * s)) \div s = 10 * p
    <3>1. Lower(age, 10 * s) = 10 * s
      BY <1>2 DEF Lower
    <3>2. p * (10 * s) = (10 * p) * s + 0
      BY Z3T(20)
    <3>3. 10 * p \in Int /\ 0 \in 0 .. s - 1
      OBVIOUS
    <3>4. ((10 * p) * s + 0) \div s = 10 * p
      BY <3>3, DivIs
    <3> QED BY <3>1, <3>2, <3>4
  <2>6. y <= disp + 10 * p /\ (p <= 10 => y <= disp)
    BY <2>2, <2>3, <2>4 DEF HeldDrift
  <2> QED BY <2>5, <2>6
<1> QED BY <1>1, <1>2

(* What a client is told, while the frequency estimate is within 10 ppm of  *)
(* the truth: the root dispersion and the displacement of the edges cover   *)
(* the error, without the drift (discipline_params).                        *)
SmallEstimateCovered ==
  Stratum(fix) = 1 /\ Magnitude(freq_ppm) <= 10 =>
    Magnitude(ServedTicks - now) * TICK_US <= DispUs(fix) + (MaxLate + 1) * TICK_US

(* An anchor within the displacement keeps the error covered.               *)
LEMMA CoveredFromLate ==
  ASSUME LoopInv, DisciplineInv, AnchorKept, LateInv
  PROVE  DispersionCoversError /\ SmallEstimateCovered
<1> SUFFICES ASSUME Stratum(fix) = 1
             PROVE  DispersionCoversError /\ SmallEstimateCovered
  BY DEF DispersionCoversError, SmallEstimateCovered
<1> DEFINE age == now - last_pps_monotonic_us
           p == Magnitude(freq_ppm)
           disp == DispUs(fix)
           drift == (p * Lower(age, 10 * SEC)) \div SEC
           E == Magnitude(ServedTicks - now) * TICK_US
           F == (MaxLate + 1) * TICK_US
<1>1. pps_locked /\ age \in Nat /\ disp \in Nat /\ Advertised(disp, age, SEC)
  BY AdvertisedFloor
<1>2. PICK y \in Nat : E <= F + y /\ Drifted(y, age, p, SEC)
  BY <1>1, ErrorExcess
<1>3. p \in 0 .. 500
  BY DEF Magnitude, DisciplineInv, DisciplineTypeOK, SERVO_MAX_FREQ_PPM
<1>4. SEC \in Nat \ {0}
  BY SecAssumption
<1> HIDE DEF age, p, disp
<1>5. y <= disp + drift /\ (p <= 10 => y <= disp)
  BY <1>1, <1>2, <1>3, <1>4, ExcessCovered, Zenon
<1>6. E \in Int /\ F \in Int
  <2>1. ServedTicks \in Int
    <3>1. /\ clock_anchor \in Anchor /\ freq_ppm \in Int /\ now \in Int
          /\ SEC \in Int
      BY <1>1, SecAssumption
         DEF AnchorKept, AnchorNear, DisciplineInv, DisciplineTypeOK,
             SERVO_MAX_FREQ_PPM, LoopInv
    <3>2. clock_anchor.unix * SEC \in Int /\ now - clock_anchor.mono \in Int
      BY <3>1 DEF Anchor
    <3>3. CorrectedElapsed(now - clock_anchor.mono, freq_ppm) \in Nat
      BY <3>1, <3>2, ElapsedNat
    <3> QED BY <3>2, <3>3 DEF ServedTicks
  <2>2. Magnitude(ServedTicks - now) \in Int /\ TICK_US \in Int /\ MaxLate \in Int
    BY <2>1, TickNat, MaxLateIs DEF Magnitude, LoopInv
  <2> QED BY <2>2
<1>7. drift \in Int
  <2>1. p * Lower(age, 10 * SEC) \in Int
    BY <1>1, <1>3, <1>4 DEF Lower
  <2> QED BY <1>4, <2>1
<1> HIDE DEF E, F, drift
<1>8. E <= disp + drift + F /\ (p <= 10 => E <= disp + F)
  BY <1>1, <1>2, <1>5, <1>6, <1>7
<1>9. drift = EstimateDrift
  BY DEF drift, EstimateDrift, HOLDOVER_ENTRY, p, age
<1> QED BY <1>8, <1>9 DEF DispersionCoversError, SmallEstimateCovered, E, F, disp, p

-----------------------------------------------------------------------------
(* The advertised error: the anchor keeps within the displacement of the edges. *)

(* While the last accepted pulse is younger than the wrap, the interval of  *)
(* the pulse just polled is the time since the one polled before it         *)
(* (pps_delta_us).                                                          *)
LEMMA IntervalIs ==
  ASSUME LoopInv, DisciplineInv, pps_locked, last_pps_monotonic_us <= last_edge_us,
         now - last_pps_monotonic_us < INTERVAL_WRAP
  PROVE  PpsDelta(mon_edge, last_edge_us) = mon_edge - last_edge_us
<1>1. INTERVAL_WRAP \in Nat \ {0}
  BY SecAssumption DEF INTERVAL_WRAP
<1>2. /\ now \in Int /\ mon_edge \in 0 .. now /\ last_edge_us \in 0 .. mon_edge
      /\ last_pps_monotonic_us \in Int
  BY DEF LoopInv, DisciplineInv, LockConsistent
<1>3. mon_edge - last_edge_us \in 0 .. INTERVAL_WRAP - 1
  BY <1>1, <1>2
<1> QED BY <1>1, <1>3, ModBelow, Zenon DEF PpsDelta

(* Two edges on time or displaced whose distance the servo accepts start    *)
(* consecutive seconds.                                                     *)
LEMMA ConsecutiveEdges ==
  ASSUME TimelyEnvironment, NEW edge \in Int, EdgeOnTime(edge),
         NEW previous \in Int, EdgeOnTime(previous), InRange(edge - previous)
  PROVE  PhaseError(edge - previous) = (edge % SEC) - (previous % SEC)
<1> DEFINE E == edge \div SEC
           d == edge % SEC
           P == previous \div SEC
           c == previous % SEC
           K == (E - P) * SEC
<1>1. SEC \in Nat \ {0} /\ SEC >= 1000
  BY SecAssumption DEF TimelyEnvironment
<1>2. E \in Int /\ d \in 0 .. SEC - 1 /\ edge = E * SEC + d /\ 8 * d <= SEC
  <2>1. E \in Int /\ d \in 0 .. SEC - 1 /\ edge = E * SEC + d
    BY <1>1, DivMod, Zenon
  <2>2. 8 * d <= SEC
    BY DisplacedEdge, Zenon
  <2> QED BY <2>1, <2>2
<1>3. P \in Int /\ c \in 0 .. SEC - 1 /\ previous = P * SEC + c /\ 8 * c <= SEC
  <2>1. P \in Int /\ c \in 0 .. SEC - 1 /\ previous = P * SEC + c
    BY <1>1, DivMod, Zenon
  <2>2. 8 * c <= SEC
    BY DisplacedEdge, Zenon
  <2> QED BY <2>1, <2>2
<1> HIDE DEF E, d, P, c
<1>4. K \in Int /\ K = E * SEC - P * SEC /\ E * SEC \in Int /\ P * SEC \in Int
  BY <1>1, <1>2, <1>3, Z3T(20)
<1>5. /\ E - P <= 0 => K <= 0
      /\ E - P = 1 => K = SEC
      /\ E - P >= 2 => K >= 2 * SEC
  BY <1>1, <1>2, <1>3, Z3T(20)
<1> HIDE DEF K
<1>6. edge - previous = K + d - c
  BY <1>2, <1>3, <1>4
<1>7. 10 * (edge - previous) > 8 * SEC - 10 /\ 10 * (edge - previous) <= 12 * SEC
  <2>1. /\ MIN_INTERVAL \in Int /\ 10 * MIN_INTERVAL > 8 * SEC - 10
        /\ MAX_INTERVAL \in Int /\ 10 * MAX_INTERVAL <= 12 * SEC
    BY <1>1 DEF MIN_INTERVAL, MAX_INTERVAL
  <2>2. edge - previous >= MIN_INTERVAL /\ edge - previous <= MAX_INTERVAL
    BY <2>1 DEF InRange
  <2>3. edge - previous \in Int
    OBVIOUS
  <2> QED BY <1>1, <2>1, <2>2, <2>3
<1>8. K = SEC
  <2>1. 10 * K > 6 * SEC /\ 10 * K < 20 * SEC
    BY <1>1, <1>2, <1>3, <1>4, <1>6, <1>7
  <2>2. E - P = 1
    BY <1>1, <1>2, <1>3, <1>4, <1>5, <2>1
  <2> QED BY <1>5, <2>2
<1> QED BY <1>1, <1>2, <1>3, <1>6, <1>8 DEF PhaseError, d, c

(* The nudge moves the anchor a tenth of the way from one displacement to   *)
(* the one before, never past the greatest.                                 *)
LEMMA NudgeWithin ==
  ASSUME NEW D \in Nat, NEW d \in 0 .. D, NEW c \in 0 .. D
  PROVE  d - Truncated(d - c, SERVO_KP_INV) \in 0 .. D
<1>1. CASE d - c < 0
  <2>1. Truncated(d - c, SERVO_KP_INV) = -((-(d - c)) \div 10)
    BY <1>1 DEF Truncated, SERVO_KP_INV
  <2>2. (-(d - c)) \div 10 \in 0 .. c - d
    BY <1>1
  <2> QED BY <1>1, <2>1, <2>2
<1>2. CASE ~(d - c < 0)
  <2>1. Truncated(d - c, SERVO_KP_INV) = (d - c) \div 10
    BY <1>2 DEF Truncated, SERVO_KP_INV
  <2>2. (d - c) \div 10 \in 0 .. d - c
    BY <1>2
  <2> QED BY <1>2, <2>1, <2>2
<1> QED BY <1>1, <1>2

(* An edge is displaced by at most the greatest displacement. *)
LEMMA EdgeWithin ==
  ASSUME NEW edge \in Int, EdgeOnTime(edge)
  PROVE  /\ edge % SEC \in 0 .. MaxLate /\ edge \div SEC \in Int
         /\ edge = (edge \div SEC) * SEC + (edge % SEC)
<1>1. SEC \in Nat \ {0}
  BY SecAssumption
<1>2. /\ edge \div SEC \in Int /\ edge % SEC \in 0 .. SEC - 1
      /\ edge = (edge \div SEC) * SEC + (edge % SEC)
  BY <1>1, DivMod
<1>3. edge % SEC <= MaxLate /\ MaxLate \in Nat
  BY MaxLateIs DEF EdgeOnTime
<1> QED BY <1>1, <1>2, <1>3

(* An anchor set at an edge, moved by a nudge that stays within the         *)
(* displacement.                                                            *)
LEMMA LateAtEdge ==
  ASSUME NEW edge \in Int, EdgeOnTime(edge), NEW nudge \in Int,
         (edge % SEC) - nudge \in 0 .. MaxLate,
         clock_anchor' = AnchorAt(edge \div SEC, edge - nudge),
         last_pps_monotonic_us' = edge
  PROVE  AnchorLate'
<1> DEFINE E == edge \div SEC
           d == edge % SEC
           u == E * SEC
<1>1. SEC \in Int /\ MaxLate \in Nat
  BY SecAssumption, MaxLateIs
<1>2. d \in 0 .. MaxLate /\ E \in Int /\ edge = u + d
  BY EdgeWithin
<1>3. clock_anchor'.unix = E /\ clock_anchor'.mono = edge - nudge
  BY DEF AnchorAt
<1> HIDE DEF E, d
<1>4. u \in Int
  BY <1>1, <1>2
<1> HIDE DEF u
<1>5. (edge - nudge) - u = d - nudge /\ edge - u = d
  BY <1>1, <1>2, <1>4
<1>6. /\ (edge - nudge) - u \in 0 .. MaxLate
      /\ edge - u \in 0 .. MaxLate
  BY <1>2, <1>5 DEF d
<1>7. MaxLate' = MaxLate
  BY DEF MaxLate
<1> QED BY <1>3, <1>6, <1>7 DEF AnchorLate, u

(* A pulse that locks the clock. *)
LEMMA LockLate ==
  ASSUME TimelyEnvironment, LoopInv, DisciplineInv, SecondInv, LateInv,
         UNCHANGED mon_edge, last_edge_us' = mon_edge, LockIfFresh(mon_edge)
  PROVE  LateInv'
<1>1. mon_edge \in Int /\ EdgeOnTime(mon_edge)
  BY DEF LoopInv, SecondInv
<1>2. EdgeOnTime(last_edge_us)'
  BY <1>1 DEF EdgeOnTime
<1>3. CASE GpsSecondAtEdge(mon_edge) = NONE
  <2>1. UNCHANGED ntpVars
    BY <1>3 DEF LockIfFresh
  <2>2. pps_locked => last_pps_monotonic_us <= mon_edge
    BY DEF SecondInv, AnchorKept
  <2> QED
    BY <1>2, <2>1, <2>2 DEF ntpVars, lastPulse, LateInv, AnchorLate, MaxLate
<1>4. CASE GpsSecondAtEdge(mon_edge) # NONE
  <2>1. GpsSecondAtEdge(mon_edge) = mon_edge \div SEC
    BY <1>1, <1>4, PairedSecondRight DEF SecondInv, DisciplineInv
  <2>2. LockAnchor(mon_edge \div SEC, mon_edge)
    BY <1>4, <2>1 DEF LockIfFresh
  <2>3. /\ clock_anchor' = AnchorAt(mon_edge \div SEC, mon_edge - 0)
        /\ last_pps_monotonic_us' = mon_edge
    BY <1>1, <2>2 DEF LockAnchor
  <2>4. (mon_edge % SEC) - 0 \in 0 .. MaxLate
    BY <1>1, EdgeWithin, MaxLateIs
  <2>5. AnchorLate'
    BY <1>1, <2>3, <2>4, LateAtEdge
  <2> QED BY <1>1, <1>2, <2>3, <2>5 DEF LateInv
<1> QED BY <1>3, <1>4

(* A pulse that the servo accepts: it follows the one polled before it by a *)
(* second, but for the displacements, and the anchor moves between them.    *)
LEMMA AcceptLate ==
  ASSUME TimelyEnvironment, LoopInv, DisciplineInv, SecondInv, LateInv, PulsesKeepComing,
         UNCHANGED mon_edge, last_edge_us' = mon_edge,
         AcceptPulse(PpsDelta(mon_edge, last_edge_us), mon_edge)
  PROVE  LateInv'
<1> DEFINE interval == PpsDelta(mon_edge, last_edge_us)
           err == PhaseError(interval)
           nudge == Truncated(err, SERVO_KP_INV)
           d == mon_edge % SEC
           c == last_edge_us % SEC
<1>1. /\ mon_edge \in Int /\ last_edge_us \in Int /\ SEC \in Nat \ {0}
      /\ EdgeOnTime(mon_edge) /\ EdgeOnTime(last_edge_us)
  BY SecAssumption DEF LoopInv, SecondInv, LateInv
<1>2. pps_locked /\ InRange(interval)
  BY DEF AcceptPulse
<1>3. interval = mon_edge - last_edge_us
  <2>1. now - last_pps_monotonic_us <= 600 * SEC /\ last_pps_monotonic_us <= last_edge_us
    BY <1>2 DEF PulsesKeepComing, LateInv
  <2>2. now \in Int /\ last_pps_monotonic_us \in Int
    BY <1>2 DEF LoopInv, DisciplineInv, LockConsistent
  <2>3. INTERVAL_WRAP \in Int /\ 600 * SEC < INTERVAL_WRAP
    BY <1>1 DEF INTERVAL_WRAP
  <2>4. now - last_pps_monotonic_us < INTERVAL_WRAP
    BY <1>1, <2>1, <2>2, <2>3
  <2> QED BY <1>2, <2>1, <2>4, IntervalIs, Zenon
<1>4. err = d - c
  BY <1>1, <1>2, <1>3, ConsecutiveEdges, Zenon
<1>5. d \in 0 .. MaxLate /\ c \in 0 .. MaxLate /\ MaxLate \in Nat
  BY <1>1, EdgeWithin, MaxLateIs
<1> HIDE DEF d, c
<1>6. d - nudge \in 0 .. MaxLate /\ nudge \in Int
  <2>1. d - Truncated(d - c, SERVO_KP_INV) \in 0 .. MaxLate
    BY <1>5, NudgeWithin
  <2>2. Truncated(d - c, SERVO_KP_INV) \in Int
    <3>1. d - c \in Int
      BY <1>5
    <3> QED BY <3>1 DEF Truncated, SERVO_KP_INV
  <2> QED BY <1>4, <2>1, <2>2
<1>7. /\ clock_anchor' = AnchorAt(mon_edge \div SEC, mon_edge - nudge)
      /\ last_pps_monotonic_us' = mon_edge
  <2>1. interval \in Nat
    BY <1>3 DEF LoopInv
  <2> QED BY <2>1, AcceptedSecond
<1> HIDE DEF nudge, interval
<1>8. AnchorLate'
  BY <1>1, <1>6, <1>7, LateAtEdge DEF d
<1>9. EdgeOnTime(last_edge_us)'
  BY <1>1 DEF EdgeOnTime
<1> QED BY <1>1, <1>7, <1>8, <1>9 DEF LateInv

(* Every observed pulse leaves the anchor within the displacement. *)
LEMMA PulseLate ==
  ASSUME TimelyEnvironment, LoopInv, DisciplineInv, SecondInv, LateInv, PulsesKeepComing,
         NEW enabled \in BOOLEAN, PpsPulse(enabled)
  PROVE  LateInv'
<1>1. UNCHANGED mon_edge /\ last_edge_us' = mon_edge
  BY DEF PpsPulse
<1>2. ASSUME UNCHANGED <<clock_anchor, pps_locked, last_pps_monotonic_us>>
      PROVE  LateInv'
  <2>1. EdgeOnTime(last_edge_us)'
    BY <1>1 DEF EdgeOnTime, SecondInv
  <2>2. pps_locked => last_pps_monotonic_us <= mon_edge
    BY DEF SecondInv, AnchorKept
  <2> QED BY <1>1, <1>2, <2>1, <2>2 DEF LateInv, AnchorLate, MaxLate
<1>3. CASE last_edge_us > 0
  <2> DEFINE interval == PpsDelta(mon_edge, last_edge_us)
  <2>1. ObserveDelta(interval, mon_edge)
    BY <1>3, Zenon DEF PpsPulse
  <2> HIDE DEF interval
  <2>2. CASE RejectInterval(interval)
    BY <1>2, <2>2 DEF RejectInterval, ntpVars, lastPulse
  <2>3. CASE DeltaFirstLock(interval, mon_edge)
    BY <1>1, <2>3, LockLate DEF DeltaFirstLock
  <2>4. CASE RejectOutlier(interval)
    BY <1>2, <2>4 DEF RejectOutlier, lastPulse
  <2>5. CASE AcceptPulse(interval, mon_edge)
    BY <1>1, <2>5, AcceptLate DEF interval
  <2> QED BY <2>1, <2>2, <2>3, <2>4, <2>5 DEF ObserveDelta
<1>4. CASE ~(last_edge_us > 0)
  <2>1. ObserveFirst(mon_edge)
    BY <1>4, Zenon DEF PpsPulse
  <2> QED BY <1>1, <2>1, LockLate DEF ObserveFirst
<1> QED BY <1>3, <1>4

(* Only an observed pulse moves a locked anchor. *)
LEMMA LateStep ==
  ASSUME TimelyEnvironment, LoopInv, DisciplineInv, SecondInv, LateInv, PulsesKeepComing,
         [Next]_vars
  PROVE  LateInv'
<1>1. ASSUME UNCHANGED <<last_edge_us, pps_locked, last_pps_monotonic_us>>,
             pps_locked => UNCHANGED clock_anchor
      PROVE  LateInv'
  BY <1>1 DEF LateInv, AnchorLate, EdgeOnTime, MaxLate
<1>2. UNCHANGED ntpVars /\ UNCHANGED last_edge_us => LateInv'
  BY <1>1 DEF ntpVars, lastPulse
<1>3. CASE Tick
  <2>1. UNCHANGED ntpVars
    BY <1>3, TickStep DEF TimePasses
  <2>2. UNCHANGED last_edge_us
    BY <1>3
       DEF Tick, TickQuiet, TickEdge, TickNoEdge, TickStrayEdge, TickSentence,
           TickVoid, TickLost, Outage, RecordEdge, ppsVars
  <2> QED BY <1>2, <2>1, <2>2
<1>4. ASSUME NEW utc, SeedUtcSeconds(utc), UNCHANGED last_edge_us
      PROVE  LateInv'
  BY <1>1, <1>4 DEF SeedUtcSeconds, lastPulse
<1>5. CASE Boot
  BY <1>2, <1>4, <1>5 DEF Boot, ppsVars
<1>6. CASE GpsPoll
  <2>1. UNCHANGED last_edge_us
    BY <1>6 DEF GpsPoll, ppsVars
  <2>2. UNCHANGED ntpVars \/ \E utc : UpdateGpsUtcSeconds(utc)
    BY <1>6 DEF GpsPoll
  <2>3. ASSUME NEW utc, UpdateGpsUtcSeconds(utc)
        PROVE  LateInv'
    BY <1>1, <2>1, <2>3 DEF UpdateGpsUtcSeconds, lastPulse
  <2> QED BY <1>2, <2>1, <2>2, <2>3
<1>7. CASE RtcFallback
  BY <1>2, <1>4, <1>7 DEF RtcFallback, ppsVars
<1>8. CASE PpsIdle
  BY <1>2, <1>8 DEF PpsIdle, ppsVars, disciplineVars
<1>9. CASE \E enabled \in BOOLEAN : PpsPulse(enabled)
  BY <1>9, PulseLate
<1>10. CASE SelfCheck
  BY <1>2, <1>10 DEF SelfCheck, ppsVars, disciplineVars
<1>11. CASE UNCHANGED vars
  BY <1>2, <1>11 DEF vars, ppsVars, disciplineVars
<1> QED
  BY <1>3, <1>5, <1>6, <1>7, <1>8, <1>9, <1>10, <1>11 DEF Next, Loop, Horizon

(* The anchor never leaves the displacement of the edges: the proportional  *)
(* path moves it between the displacements of two consecutive edges, and    *)
(* rejected pulses leave it alone (observe_pps_pulse).                      *)
LEMMA LateInvHolds ==
  ASSUME TimelyEnvironment
  PROVE  Spec /\ []PulsesKeepComing => []LateInv
<1>1. Init => LateInv
  <2>1. SEC \in Nat \ {0} /\ 0 \in 0 .. SEC - 1
    BY SecAssumption
  <2>2. 0 % SEC = 0
    BY <2>1, ModBelow
  <2> QED BY <2>2 DEF Init, DisciplineInit, LateInv, EdgeOnTime
<1>2. LoopInv /\ DisciplineInv /\ SecondInv /\ PulsesKeepComing /\ LateInv /\ [Next]_vars
        => LateInv'
  BY LateStep
<1>3. Spec => []DisciplineInv
  BY ImplementsDiscipline, LockConsistentHolds, PTL DEF DisciplineInv
<1> QED BY <1>1, <1>2, <1>3, LoopInvHolds, SecondInvHolds, PTL DEF Spec

(* A client that takes the time at stratum 1 is told how far off it may be: *)
(* the root dispersion, the displacement of the edges and the drift of a    *)
(* wrong estimate in the first ten seconds bound the error, for any number  *)
(* of missed, displaced and rejected pulses and silences of up to ten       *)
(* minutes (discipline_params against current_ntp_timestamp).               *)
THEOREM DispersionCoversErrorHolds ==
  ASSUME TimelyEnvironment
  PROVE  Spec /\ []PulsesKeepComing => []DispersionCoversError
<1>1. LoopInv /\ DisciplineInv /\ SecondInv /\ LateInv => DispersionCoversError
  <2> SUFFICES ASSUME LoopInv, DisciplineInv, SecondInv, LateInv
               PROVE  DispersionCoversError
    OBVIOUS
  <2>1. AnchorKept
    BY DEF SecondInv
  <2> QED BY <2>1, CoveredFromLate
<1>2. Spec => []DisciplineInv
  BY ImplementsDiscipline, LockConsistentHolds, PTL DEF DisciplineInv
<1> QED BY <1>1, <1>2, LoopInvHolds, SecondInvHolds, LateInvHolds, PTL

(* While the estimate is within 10 ppm of the truth the root dispersion     *)
(* needs no help: the 100 us floor of a locked clock and the 1 ms holdover  *)
(* starts with are the drift of the first ten seconds (discipline_params).  *)
THEOREM SmallEstimateCoveredHolds ==
  ASSUME TimelyEnvironment
  PROVE  Spec /\ []PulsesKeepComing => []SmallEstimateCovered
<1>1. LoopInv /\ DisciplineInv /\ SecondInv /\ LateInv => SmallEstimateCovered
  <2> SUFFICES ASSUME LoopInv, DisciplineInv, SecondInv, LateInv
               PROVE  SmallEstimateCovered
    OBVIOUS
  <2>1. AnchorKept
    BY DEF SecondInv
  <2> QED BY <2>1, CoveredFromLate
<1>2. Spec => []DisciplineInv
  BY ImplementsDiscipline, LockConsistentHolds, PTL DEF DisciplineInv
<1> QED BY <1>1, <1>2, LoopInvHolds, SecondInvHolds, LateInvHolds, PTL

-----------------------------------------------------------------------------
(* The types of the loop, the clock after a lock, and the range filter. *)

(* The rest of the loop's state. *)
LoopTypes ==
  /\ pc \in {"boot", "gps", "rtc", "pps", "check", "sleep"}
  /\ armed \in BOOLEAN /\ mon_new \in BOOLEAN
  /\ fix \in BOOLEAN /\ utc_unix_seconds \in IntOrNone

(* Time passing keeps the types. *)
LEMMA TypesTick ==
  ASSUME LoopTypes, Tick
  PROVE  LoopTypes'
<1>1. UNCHANGED <<fix, utc_unix_seconds>>
  BY DEF Tick, TickQuiet, TickEdge, TickNoEdge, TickStrayEdge, TickSentence,
         TickVoid, TickLost, Outage, loopVars
<1>2. UNCHANGED <<armed, mon_new>> \/ (armed' = FALSE /\ mon_new' = TRUE)
  BY DEF Tick, TickQuiet, TickEdge, TickNoEdge, TickStrayEdge, TickSentence,
         TickVoid, TickLost, Outage, RecordEdge, ppsVars
<1>3. pc' \in {pc, "gps"}
  BY DEF Tick, TickQuiet, TickEdge, TickNoEdge, TickStrayEdge, TickSentence,
         TickVoid, TickLost, Outage, Passes
<1> QED BY <1>1, <1>2, <1>3 DEF LoopTypes

(* A step of the loop keeps the types: what it takes from a sentence is one *)
(* (GpsUart::poll, parse_rmc).                                              *)
LEMMA TypesLoop ==
  ASSUME LoopInv, LoopTypes, Loop
  PROVE  LoopTypes'
<1>1. CASE GpsPoll
  <2>1. pc' = "rtc" /\ UNCHANGED <<armed, mon_new>>
    BY <1>1 DEF GpsPoll, ppsVars
  <2>2. CASE uart = <<>>
    BY <1>1, <2>1, <2>2 DEF GpsPoll, LoopTypes
  <2>3. CASE uart # <<>>
    <3>1. uart \in Seq(Sentences)
      BY DEF LoopInv
    <3>2. Len(uart) \in DOMAIN uart
      BY <2>3, <3>1
    <3>3. uart[Len(uart)] \in Sentences
      BY <3>1, <3>2, ElementOfSeq, LenProperties
    <3>4. fix' = uart[Len(uart)].fix /\ utc_unix_seconds' = uart[Len(uart)].utc
      BY <1>1, <2>3 DEF GpsPoll
    <3> QED BY <2>1, <3>3, <3>4 DEF LoopTypes, Sentences
  <2> QED BY <2>2, <2>3
<1>2. ASSUME NEW enabled \in BOOLEAN, PpsPulse(enabled)
      PROVE  LoopTypes'
  <2>1. /\ pc' = "check" /\ armed' = enabled /\ mon_new' = FALSE
        /\ UNCHANGED <<fix, utc_unix_seconds>>
    BY <1>2 DEF PpsPulse
  <2> QED BY <2>1 DEF LoopTypes
<1>3. CASE Boot \/ RtcFallback \/ PpsIdle \/ SelfCheck
  BY <1>3 DEF Boot, RtcFallback, PpsIdle, SelfCheck, LoopTypes, ppsVars, loopVars
<1> QED BY <1>1, <1>2, <1>3 DEF Loop

(* Every variable of the time path keeps its type, and the UART ring its    *)
(* size (app::run, GpsUart, PpsMonitor, NtpServer).                         *)
THEOREM TypeOKHolds == Spec => []TypeOK
<1>1. Init => LoopTypes
  BY DEF Init, LoopTypes, IntOrNone
<1>2. LoopInv /\ LoopTypes /\ [Next]_vars => LoopTypes'
  <2> SUFFICES ASSUME LoopInv, LoopTypes, [Next]_vars
               PROVE  LoopTypes'
    OBVIOUS
  <2>1. CASE Tick
    BY <2>1, TypesTick
  <2>2. CASE Loop
    BY <2>2, TypesLoop
  <2>3. CASE UNCHANGED vars
    BY <2>3 DEF vars, ppsVars, loopVars, LoopTypes
  <2> QED BY <2>1, <2>2, <2>3 DEF Next, Horizon
<1>3. LoopInv /\ DisciplineTypeOK /\ LoopTypes => TypeOK
  BY DEF LoopInv, LoopTypes, TypeOK, Sentences
<1>4. Spec => []DisciplineTypeOK
  BY ImplementsDiscipline, LockConsistentHolds, PTL
<1> QED BY <1>1, <1>2, <1>3, <1>4, LoopInvHolds, PTL DEF Spec

(* Neither the discipline nor its caller ever gives up a lock. *)
LEMMA LockStays == pps_locked /\ [DisciplineNext]_disciplineVars => pps_locked'
BY DEF DisciplineNext, TimePasses, SetLeapIndicator, SeedUtcSeconds,
       UpdateGpsUtcSeconds, ObserveFirst, ObserveDelta, RejectInterval,
       DeltaFirstLock, RejectOutlier, AcceptPulse, LockIfFresh, LockAnchor,
       ntpVars, disciplineVars

(* The comment of observe_pps_pulse holds while the loop runs: a late or    *)
(* lost sentence, a displaced or missing edge never steps a right clock. It *)
(* takes a stall of the loop, or a leap second, to do that.                 *)
THEOREM TransientNeverStepsHolds ==
  ASSUME TimelyEnvironment
  PROVE  Spec /\ []PulsesKeepComing => TransientNeverSteps
<1>1. SecondRight' /\ [DisciplineNext]_disciplineVars
        => [pps_locked /\ AnchorRight => AnchorRight']_vars
  BY LockStays DEF SecondRight
<1> QED
  BY <1>1, SecondRightHolds, ImplementsDiscipline, PTL
     DEF DisciplineSpec, TransientNeverSteps

(* The accepted pulse is not newer than the one polled last. *)
CursorInv ==
  /\ mon_new => mon_edge > 0
  /\ pps_locked => last_pps_monotonic_us > 0 /\ last_pps_monotonic_us <= last_edge_us

(* Less than the wrap of pps_delta_us since the last accepted pulse. *)
WithinWrap == pps_locked => now - last_pps_monotonic_us < INTERVAL_WRAP

(* What an observed pulse does to the lock and to the last accepted pulse.  *)
LEMMA PulseAccepted ==
  ASSUME LoopInv, DisciplineInv, CursorInv, NEW enabled \in BOOLEAN, PpsPulse(enabled)
  PROVE  /\ last_edge_us' = mon_edge /\ mon_edge > 0 /\ ~mon_new'
         /\ \/ UNCHANGED <<pps_locked, last_pps_monotonic_us>>
            \/ pps_locked' /\ last_pps_monotonic_us' = mon_edge
         /\ pps_locked /\ last_pps_monotonic_us' # last_pps_monotonic_us
              => InRange(PpsDelta(mon_edge, last_edge_us))
<1>1. last_edge_us' = mon_edge /\ mon_edge > 0 /\ ~mon_new'
  BY DEF PpsPulse, CursorInv
<1>2. pps_locked => clock_anchor # NONE
  BY DEF DisciplineInv, LockConsistent
<1>3. ASSUME NEW edge, LockIfFresh(edge)
      PROVE  \/ UNCHANGED <<pps_locked, last_pps_monotonic_us>>
             \/ pps_locked' /\ last_pps_monotonic_us' = edge
  BY <1>3 DEF LockIfFresh, LockAnchor, ntpVars, lastPulse
<1>4. CASE last_edge_us > 0
  <2> DEFINE interval == PpsDelta(mon_edge, last_edge_us)
  <2>1. ObserveDelta(interval, mon_edge)
    BY <1>4, Zenon DEF PpsPulse
  <2> HIDE DEF interval
  <2>2. CASE RejectInterval(interval)
    BY <1>1, <2>2 DEF RejectInterval, ntpVars, lastPulse
  <2>3. CASE DeltaFirstLock(interval, mon_edge)
    BY <1>1, <1>2, <1>3, <2>3 DEF DeltaFirstLock
  <2>4. CASE RejectOutlier(interval)
    BY <1>1, <2>4 DEF RejectOutlier, lastPulse
  <2>5. CASE AcceptPulse(interval, mon_edge)
    BY <1>1, <2>5 DEF AcceptPulse, interval
  <2> QED BY <2>1, <2>2, <2>3, <2>4, <2>5 DEF ObserveDelta
<1>5. CASE ~(last_edge_us > 0)
  <2>1. ObserveFirst(mon_edge)
    BY <1>5, Zenon DEF PpsPulse
  <2>2. ~pps_locked
    BY <1>5 DEF CursorInv, LoopInv, DisciplineInv, LockConsistent
  <2> QED BY <1>1, <1>3, <2>1, <2>2 DEF ObserveFirst
<1> QED BY <1>4, <1>5

(* Only an observed pulse moves the cursor, the lock or the last pulse. *)
LEMMA CursorStep ==
  ASSUME LoopInv, DisciplineInv, CursorInv, [Next]_vars
  PROVE  /\ CursorInv'
         /\ WithinWrap /\ pps_locked /\ last_pps_monotonic_us' # last_pps_monotonic_us
              => InRange(mon_edge - last_edge_us)
<1>1. ASSUME UNCHANGED <<last_edge_us, pps_locked, last_pps_monotonic_us>>,
             \/ UNCHANGED <<mon_new, mon_edge>>
             \/ mon_edge' > 0
      PROVE  /\ CursorInv'
             /\ last_pps_monotonic_us' = last_pps_monotonic_us
  BY <1>1 DEF CursorInv
<1>2. CASE Tick
  <2>1. UNCHANGED <<pps_locked, last_pps_monotonic_us>>
    BY <1>2, TickStep DEF TimePasses, ntpVars, lastPulse
  <2>2. Instant > 0
    BY InstantAhead DEF LoopInv
  <2>3. /\ UNCHANGED last_edge_us
        /\ UNCHANGED <<mon_new, mon_edge>> \/ mon_edge' = Instant
    BY <1>2
       DEF Tick, TickQuiet, TickEdge, TickNoEdge, TickStrayEdge, TickSentence,
           TickVoid, TickLost, Outage, RecordEdge, ppsVars
  <2> QED BY <1>1, <2>1, <2>2, <2>3
<1>3. CASE Boot \/ GpsPoll \/ RtcFallback \/ PpsIdle \/ SelfCheck \/ UNCHANGED vars
  <2>1. UNCHANGED <<last_edge_us, mon_new, mon_edge>>
    BY <1>3 DEF Boot, GpsPoll, RtcFallback, PpsIdle, SelfCheck, vars, ppsVars
  <2>2. UNCHANGED <<pps_locked, last_pps_monotonic_us>>
    BY <1>3
       DEF Boot, GpsPoll, RtcFallback, PpsIdle, SelfCheck, vars, disciplineVars,
           ntpVars, lastPulse, SeedUtcSeconds, UpdateGpsUtcSeconds
  <2> QED BY <1>1, <2>1, <2>2
<1>4. ASSUME NEW enabled \in BOOLEAN, PpsPulse(enabled)
      PROVE  /\ CursorInv'
             /\ WithinWrap /\ pps_locked /\ last_pps_monotonic_us' # last_pps_monotonic_us
                  => InRange(mon_edge - last_edge_us)
  <2>1. /\ last_edge_us' = mon_edge /\ mon_edge > 0 /\ ~mon_new'
        /\ \/ UNCHANGED <<pps_locked, last_pps_monotonic_us>>
           \/ pps_locked' /\ last_pps_monotonic_us' = mon_edge
        /\ pps_locked /\ last_pps_monotonic_us' # last_pps_monotonic_us
             => InRange(PpsDelta(mon_edge, last_edge_us))
    BY <1>4, PulseAccepted
  <2>2. /\ mon_edge \in Int /\ last_edge_us \in Int /\ last_edge_us <= mon_edge
        /\ pps_locked => last_pps_monotonic_us \in Int
    BY DEF LoopInv, DisciplineInv, LockConsistent
  <2>3. CursorInv'
    BY <2>1, <2>2 DEF CursorInv
  <2>4. WithinWrap /\ pps_locked
          => PpsDelta(mon_edge, last_edge_us) = mon_edge - last_edge_us
    BY IntervalIs DEF WithinWrap, CursorInv
  <2> QED BY <2>1, <2>3, <2>4
<1> QED BY <1>2, <1>3, <1>4 DEF Next, Loop, Horizon

(* The range filter does what the manual says of it as long as the last     *)
(* accepted pulse is younger than the wrap of the 32-bit interval, 4294 s:  *)
(* whatever stalls, strays and silences there are (observe_pps_pulse on     *)
(* pps_delta_us).                                                           *)
THEOREM AcceptedIntervalHolds == Spec /\ []WithinWrap => AcceptedIntervalValid
<1>1. Init => CursorInv
  BY DEF Init, DisciplineInit, CursorInv
<1>2. LoopInv /\ DisciplineInv /\ CursorInv /\ [Next]_vars => CursorInv'
  BY CursorStep
<1>3. LoopInv /\ DisciplineInv /\ CursorInv /\ WithinWrap /\ [Next]_vars
        => [pps_locked /\ last_pps_monotonic_us' # last_pps_monotonic_us
              => InRange(mon_edge - last_edge_us)]_vars
  BY CursorStep
<1>4. Spec => []DisciplineInv
  BY ImplementsDiscipline, LockConsistentHolds, PTL DEF DisciplineInv
<1> QED
  BY <1>1, <1>2, <1>3, <1>4, LoopInvHolds, PTL DEF Spec, AcceptedIntervalValid

=============================================================================
