---------------------------- MODULE RtcChip_proofs ----------------------------
(***************************************************************************)
(* Proofs about RtcChip, for every lag and any number of restarts: the     *)
(* register codec gives back every date it is given, whatever reaches the  *)
(* chip is a time or a torn one, and the clock only stands still between   *)
(* two writes for a reason.                                                *)
(***************************************************************************)
EXTENDS RtcChip, TLAPS

(***************************************************************************)
(* Register codec.                                                         *)
(***************************************************************************)

\* The dates of the code's u16 year and u8 fields that name a day and a time.
Dates == [second : 0 .. 59, minute : 0 .. 59, hour : 0 .. 23,
          day : 1 .. 31, month : 1 .. 12, year : 2000 .. 2099]

\* A two-digit number is read back from its BCD byte, which leaves the flag
\* bits of a seconds, hour, day or month register clear (bcd_to_dec, dec_to_bcd).
LEMMA BcdReadBack ==
    ASSUME NEW v \in Int, 0 <= v, v <= 99
    PROVE  /\ BcdToDec(DecToBcd(v)) = v
           /\ DecToBcd(v) \in Int /\ 0 <= DecToBcd(v)
           /\ v <= 59 => DecToBcd(v) < 96
           /\ v <= 31 => DecToBcd(v) < 64
           /\ v <= 12 => DecToBcd(v) < 32
<1> DEFINE t == v \div 10
           u == v % 10
           b == t * 16 + u
<1>1. t \in Int /\ u \in Int /\ 0 <= t /\ t <= 9 /\ 0 <= u /\ u <= 9 /\ v = 10 * t + u
  OBVIOUS
<1>2. DecToBcd(v) = b
  BY DEF DecToBcd
<1> HIDE DEF t, u
<1>3. b % 16 = u /\ b \div 16 = t /\ t % 16 = t
  BY <1>1
<1>4. BcdToDec(b) = u + t * 10
  BY <1>3 DEF BcdToDec
<1> QED BY <1>1, <1>2, <1>4

\* What the fields of a register image are read as.
Fields(regs) ==
    [second |-> BcdToDec(regs[1] % 128), minute |-> BcdToDec(regs[2] % 128),
     hour |-> BcdToDec(regs[3] % 64), day |-> BcdToDec(regs[4] % 64),
     month |-> BcdToDec(regs[6] % 32), year |-> 2000 + BcdToDec(regs[7])]

\* Each register of an encoded date holds its field (encode_datetime_regs).
LEMMA EncodedFields ==
    ASSUME NEW d \in Dates
    PROVE  /\ Fields(EncodeDatetime(d)) = d
           /\ EncodeDatetime(d)[1] \div 128 = 0
<1> DEFINE regs == EncodeDatetime(d)
           yy == d.year - 2000
<1>1. /\ d.second \in Int /\ 0 <= d.second /\ d.second <= 59
      /\ d.minute \in Int /\ 0 <= d.minute /\ d.minute <= 59
      /\ d.hour \in Int /\ 0 <= d.hour /\ d.hour <= 23
      /\ d.day \in Int /\ 1 <= d.day /\ d.day <= 31
      /\ d.month \in Int /\ 1 <= d.month /\ d.month <= 12
      /\ d.year \in Int /\ 2000 <= d.year /\ d.year <= 2099
  BY DEF Dates
<1>2. yy \in Int /\ 0 <= yy /\ yy <= 99 /\ d.year = 2000 + yy
  BY <1>1
<1>3. regs = <<DecToBcd(d.second), DecToBcd(d.minute), DecToBcd(d.hour), DecToBcd(d.day), 1,
               DecToBcd(d.month), DecToBcd(yy)>>
  BY <1>1 DEF EncodeDatetime
<1> HIDE DEF yy
<1>4. /\ regs[1] = DecToBcd(d.second) /\ regs[2] = DecToBcd(d.minute)
      /\ regs[3] = DecToBcd(d.hour) /\ regs[4] = DecToBcd(d.day)
      /\ regs[6] = DecToBcd(d.month) /\ regs[7] = DecToBcd(yy)
  BY <1>3
<1> HIDE DEF regs
<1>5. BcdToDec(regs[1] % 128) = d.second /\ regs[1] \div 128 = 0
  <2>1. DecToBcd(d.second) % 128 = DecToBcd(d.second) /\ DecToBcd(d.second) \div 128 = 0
    BY <1>1, BcdReadBack
  <2> QED BY <1>1, <1>4, <2>1, BcdReadBack
<1>6. BcdToDec(regs[2] % 128) = d.minute
  <2>1. DecToBcd(d.minute) % 128 = DecToBcd(d.minute)
    BY <1>1, BcdReadBack
  <2> QED BY <1>1, <1>4, <2>1, BcdReadBack
<1>7. BcdToDec(regs[3] % 64) = d.hour
  <2>1. DecToBcd(d.hour) % 64 = DecToBcd(d.hour)
    BY <1>1, BcdReadBack
  <2> QED BY <1>1, <1>4, <2>1, BcdReadBack
<1>8. BcdToDec(regs[4] % 64) = d.day
  <2>1. DecToBcd(d.day) % 64 = DecToBcd(d.day)
    BY <1>1, BcdReadBack
  <2> QED BY <1>1, <1>4, <2>1, BcdReadBack
<1>9. BcdToDec(regs[6] % 32) = d.month
  <2>1. DecToBcd(d.month) % 32 = DecToBcd(d.month)
    BY <1>1, BcdReadBack
  <2> QED BY <1>1, <1>4, <2>1, BcdReadBack
<1>10. 2000 + BcdToDec(regs[7]) = d.year
  BY <1>2, <1>4, BcdReadBack
<1>11. [second |-> d.second, minute |-> d.minute, hour |-> d.hour,
        day |-> d.day, month |-> d.month, year |-> d.year] = d
  BY DEF Dates
<1>12. Fields(regs) = d
  BY <1>5, <1>6, <1>7, <1>8, <1>9, <1>10, <1>11 DEF Fields
<1> QED BY <1>5, <1>12 DEF regs

\* Registers that hold the fields of a date are decoded as that date
\* (decode_datetime_regs).
LEMMA DecodedFields ==
    ASSUME NEW regs, regs[1] \div 128 = 0, Fields(regs) \in Dates
    PROVE  DecodeDatetime(regs) =
             IF Fields(regs).year < MIN_VALID_YEAR THEN {} ELSE {Fields(regs)}
<1> DEFINE e == Fields(regs)
<1>1. DecodeDatetime(regs) =
        IF /\ regs[1] \div 128 = 0
           /\ e.month \in 1 .. 12 /\ e.day \in 1 .. 31
           /\ e.hour <= 23 /\ e.minute <= 59 /\ e.second <= 59
           /\ e.year >= MIN_VALID_YEAR
        THEN {e} ELSE {}
  BY DEF DecodeDatetime, Fields
<1> HIDE DEF e
<1>2. e \in Dates
  BY DEF e
<1>3. /\ e.month \in 1 .. 12 /\ e.day \in 1 .. 31
      /\ e.hour <= 23 /\ e.minute <= 59 /\ e.second <= 59 /\ e.year \in Int
  BY <1>2 DEF Dates
<1> QED BY <1>1, <1>3 DEF e, MIN_VALID_YEAR

\* Every date from 2020 on is read back as it was written, and none before
\* (encode_datetime_regs and decode_datetime_regs).
THEOREM CodecExact ==
    \A d \in Dates :
        DecodeDatetime(EncodeDatetime(d)) = IF d.year < MIN_VALID_YEAR THEN {} ELSE {d}
BY EncodedFields, DecodedFields

\* The registers after a write of d over e that ended after k of its bytes,
\* and the date whose fields they hold.
CutWrite(k, d, e) ==
    [i \in 1 .. 7 |-> IF i <= k THEN EncodeDatetime(d)[i] ELSE EncodeDatetime(e)[i]]

Mixed(k, d, e) ==
    [second |-> IF 1 <= k THEN d.second ELSE e.second,
     minute |-> IF 2 <= k THEN d.minute ELSE e.minute,
     hour   |-> IF 3 <= k THEN d.hour   ELSE e.hour,
     day    |-> IF 4 <= k THEN d.day    ELSE e.day,
     month  |-> IF 6 <= k THEN d.month  ELSE e.month,
     year   |-> IF 7 <= k THEN d.year   ELSE e.year]

\* The codec does not find out a time write that was cut: wherever it ended,
\* the registers are decoded as a date that mixes the fields of the new one
\* and the old one (write_datetime, decode_datetime_regs).  It is what Torn
\* stands for, and why only a further write repairs it.
THEOREM CutWriteDecodes ==
    ASSUME NEW d \in Dates, d.year >= MIN_VALID_YEAR,
           NEW e \in Dates, e.year >= MIN_VALID_YEAR, NEW k \in 0 .. 7
    PROVE  DecodeDatetime(CutWrite(k, d, e)) = {Mixed(k, d, e)}
<1> DEFINE regs == CutWrite(k, d, e)
           m == Mixed(k, d, e)
<1>1. \A i \in 1 .. 7 : regs[i] = IF i <= k THEN EncodeDatetime(d)[i] ELSE EncodeDatetime(e)[i]
  BY DEF CutWrite
<1>2. /\ regs[1] = IF 1 <= k THEN EncodeDatetime(d)[1] ELSE EncodeDatetime(e)[1]
      /\ regs[2] = IF 2 <= k THEN EncodeDatetime(d)[2] ELSE EncodeDatetime(e)[2]
      /\ regs[3] = IF 3 <= k THEN EncodeDatetime(d)[3] ELSE EncodeDatetime(e)[3]
      /\ regs[4] = IF 4 <= k THEN EncodeDatetime(d)[4] ELSE EncodeDatetime(e)[4]
      /\ regs[6] = IF 6 <= k THEN EncodeDatetime(d)[6] ELSE EncodeDatetime(e)[6]
      /\ regs[7] = IF 7 <= k THEN EncodeDatetime(d)[7] ELSE EncodeDatetime(e)[7]
  <2> HIDE DEF regs
  <2> QED BY <1>1
<1>3. m \in Dates /\ m.year >= MIN_VALID_YEAR
  BY DEF Mixed, Dates
<1> HIDE DEF regs
<1>4. ASSUME NEW x \in Dates
      PROVE  /\ BcdToDec(EncodeDatetime(x)[1] % 128) = x.second
             /\ BcdToDec(EncodeDatetime(x)[2] % 128) = x.minute
             /\ BcdToDec(EncodeDatetime(x)[3] % 64) = x.hour
             /\ BcdToDec(EncodeDatetime(x)[4] % 64) = x.day
             /\ BcdToDec(EncodeDatetime(x)[6] % 32) = x.month
             /\ 2000 + BcdToDec(EncodeDatetime(x)[7]) = x.year
             /\ EncodeDatetime(x)[1] \div 128 = 0
  <2>1. Fields(EncodeDatetime(x)) = x /\ EncodeDatetime(x)[1] \div 128 = 0
    BY EncodedFields
  <2> DEFINE r == EncodeDatetime(x)
  <2>2. /\ Fields(r).second = BcdToDec(r[1] % 128) /\ Fields(r).minute = BcdToDec(r[2] % 128)
        /\ Fields(r).hour = BcdToDec(r[3] % 64) /\ Fields(r).day = BcdToDec(r[4] % 64)
        /\ Fields(r).month = BcdToDec(r[6] % 32) /\ Fields(r).year = 2000 + BcdToDec(r[7])
    BY DEF Fields
  <2> QED BY <2>1, <2>2
<1>5. Fields(regs) = m
  <2>1. BcdToDec(regs[1] % 128) = m.second /\ BcdToDec(regs[2] % 128) = m.minute
    BY <1>2, <1>4 DEF Mixed
  <2>2. BcdToDec(regs[3] % 64) = m.hour /\ BcdToDec(regs[4] % 64) = m.day
    BY <1>2, <1>4 DEF Mixed
  <2>3. BcdToDec(regs[6] % 32) = m.month /\ 2000 + BcdToDec(regs[7]) = m.year
    BY <1>2, <1>4 DEF Mixed
  <2>4. [second |-> m.second, minute |-> m.minute, hour |-> m.hour,
         day |-> m.day, month |-> m.month, year |-> m.year] = m
    BY DEF Mixed
  <2> HIDE DEF m
  <2> QED BY <2>1, <2>2, <2>3, <2>4 DEF Fields
<1>6. regs[1] \div 128 = 0
  BY <1>2, <1>4
<1>7. m.year \in Int /\ MIN_VALID_YEAR \in Int
  BY <1>3 DEF Dates, MIN_VALID_YEAR
<1> HIDE DEF m
<1> QED BY <1>3, <1>5, <1>6, <1>7, DecodedFields DEF regs, m

(***************************************************************************)
(* The chip and the panel task.                                            *)
(***************************************************************************)

\* Types, what write_datetime carries from step to step, and why the clock
\* stands still.
ChipInv ==
    /\ TypeOK
    /\ op \in {"control", "stop", "time", "run"} => dt \in Lags
    /\ StopHasCause

\* A read gives a time, a torn one or none.
LEMMA ReadType ==
    ASSUME NEW time \in Lags \cup {Torn, Unset}
    PROVE  Read(time) \subseteq Lags \cup {Torn, None}
BY DEF Read

\* Ageing keeps a lag a lag (the lag MAX_LAG stands for all from there on).
LEMMA OlderType ==
    ASSUME NEW time
    PROVE  /\ time \in Lags => Older(time) \in Lags
           /\ time \in {Torn, Unset, None} => Older(time) = time
BY RtcAssumption DEF Older, Lags, Torn, Unset, None

\* A write of the control register leaves bits the chip has.
LEMMA WrittenBits ==
    ASSUME NEW ok, NEW old \in SUBSET {STOP_BIT}, NEW new \in SUBSET {STOP_BIT},
           NEW bits \in Written(ok, old, new)
    PROVE  bits \subseteq {STOP_BIT} /\ bits \in {old, new} /\ (ok => bits = new)
BY DEF Written

\* A boot finds the chip as it was left and starts with an idle task
\* (init_chip).
LEMMA BootInv ==
    ASSUME ChipInv, NEW found \in BOOLEAN, NEW cleared \in BOOLEAN,
           NEW time \in Lags \cup {Torn, Unset}, NEW bits \in SUBSET {STOP_BIT},
           BootWith(found, cleared, time, bits),
           cut' \in BOOLEAN, STOP_BIT \in control1' => cut'
    PROVE  ChipInv'
<1>1. /\ restarts' \in 0 .. MAX_RESTARTS /\ present' \in BOOLEAN
      /\ clock' \in Lags \cup {Torn, Unset}
      /\ pending' = None /\ due' = TRUE /\ op' = "idle" /\ dt' = None /\ control' = {}
  BY RtcAssumption DEF BootWith, ChipInv, TypeOK
<1>2. control1' \subseteq {STOP_BIT}
  BY WrittenBits DEF BootWith
<1>3. feed' \in Lags \cup {Torn, None}
  BY ReadType DEF BootWith
<1> QED BY <1>1, <1>2, <1>3 DEF ChipInv, TypeOK, StopHasCause

\* A step of write_datetime, whatever becomes of its transfer.
LEMMA BusInv ==
    ASSUME ChipInv, NEW ok \in BOOLEAN, Bus(ok)
    PROVE  ChipInv'
<1>1. CASE ReadControl(ok)
  <2>1. /\ op = "control" /\ op' \in {"stop", "read"}
        /\ op' = "stop" => dt' = dt
        /\ dt' \in {dt, None} /\ control' \in {control1, {}}
        /\ UNCHANGED <<chipVars, present, pending, feed, due, restarts, cut>>
    BY <1>1 DEF ReadControl
  <2>2. control' \subseteq {STOP_BIT} /\ dt' \in Lags \cup {None}
    BY <2>1 DEF ChipInv, TypeOK
  <2> QED BY <2>1, <2>2 DEF chipVars, ChipInv, TypeOK, StopHasCause
<1>2. CASE WriteStop(ok)
  <2>1. control1' \subseteq {STOP_BIT}
    BY <1>2, WrittenBits DEF WriteStop, ChipInv, TypeOK
  <2>2. cut' \in BOOLEAN /\ (op' \notin {"time", "run"} /\ STOP_BIT \in control1' => cut')
    BY <1>2 DEF WriteStop, ChipInv, TypeOK
  <2> QED BY <1>2, <2>1, <2>2 DEF WriteStop, ChipInv, TypeOK, StopHasCause
<1>3. CASE WriteTime(ok)
  <2>1. clock' \in Lags \cup {Torn, Unset}
    BY <1>3 DEF WriteTime, WrittenTime, Written, ChipInv, TypeOK
  <2> QED BY <1>3, <2>1 DEF WriteTime, ChipInv, TypeOK, StopHasCause
<1>4. CASE WriteRun(ok)
  <2>1. control1' \subseteq {STOP_BIT} /\ (ok => STOP_BIT \notin control1')
    BY <1>4, WrittenBits DEF WriteRun, RunBits, ChipInv, TypeOK
  <2>2. cut' \in BOOLEAN /\ (STOP_BIT \in control1' => cut')
    BY <1>4, <2>1 DEF WriteRun
  <2> QED BY <1>4, <2>1, <2>2 DEF WriteRun, ChipInv, TypeOK, StopHasCause
<1> QED BY <1>1, <1>2, <1>3, <1>4 DEF Bus

\* Every step keeps the invariant.
LEMMA ChipStep ==
    ASSUME ChipInv, [Next]_vars
    PROVE  ChipInv'
<1>1. CASE Restart
  <2>1. PICK found, cleared \in BOOLEAN : BootWith(found, cleared, clock, control1)
    BY <1>1 DEF Restart
  <2>2. cut' = (STOP_BIT \in control1' /\ (cut \/ op \in {"time", "run"}))
    BY <1>1 DEF Restart
  <2>3. STOP_BIT \in control1' => STOP_BIT \in control1
    BY <2>1 DEF BootWith, Written
  <2>4. cut' \in BOOLEAN /\ (STOP_BIT \in control1' => cut')
    BY <2>2, <2>3 DEF ChipInv, StopHasCause, TypeOK
  <2> QED BY <2>1, <2>4, BootInv DEF ChipInv, TypeOK
<1>2. CASE PowerLoss
  <2>1. PICK found, cleared \in BOOLEAN : BootWith(found, cleared, Unset, {})
    BY <1>2 DEF PowerLoss
  <2>2. STOP_BIT \notin control1' /\ cut' = FALSE
    BY <1>2, <2>1 DEF PowerLoss, BootWith, Written
  <2> QED BY <2>1, <2>2, BootInv
<1>3. CASE Tick
  <2>1. /\ clock' \in Lags \cup {Torn, Unset} /\ pending' \in Lags \cup {None}
        /\ dt' \in Lags \cup {None} /\ feed' \in Lags \cup {Torn, None}
        /\ dt \in Lags => dt' \in Lags
    BY <1>3, OlderType DEF Tick, ChipInv, TypeOK
  <2> QED BY <1>3, <2>1 DEF Tick, ChipInv, TypeOK, StopHasCause
<1>4. CASE RequestRtcWrite
  BY <1>4, RtcAssumption DEF RequestRtcWrite, chipVars, ChipInv, TypeOK, StopHasCause, Lags
<1>5. CASE TakePending
  BY <1>5 DEF TakePending, chipVars, ChipInv, TypeOK, StopHasCause, Lags, None
<1>6. ASSUME NEW ok \in BOOLEAN, NEW free \in BOOLEAN, Bus(ok) \/ ReadRtc(ok, free)
      PROVE  ChipInv'
  <2>1. CASE Bus(ok)
    BY <2>1, BusInv
  <2>2. CASE ReadRtc(ok, free)
    <3>1. feed' \in Lags \cup {Torn, None} /\ due' \in BOOLEAN
      BY <2>2, ReadType DEF ReadRtc, ChipInv, TypeOK
    <3> QED BY <2>2, <3>1 DEF ReadRtc, chipVars, ChipInv, TypeOK, StopHasCause
  <2> QED BY <1>6, <2>1, <2>2
<1>7. CASE UNCHANGED vars
  BY <1>7 DEF vars, chipVars, taskVars, ChipInv, TypeOK, StopHasCause
<1> QED BY <1>1, <1>2, <1>3, <1>4, <1>5, <1>6, <1>7 DEF Next, Sense

\* Whatever transfers fail and wherever the program restarts, the chip holds a
\* time, a torn one or none, and its clock only stands still between two
\* writes when a control write failed or a restart came inside write_datetime.
THEOREM StopHasCauseHolds == Spec => [](TypeOK /\ StopHasCause)
<1>1. Init => ChipInv
  <2> SUFFICES ASSUME Init PROVE ChipInv
    OBVIOUS
  <2>1. 0 \in Lags /\ 0 \in 0 .. MAX_RESTARTS
    BY RtcAssumption DEF Lags
  <2>2. clock \in Lags \cup {Torn, Unset} /\ restarts \in 0 .. MAX_RESTARTS
    BY <2>1 DEF Init
  <2>3. STOP_BIT \notin control1 /\ op = "idle" /\ cut = FALSE
    BY DEF Init
  <2> QED BY <2>2, <2>3 DEF Init, ChipInv, TypeOK, StopHasCause
<1>2. ChipInv => TypeOK /\ StopHasCause
  BY DEF ChipInv
<1> QED BY <1>1, <1>2, ChipStep, PTL DEF Spec

=============================================================================
