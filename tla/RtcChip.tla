------------------------------ MODULE RtcChip ------------------------------
(***************************************************************************)
(* src/rtc.rs and the RTC half of ui_task::sample_sensors: the PCF8523 on  *)
(* a bus whose transfers may fail, the request queue from the main loop,   *)
(* the cached sample the GPS-loss fallback reads, and boot.  The chip runs *)
(* on a coin cell and keeps its registers, STOP included, across a restart *)
(* of the program at any step.                                             *)
(*                                                                         *)
(* A time of day is kept as the seconds it is behind the true one.         *)
(***************************************************************************)
EXTENDS Integers

CONSTANTS
    MAX_LAG,        \* bound: a lag of MAX_LAG stands for all from there on
    MAX_RESTARTS    \* bound on restarts and losses of power

ASSUME RtcAssumption == MAX_LAG \in Nat \ {0} /\ MAX_RESTARTS \in Nat

VARIABLES
    clock,      \* time registers: a lag, Torn, or Unset (oscillator flag set)
    control1,   \* bits set in CONTROL1
    present,    \* RtcDevice.present
    pending,    \* rtc_write_pending
    feed,       \* UiFeed.rtc
    due,        \* RTC_SAMPLE_US has passed since last_rtc_us
    op,         \* where the panel task is in sample_sensors
    dt, control,  \* locals of write_datetime
    restarts,
    cut         \* auxiliary: a failed transfer or a restart left STOP set

chipVars == <<clock, control1>>
taskVars == <<present, pending, feed, due, op, dt, control>>
vars == <<chipVars, taskVars, restarts, cut>>

Lags == 0 .. MAX_LAG
None == -1
Unset == -2
Torn == -3

STOP_BIT == "STOP"

(***************************************************************************)
(* Register codec.                                                         *)
(***************************************************************************)

\* Mutant: the tens digit is read from three bits.
BcdToDecNarrow(byte) == (byte % 16) + ((byte \div 16) % 8) * 10

BcdToDec(byte) == (byte % 16) + ((byte \div 16) % 16) * 10

DecToBcd(value) == (value \div 10) * 16 + (value % 10)

MIN_VALID_YEAR == 2020

EncodeDatetime(d) ==
    LET year == IF d.year < 2000 THEN 0 ELSE IF d.year > 2099 THEN 99 ELSE d.year - 2000
    IN  <<DecToBcd(d.second), DecToBcd(d.minute), DecToBcd(d.hour), DecToBcd(d.day), 1,
          DecToBcd(d.month), DecToBcd(year)>>

\* Some(d) is {d}.
DecodeDatetime(regs) ==
    LET d == [second |-> BcdToDec(regs[1] % 128), minute |-> BcdToDec(regs[2] % 128),
              hour |-> BcdToDec(regs[3] % 64), day |-> BcdToDec(regs[4] % 64),
              month |-> BcdToDec(regs[6] % 32), year |-> 2000 + BcdToDec(regs[7])]
        valid == /\ regs[1] \div 128 = 0
                 /\ d.month \in 1 .. 12 /\ d.day \in 1 .. 31
                 /\ d.hour <= 23 /\ d.minute <= 59 /\ d.second <= 59
                 /\ d.year >= MIN_VALID_YEAR
    IN  IF valid THEN {d} ELSE {}

\* read_unix_seconds: a set flag or fields that are no date are an error.
Read(time) ==
    IF time = Unset THEN {None} ELSE IF time = Torn THEN {Torn, None} ELSE {time}

(***************************************************************************)
(* Bus writes.  A transfer that reports an error may have reached the chip *)
(* in whole, not at all or, when it has several bytes, in part; the oscil- *)
(* lator flag is in the first of them.                                     *)
(***************************************************************************)
Written(ok, old, new) == IF ok THEN {new} ELSE {old, new}

WrittenTime(ok) == Written(ok, clock, dt) \cup (IF ok THEN {} ELSE {Torn})

(***************************************************************************)
(* RtcDevice::init and Board::init: probe, clear the control registers,    *)
(* read, publish.                                                          *)
(***************************************************************************)
BootWith(found, cleared, time, bits) ==
    /\ restarts < MAX_RESTARTS
    /\ restarts' = restarts + 1
    /\ present' = found
    /\ clock' = time
    /\ control1' \in IF found THEN Written(cleared, bits, {}) ELSE {bits}
    /\ feed' \in IF found THEN Read(time) \cup {None} ELSE {None}
    /\ pending' = None /\ due' = TRUE /\ op' = "idle" /\ dt' = None /\ control' = {}

Init ==
    /\ present = TRUE
    /\ clock \in {Unset, 0}
    /\ control1 = {}
    /\ feed = None
    /\ pending = None /\ due = TRUE /\ op = "idle" /\ dt = None /\ control = {}
    /\ restarts = 0 /\ cut = FALSE

Restart ==
    \E found, cleared \in BOOLEAN :
        /\ BootWith(found, cleared, clock, control1)
        /\ cut' = (STOP_BIT \in control1' /\ (cut \/ op \in {"time", "run"}))

\* Main supply and coin cell both gone.
PowerLoss ==
    \E found, cleared \in BOOLEAN :
        /\ BootWith(found, cleared, Unset, {})
        /\ cut' = FALSE

Older(time) == IF time \in 0 .. MAX_LAG - 1 THEN time + 1 ELSE time

Tick ==
    /\ clock' = IF STOP_BIT \in control1 THEN Older(clock) ELSE clock
    /\ pending' = Older(pending) /\ dt' = Older(dt) /\ feed' = Older(feed)
    /\ due' = TRUE
    /\ UNCHANGED <<control1, present, op, control, restarts, cut>>

RequestRtcWrite ==
    /\ pending' = 0
    /\ UNCHANGED <<chipVars, present, feed, due, op, dt, control, restarts, cut>>

(***************************************************************************)
(* sample_sensors with write_datetime, one bus transfer per step.          *)
(***************************************************************************)

TakePending ==
    /\ op = "idle" /\ present
    /\ op' = IF pending = None THEN "read" ELSE "control"
    /\ dt' = pending
    /\ pending' = None
    /\ UNCHANGED <<chipVars, present, feed, due, control, restarts, cut>>

ReadControl(ok) ==
    /\ op = "control"
    /\ op' = IF ok THEN "stop" ELSE "read"
    /\ control' = IF ok THEN control1 ELSE {}
    /\ dt' = IF ok THEN dt ELSE None
    /\ UNCHANGED <<chipVars, present, pending, feed, due, restarts, cut>>

WriteStop(ok) ==
    /\ op = "stop"
    /\ op' = IF ok THEN "time" ELSE "read"
    /\ control1' \in Written(ok, control1, control \cup {STOP_BIT})
    /\ control' = IF ok THEN control ELSE {}
    /\ dt' = IF ok THEN dt ELSE None
    /\ cut' = (STOP_BIT \in control1' /\ (cut \/ ~ok))
    /\ UNCHANGED <<clock, present, pending, feed, due, restarts>>

\* Mutant: a failing time write returns before the clock is started again.
WriteTimeReturns(ok) ==
    /\ op = "time"
    /\ op' = IF ok THEN "run" ELSE "read"
    /\ clock' \in WrittenTime(ok)
    /\ UNCHANGED <<control1, present, pending, feed, due, dt, control, restarts, cut>>

WriteTime(ok) ==
    /\ op = "time"
    /\ op' = "run"
    /\ clock' \in WrittenTime(ok)
    /\ UNCHANGED <<control1, present, pending, feed, due, dt, control, restarts, cut>>

\* Mutant: the bits found before the write are put back as they were.
RunBitsAsFound == control

RunBits == control \ {STOP_BIT}

WriteRun(ok) ==
    /\ op = "run"
    /\ op' = "read"
    /\ control1' \in Written(ok, control1, RunBits)
    /\ control' = {}
    /\ dt' = None
    /\ cut' = (STOP_BIT \in control1' /\ ~ok)
    /\ UNCHANGED <<clock, present, pending, feed, due, restarts>>

\* free: try_write got the lock.
ReadRtc(ok, free) ==
    /\ op = "read"
    /\ op' = "idle"
    /\ IF due /\ free
       THEN feed' \in (IF ok THEN Read(clock) ELSE {None}) /\ due' = FALSE
       ELSE UNCHANGED <<feed, due>>
    /\ UNCHANGED <<chipVars, present, pending, dt, control, restarts, cut>>

Bus(ok) == ReadControl(ok) \/ WriteStop(ok) \/ WriteTime(ok) \/ WriteRun(ok)

Sense == TakePending \/ \E ok, free \in BOOLEAN : Bus(ok) \/ ReadRtc(ok, free)

Next == Restart \/ PowerLoss \/ Tick \/ RequestRtcWrite \/ Sense

(***************************************************************************)
(* The panel task goes on, the main loop asks again every 60 s of lock,    *)
(* and a transfer that is tried again and again succeeds some time.        *)
(***************************************************************************)
Fairness ==
    /\ WF_vars(Sense) /\ WF_vars(RequestRtcWrite)
    /\ SF_vars(ReadControl(TRUE)) /\ SF_vars(WriteStop(TRUE))
    /\ SF_vars(WriteTime(TRUE)) /\ SF_vars(WriteRun(TRUE))

Spec == Init /\ [][Next]_vars /\ Fairness
----------------------------------------------------------------------------
(* Properties. *)

\* Type invariant.
TypeOK ==
    /\ clock \in Lags \cup {Torn, Unset} /\ feed \in Lags \cup {Torn, None}
    /\ control1 \subseteq {STOP_BIT} /\ control \subseteq {STOP_BIT}
    /\ {present, due, cut} \subseteq BOOLEAN
    /\ pending \in Lags \cup {None} /\ dt \in Lags \cup {None}
    /\ restarts \in 0 .. MAX_RESTARTS
    /\ op \in {"idle", "control", "stop", "time", "run", "read"}

\* One field at a time, over its range.
DatesAreReadBack ==
    LET Values(f) == CASE f \in {"second", "minute"} -> 0 .. 59
                       [] f = "hour" -> 0 .. 23 [] f = "day" -> 1 .. 31
                       [] f = "month" -> 1 .. 12 [] f = "year" -> 2000 .. 2099
        Epoch == [second |-> 0, minute |-> 0, hour |-> 0, day |-> 1, month |-> 1, year |-> 2099]
    IN  \A f \in DOMAIN Epoch : \A v \in Values(f) :
            LET d == [Epoch EXCEPT ![f] = v]
            IN  DecodeDatetime(EncodeDatetime(d)) = IF d.year < MIN_VALID_YEAR THEN {} ELSE {d}

\* Where a date goes to the chip the codec must be right, whatever the date:
\* one from 2020 to 2099 is read back as it was, one from before 2020 not at
\* all (encode_datetime_regs and decode_datetime_regs; it speaks of the codec
\* alone, as the model keeps a time as a lag).
CodecRoundTrip == op = "time" => DatesAreReadBack

\* Between two writes the chip stands still only after a failed control
\* write or a restart inside write_datetime, never after a write that went
\* through or that merely failed to set the time (write_datetime).
StopHasCause == op \notin {"time", "run"} /\ STOP_BIT \in control1 => cut

\* A chip that was left stopped runs again and one that was left half
\* written or unset is set again, by a later write or the next boot,
\* whatever cut the earlier writes short (write_datetime, init_chip).
ClockRepaired ==
    /\ present /\ STOP_BIT \in control1 ~> STOP_BIT \notin control1 \/ ~present
    /\ present /\ clock \notin Lags ~> clock \in Lags \/ ~present
============================================================================
