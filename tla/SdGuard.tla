------------------------------- MODULE SdGuard -------------------------------
(***************************************************************************)
(* The SD worker and its watchdog (src/src/storage.rs): callers queue jobs *)
(* for the sd_io thread and wait for the result; sd_wd restarts the chip   *)
(* when a call stays in the driver too long.  The mount runs on a thread   *)
(* of its own under the same deadline, before anybody else is started.     *)
(* Counter and timestamp of the deadline are two words: arming and         *)
(* dropping it are two steps each.                                         *)
(*                                                                         *)
(* A tick is one period of the watchdog, which runs in every tick: its     *)
(* priority is above that of the threads it watches.  What a job does to   *)
(* the card is left to the modules that use this one.                      *)
(***************************************************************************)
EXTENDS Integers, Sequences

CONSTANTS
  CALLERS,         \* threads that use storage::call
  NONE,            \* no caller
  SD_CALL_TIMEOUT, \* SD_CALL_TIMEOUT_US in ticks
  MAX_TIME         \* bound: ticks after a boot

ASSUME GuardAssumption ==
  /\ NONE \notin CALLERS
  /\ SD_CALL_TIMEOUT \in Nat \ {0} /\ MAX_TIME \in Nat

(* The threads that hold deadlines. *)
THREADS == {"mount", "sd_io"}

VARIABLES
  now,                \* monotonic_us()
  sd_call_started_us, \* 0: idle
  sd_call_depth,
  sd_card_ready, sd_usage_refresh, sd_pending_usage,
  sd_jobs,            \* queued jobs, by caller
  boot,               \* progress of StorageDevice::init
  mount,              \* result of the mount attempt, or "none"
  work, job,          \* where worker_main is; the caller it works for
  nested,             \* the job makes a call of its own
  caller,             \* "idle" or "waiting"
  stage,              \* of each thread's deadline
  since,              \* auxiliary: when the thread last armed one
  hung,               \* the driver never returns to the thread
  wd, wd_started      \* monitor_main and its copy of the start time

deadline == <<sd_call_started_us, sd_call_depth, stage, since>>
usage    == <<sd_usage_refresh, sd_pending_usage>>
bootVars == <<boot, mount, sd_card_ready>>
workVars == <<work, job, nested>>
callVars == <<sd_jobs, caller>>
wdVars   == <<wd, wd_started>>
guardVars == <<now, deadline, usage, bootVars, workVars, callVars, hung, wdVars>>

(* The state after every (re)start of the chip. *)
GuardInit ==
  /\ now = 0 /\ sd_call_started_us = 0 /\ sd_call_depth = 0
  /\ sd_card_ready = FALSE /\ sd_usage_refresh = FALSE /\ sd_pending_usage = FALSE
  /\ sd_jobs = <<>>
  /\ boot = "guard" /\ mount = "none"
  /\ work = "top" /\ job = NONE /\ nested = FALSE
  /\ caller = [c \in CALLERS |-> "idle"]
  /\ stage = [t \in THREADS |-> "idle"] /\ since = [t \in THREADS |-> 0]
  /\ hung = [t \in THREADS |-> FALSE]
  /\ wd = "sleep" /\ wd_started = 0

Later(a, b) == IF a > b THEN a ELSE b

-----------------------------------------------------------------------------
(* SdDeadline *)

(* arm, its first half.  Stages with a "2" are those of a nested call. *)
ArmCount(t) ==
  /\ sd_call_depth' = sd_call_depth + 1
  /\ stage' = [stage EXCEPT ![t] = IF @ = "idle" THEN "counted" ELSE "counted2"]
  /\ UNCHANGED <<sd_call_started_us, since>>

(* Mutant: the timer value as it is, 0 in the first tick. *)
StampRaw == now

(* 0 is the idle sentinel. *)
Stamp == Later(now, 1)

ArmStamp(t) ==
  /\ stage[t] \in {"counted", "counted2"}
  /\ sd_call_started_us' = Stamp
  /\ stage' = [stage EXCEPT ![t] = IF @ = "counted" THEN "in" ELSE "in2"]
  /\ since' = [since EXCEPT ![t] = now]
  /\ UNCHANGED sd_call_depth

(* Mutant: only a count of zero was the outermost. *)
OutermostZero == sd_call_depth <= 0

Outermost == sd_call_depth <= 1

(* drop: the outermost one goes on to clear the timestamp. *)
DropCount(t) ==
  /\ stage[t] \in {"in", "in2"} /\ ~hung[t]
  /\ sd_call_depth' = sd_call_depth - 1
  /\ stage' = [stage EXCEPT ![t] = IF Outermost
                                   THEN IF @ = "in" THEN "clear" ELSE "clear2"
                                   ELSE IF @ = "in" THEN "idle" ELSE "in"]
  /\ UNCHANGED <<sd_call_started_us, since>>

DropClear(t) ==
  /\ stage[t] \in {"clear", "clear2"}
  /\ sd_call_started_us' = 0
  /\ stage' = [stage EXCEPT ![t] = IF @ = "clear" THEN "idle" ELSE "in"]
  /\ UNCHANGED <<sd_call_depth, since>>

(* The SPI transfer never ends (external); early enough for the bound. *)
Hang(t) ==
  /\ stage[t] \in {"in", "in2"} /\ ~hung[t]
  /\ now + SD_CALL_TIMEOUT + 2 <= MAX_TIME
  /\ hung' = [hung EXCEPT ![t] = TRUE]
  /\ UNCHANGED <<now, deadline, usage, bootVars, workVars, callVars, wdVars>>

-----------------------------------------------------------------------------
(* StorageDevice::init, up to two mount attempts *)

(* start_guard; when it fails nobody uses the card, and a worker that was  *)
(* spawned finds nothing to do.                                            *)
StartGuard(ok) ==
  /\ boot = "guard" /\ boot' = IF ok THEN "mount1" ELSE "off"
  /\ UNCHANGED <<now, deadline, usage, mount, sd_card_ready, workVars, callVars,
                 hung, wdVars>>

Mounting == boot \in {"mount1", "mount2"}

(* run_on_sd_thread and the deadline around try_mount. *)
MountArm ==
  /\ Mounting /\ stage["mount"] = "idle" /\ mount = "none"
  /\ ArmCount("mount")
  /\ UNCHANGED <<now, usage, bootVars, workVars, callVars, hung, wdVars>>

MountStamp ==
  /\ ArmStamp("mount")
  /\ UNCHANGED <<now, usage, bootVars, workVars, callVars, hung, wdVars>>

(* try_mount: host, card, FAT or VFS fails; or it mounts, the ready flag    *)
(* depends on the marker file, and the free-space walk is still to come.    *)
TryMount(result, marker) ==
  /\ stage["mount"] = "in" /\ mount = "none" /\ ~hung["mount"]
  /\ mount' = result
  /\ sd_card_ready' = (sd_card_ready \/ (result = "mounted" /\ marker))
  /\ UNCHANGED <<now, deadline, usage, boot, workVars, callVars, hung, wdVars>>

MountDrop ==
  /\ \/ mount # "none" /\ DropCount("mount")
     \/ DropClear("mount")
  /\ UNCHANGED <<now, usage, bootVars, workVars, callVars, hung, wdVars>>

(* The thread is joined; a failure goes on with the alternate pin. *)
MountJoin ==
  /\ Mounting /\ mount # "none" /\ stage["mount"] = "idle"
  /\ boot' = IF mount = "mounted" THEN "up"
             ELSE IF boot = "mount1" THEN "mount2" ELSE "off"
  /\ mount' = "none"
  /\ UNCHANGED <<now, deadline, usage, sd_card_ready, workVars, callVars, hung,
                 wdVars>>

-----------------------------------------------------------------------------
(* Users of the card, started once it is mounted. *)

(* Mutant: the threads only look at the ready flag. *)
UsersRunEarly == sd_card_ready

UsersRun == boot = "up"

(* call *)
Call(c) ==
  /\ UsersRun /\ caller[c] = "idle"
  /\ caller' = [caller EXCEPT ![c] = "waiting"]
  /\ sd_jobs' = Append(sd_jobs, c)
  /\ UNCHANGED <<now, deadline, usage, bootVars, workVars, hung, wdVars>>

(* request_usage_refresh and take_usage, by the panel *)
RequestUsage ==
  /\ UsersRun /\ sd_usage_refresh' = TRUE
  /\ UNCHANGED <<now, deadline, sd_pending_usage, bootVars, workVars, callVars,
                 hung, wdVars>>

TakeUsage ==
  /\ UsersRun /\ sd_pending_usage /\ sd_pending_usage' = FALSE
  /\ UNCHANGED <<now, deadline, sd_usage_refresh, bootVars, workVars, callVars,
                 hung, wdVars>>

-----------------------------------------------------------------------------
(* worker_main *)

WorkerRuns == boot # "guard"

(* A request that finds the card not ready is consumed. *)
WorkerTop ==
  /\ WorkerRuns /\ work = "top"
  /\ work' = IF sd_usage_refresh /\ sd_card_ready THEN "space" ELSE "recv"
  /\ sd_usage_refresh' = FALSE
  /\ UNCHANGED <<now, deadline, sd_pending_usage, bootVars, job, nested, callVars,
                 hung, wdVars>>

WorkerArm ==
  /\ work \in {"space", "job"} /\ stage["sd_io"] = "idle"
  /\ ArmCount("sd_io")
  /\ UNCHANGED <<now, usage, bootVars, workVars, callVars, hung, wdVars>>

WorkerStamp ==
  /\ ArmStamp("sd_io")
  /\ UNCHANGED <<now, usage, bootVars, workVars, callVars, hung, wdVars>>

SpaceRead ==
  /\ work = "space" /\ stage["sd_io"] = "in" /\ ~hung["sd_io"]
  /\ work' = "publish"
  /\ UNCHANGED <<now, deadline, usage, bootVars, job, nested, callVars, hung, wdVars>>

(* Mutant: the worker looks for the next request before it serves jobs. *)
PublishAgain ==
  /\ work = "publish" /\ stage["sd_io"] = "idle" /\ work' = "top"
  /\ sd_pending_usage' = TRUE
  /\ UNCHANGED <<now, deadline, sd_usage_refresh, bootVars, job, nested, callVars,
                 hung, wdVars>>

(* Mutant: the sample is remembered, not handed over. *)
PublishNothing ==
  /\ work = "publish" /\ stage["sd_io"] = "idle" /\ work' = "recv"
  /\ UNCHANGED <<now, deadline, usage, bootVars, job, nested, callVars, hung, wdVars>>

Publish ==
  /\ work = "publish" /\ stage["sd_io"] = "idle" /\ work' = "recv"
  /\ sd_pending_usage' = TRUE
  /\ UNCHANGED <<now, deadline, sd_usage_refresh, bootVars, job, nested, callVars,
                 hung, wdVars>>

RecvTimeout ==
  /\ work = "recv" /\ sd_jobs = <<>> /\ work' = "top"
  /\ UNCHANGED <<now, deadline, usage, bootVars, job, nested, callVars, hung, wdVars>>

(* Mutant: the newest job first. *)
RecvNewest ==
  /\ work = "recv" /\ sd_jobs # <<>>
  /\ work' = "job" /\ job' = sd_jobs[Len(sd_jobs)]
  /\ sd_jobs' = SubSeq(sd_jobs, 1, Len(sd_jobs) - 1)
  /\ UNCHANGED <<now, deadline, usage, bootVars, nested, caller, hung, wdVars>>

RecvJob ==
  /\ work = "recv" /\ sd_jobs # <<>>
  /\ work' = "job" /\ job' = Head(sd_jobs) /\ sd_jobs' = Tail(sd_jobs)
  /\ UNCHANGED <<now, deadline, usage, bootVars, nested, caller, hung, wdVars>>

(* call on the worker itself: inline, under a deadline of its own. *)
NestedCall ==
  /\ work = "job" /\ stage["sd_io"] = "in" /\ ~nested /\ ~hung["sd_io"]
  /\ nested' = TRUE
  /\ ArmCount("sd_io")
  /\ UNCHANGED <<now, usage, bootVars, work, job, callVars, hung, wdVars>>

(* The job is done and its result sent, with the deadline still held. *)
JobDone ==
  /\ work = "job" /\ stage["sd_io"] = "in" /\ ~hung["sd_io"]
  /\ caller' = [caller EXCEPT ![job] = "idle"]
  /\ work' = "done" /\ job' = NONE /\ nested' = FALSE
  /\ UNCHANGED <<now, deadline, usage, bootVars, sd_jobs, hung, wdVars>>

WorkerDrop ==
  /\ \/ stage["sd_io"] = "in2" /\ DropCount("sd_io")
     \/ stage["sd_io"] = "in" /\ work \in {"publish", "done"} /\ DropCount("sd_io")
     \/ DropClear("sd_io")
  /\ UNCHANGED <<now, usage, bootVars, workVars, callVars, hung, wdVars>>

WorkerAgain ==
  /\ work = "done" /\ stage["sd_io"] = "idle" /\ work' = "top"
  /\ UNCHANGED <<now, deadline, usage, bootVars, job, nested, callVars, hung, wdVars>>

-----------------------------------------------------------------------------
(* monitor_main *)

Tick ==
  /\ now < MAX_TIME /\ wd = "sleep"
  /\ now' = now + 1
  /\ wd' = IF WorkerRuns THEN "load" ELSE "sleep"
  /\ UNCHANGED <<deadline, usage, bootVars, workVars, callVars, hung, wd_started>>

WdLoad ==
  /\ wd = "load"
  /\ wd' = IF sd_call_started_us = 0 THEN "sleep" ELSE "check"
  /\ wd_started' = sd_call_started_us
  /\ UNCHANGED <<now, deadline, usage, bootVars, workVars, callVars, hung>>

Overdue == now - wd_started >= SD_CALL_TIMEOUT

WdPass ==
  /\ wd = "check" /\ ~Overdue
  /\ wd' = "sleep" /\ wd_started' = 0
  /\ UNCHANGED <<now, deadline, usage, bootVars, workVars, callVars, hung>>

(* esp_restart: the state of GuardInit again. *)
WdRestart ==
  /\ wd = "check" /\ Overdue
  /\ now' = 0 /\ sd_call_started_us' = 0 /\ sd_call_depth' = 0
  /\ sd_card_ready' = FALSE /\ sd_usage_refresh' = FALSE /\ sd_pending_usage' = FALSE
  /\ sd_jobs' = <<>>
  /\ boot' = "guard" /\ mount' = "none"
  /\ work' = "top" /\ job' = NONE /\ nested' = FALSE
  /\ caller' = [c \in CALLERS |-> "idle"]
  /\ stage' = [t \in THREADS |-> "idle"] /\ since' = [t \in THREADS |-> 0]
  /\ hung' = [t \in THREADS |-> FALSE]
  /\ wd' = "sleep" /\ wd_started' = 0

-----------------------------------------------------------------------------
Boot == \/ \E ok \in BOOLEAN : StartGuard(ok)
        \/ MountArm \/ MountStamp
        \/ \E result \in {"failed", "mounted"}, marker \in BOOLEAN :
             TryMount(result, marker)
        \/ MountDrop \/ MountJoin

Worker == \/ WorkerTop \/ WorkerArm \/ WorkerStamp \/ SpaceRead \/ Publish
          \/ RecvTimeout \/ RecvJob \/ NestedCall \/ JobDone
          \/ WorkerDrop \/ WorkerAgain

Watchdog == WdLoad \/ WdPass \/ WdRestart

Users == (\E c \in CALLERS : Call(c)) \/ RequestUsage \/ TakeUsage

GuardNext == \/ Boot \/ Worker \/ Watchdog \/ Users \/ Tick
             \/ \E t \in THREADS : Hang(t)

(* The scheduler gives every thread its turn, and time passes.  A thread   *)
(* that hangs in the driver has no step, so nothing is assumed of it.      *)
GuardFairness ==
  /\ WF_guardVars(Boot) /\ WF_guardVars(Worker)
  /\ WF_guardVars(Watchdog) /\ WF_guardVars(Tick)

GuardSpec == GuardInit /\ [][GuardNext]_guardVars /\ GuardFairness

-----------------------------------------------------------------------------
(* Properties. *)

(* Type invariant. *)
GuardTypeOK ==
  /\ now \in Nat /\ sd_call_started_us \in Nat /\ sd_call_depth \in 0 .. 2
  /\ sd_card_ready \in BOOLEAN
  /\ sd_usage_refresh \in BOOLEAN /\ sd_pending_usage \in BOOLEAN
  /\ sd_jobs \in Seq(CALLERS)
  /\ boot \in {"guard", "mount1", "mount2", "up", "off"}
  /\ mount \in {"none", "failed", "mounted"}
  /\ work \in {"top", "space", "publish", "recv", "job", "done"}
  /\ job \in CALLERS \cup {NONE} /\ nested \in BOOLEAN
  /\ caller \in [CALLERS -> {"idle", "waiting"}]
  /\ stage \in [THREADS -> {"idle", "counted", "in", "counted2", "in2",
                            "clear", "clear2"}]
  /\ since \in [THREADS -> Nat]
  /\ hung \in [THREADS -> BOOLEAN]
  /\ wd \in {"sleep", "load", "check"} /\ wd_started \in Nat

InDriver(t) == stage[t] \in {"in", "in2"}

(* The guard keeps the promise of SdService: jobs run one at a time in the  *)
(* order of the calls, and a call ends with its result or with a restart.   *)
Service == INSTANCE SdService

ImplementsService == Service!ServiceSpec

(* The comment on SD_CALL_DEPTH: mount and sd_io never hold a deadline at   *)
(* the same time.  The ready flag is set in the middle of the mount, so it  *)
(* is the order of bring-up that sees to it.                                *)
OneHolder == \E t \in THREADS : \A u \in THREADS \ {t} : stage[u] = "idle"

(* The watchdog sees every call in the driver, with the time it was armed,  *)
(* and none that has ended (SdDeadline::arm and drop on their two words).   *)
WatchesWhatRuns ==
  /\ \A t \in THREADS :
       InDriver(t) => sd_call_started_us \in Later(since[t], 1) .. Later(now, 1)
  /\ sd_call_started_us # 0 => \E t \in THREADS : stage[t] # "idle"

(* No call stays in the driver for longer than the deadline and one period  *)
(* of the watchdog: the chip is restarted before (monitor_main).            *)
OverdueIsCaught ==
  \A t \in THREADS : InDriver(t) => now - since[t] <= SD_CALL_TIMEOUT + 1

(* A caller of storage::call is never left waiting, whatever hangs: its job *)
(* is done or the chip restarts.                                            *)
CallReturns == \A c \in CALLERS : caller[c] = "waiting" ~> caller[c] = "idle"

(* A free-space request is answered, also one made while a read is under    *)
(* way (the swap at the top of worker_main), unless the chip restarts.      *)
UsageAnswered ==
  (sd_usage_refresh /\ sd_card_ready) ~> (sd_pending_usage \/ boot # "up")
=============================================================================
