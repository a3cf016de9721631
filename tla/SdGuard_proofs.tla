--------------------------- MODULE SdGuard_proofs ---------------------------
(***************************************************************************)
(* Proofs about SdGuard, for any callers, deadline and bound: one thread   *)
(* at a time holds a deadline, the watchdog measures exactly what runs,    *)
(* nothing is overdue for more than a tick, and the guard implements       *)
(* SdService.                                                              *)
(***************************************************************************)
EXTENDS SdGuard, TLAPS

(* The deadline words follow the stage of the one thread that holds one.   *)
Held(t) == IF stage[t] \in {"idle", "clear"} THEN 0
           ELSE IF stage[t] \in {"counted", "in"} THEN 1 ELSE 2
Stamped(t) == stage[t] \in {"in", "counted2", "in2", "clear"}

(* Before the card is up only the mount has work; after it only sd_io. *)
BootInv ==
  /\ stage["mount"] \in {"idle", "counted", "in", "clear"}
  /\ stage["mount"] # "idle" => Mounting
  /\ boot # "up" =>
       /\ sd_jobs = <<>> /\ job = NONE /\ work \in {"top", "recv"}
       /\ ~sd_usage_refresh /\ stage["sd_io"] = "idle"
  /\ boot = "guard" => wd = "sleep"

(* Where worker_main is and which deadlines it holds there. *)
WorkInv ==
  /\ work = "job" <=> job # NONE
  /\ stage["sd_io"] \in {"idle", "counted", "in", "counted2", "in2", "clear"}
  /\ work \in {"top", "recv"} => stage["sd_io"] = "idle"
  /\ stage["sd_io"] \in {"counted2", "in2"} => work = "job"

DepthInv == sd_call_depth = Held("mount") + Held("sd_io")

StampInv ==
  /\ \A t \in THREADS : since[t] <= now
  /\ \A t \in THREADS : Stamped(t) => sd_call_started_us = Later(since[t], 1)
  /\ sd_call_started_us # 0 => Stamped("mount") \/ Stamped("sd_io")

(* How late a call can be before the watchdog has looked at it. *)
LateInv ==
  /\ wd = "sleep" /\ sd_call_started_us # 0 => now - sd_call_started_us < SD_CALL_TIMEOUT
  /\ sd_call_started_us # 0 => now - sd_call_started_us <= SD_CALL_TIMEOUT
  /\ wd = "check" /\ sd_call_started_us # 0 => wd_started <= sd_call_started_us
  /\ wd = "check" => wd_started <= Later(now, 1)

GuardInv ==
  GuardTypeOK /\ BootInv /\ WorkInv /\ DepthInv /\ StampInv /\ LateInv

LEMMA InitInv == GuardInit => GuardInv
<1> SUFFICES ASSUME GuardInit PROVE GuardInv
  OBVIOUS
<1>a. /\ hung \in [THREADS -> BOOLEAN]
      /\ nested \in BOOLEAN /\ sd_card_ready \in BOOLEAN
      /\ sd_usage_refresh \in BOOLEAN /\ sd_pending_usage \in BOOLEAN
  BY Zenon DEF GuardInit
<1>b. /\ caller \in [CALLERS -> {"idle", "waiting"}]
      /\ stage \in [THREADS -> {"idle", "counted", "in", "counted2", "in2",
                                "clear", "clear2"}]
      /\ job \in CALLERS \cup {NONE}
  BY Zenon DEF GuardInit
<1>c. /\ since \in [THREADS -> Nat] /\ sd_jobs \in Seq(CALLERS)
      /\ now \in Nat /\ sd_call_started_us \in Nat
      /\ sd_call_depth \in 0 .. 2 /\ wd_started \in Nat
  BY SMT DEF GuardInit
<1>d. /\ boot = "guard" /\ mount = "none"
      /\ work = "top" /\ wd = "sleep"
  BY Zenon DEF GuardInit
<1>1. GuardTypeOK
  BY <1>a, <1>b, <1>c, <1>d DEF GuardTypeOK
<1>2. BootInv
  BY GuardAssumption DEF GuardInit, GuardInv, BootInv, GuardTypeOK, THREADS, Mounting, Later
<1>3. WorkInv
  BY GuardAssumption DEF GuardInit, GuardInv, WorkInv, GuardTypeOK, THREADS, Mounting, Later
<1>4. DepthInv
  BY GuardAssumption DEF GuardInit, GuardInv, DepthInv, Held, THREADS, Mounting, Later
<1>5. StampInv
  BY GuardAssumption DEF GuardInit, GuardInv, StampInv, Stamped, GuardTypeOK, THREADS, Mounting, Later
<1>6. LateInv
  BY GuardAssumption DEF GuardInit, GuardInv, LateInv, GuardTypeOK, THREADS, Mounting, Later
<1>7. QED
  BY <1>1, <1>2, <1>3, <1>4, <1>5, <1>6 DEF GuardInv

(* One step per action; the words of the deadline are the thread's own.    *)
LEMMA StepInv == GuardInv /\ [GuardNext]_guardVars => GuardInv'
<1> SUFFICES ASSUME GuardInv, [GuardNext]_guardVars PROVE GuardInv'
  OBVIOUS
<1> USE DEF deadline, usage, bootVars, workVars, callVars, wdVars
<1>1. CASE \E ok \in BOOLEAN : StartGuard(ok)
  BY <1>1, GuardAssumption DEF StartGuard, GuardInv, GuardTypeOK, BootInv, WorkInv, DepthInv, StampInv, LateInv, Held, Stamped, THREADS, Mounting, Later
<1>2. CASE MountArm
  BY <1>2, GuardAssumption DEF MountArm, ArmCount, GuardInv, GuardTypeOK, BootInv, WorkInv, DepthInv, StampInv, LateInv, Held, Stamped, THREADS, Mounting, Later
<1>3. CASE MountStamp
  BY <1>3, GuardAssumption DEF MountStamp, ArmStamp, Stamp, GuardInv, GuardTypeOK, BootInv, WorkInv, DepthInv, StampInv, LateInv, Held, Stamped, THREADS, Mounting, Later
<1>4. CASE \E result \in {"failed", "mounted"}, marker \in BOOLEAN : TryMount(result, marker)
  BY <1>4, GuardAssumption DEF TryMount, GuardInv, GuardTypeOK, BootInv, WorkInv, DepthInv, StampInv, LateInv, Held, Stamped, THREADS, Mounting, Later
<1>5. CASE MountDrop
  BY <1>5, GuardAssumption DEF MountDrop, DropCount, DropClear, Outermost, GuardInv, GuardTypeOK, BootInv, WorkInv, DepthInv, StampInv, LateInv, Held, Stamped, THREADS, Mounting, Later
<1>6. CASE MountJoin
  BY <1>6, GuardAssumption DEF MountJoin, GuardInv, GuardTypeOK, BootInv, WorkInv, DepthInv, StampInv, LateInv, Held, Stamped, THREADS, Mounting, Later
<1>7. CASE WorkerTop
  <2>1. GuardTypeOK'
    BY <1>7, GuardAssumption DEF WorkerTop, WorkerRuns, GuardInv, GuardTypeOK, THREADS, Mounting, Later
  <2>2. BootInv'
    BY <1>7, GuardAssumption DEF WorkerTop, WorkerRuns, GuardInv, BootInv, GuardTypeOK, THREADS, Mounting, Later
  <2>3. WorkInv'
    BY <1>7, GuardAssumption DEF WorkerTop, WorkerRuns, GuardInv, WorkInv, GuardTypeOK, THREADS, Mounting, Later
  <2>4. DepthInv'
    BY <1>7, GuardAssumption DEF WorkerTop, WorkerRuns, GuardInv, DepthInv, Held, THREADS, Mounting, Later
  <2>5. StampInv'
    BY <1>7, GuardAssumption DEF WorkerTop, WorkerRuns, GuardInv, StampInv, Stamped, GuardTypeOK, THREADS, Mounting, Later
  <2>6. LateInv'
    BY <1>7, GuardAssumption DEF WorkerTop, WorkerRuns, GuardInv, LateInv, GuardTypeOK, THREADS, Mounting, Later
  <2>7. QED
    BY <2>1, <2>2, <2>3, <2>4, <2>5, <2>6 DEF GuardInv
<1>8. CASE WorkerArm
  BY <1>8, GuardAssumption DEF WorkerArm, ArmCount, GuardInv, GuardTypeOK, BootInv, WorkInv, DepthInv, StampInv, LateInv, Held, Stamped, THREADS, Mounting, Later
<1>9. CASE WorkerStamp
  BY <1>9, GuardAssumption DEF WorkerStamp, ArmStamp, Stamp, GuardInv, GuardTypeOK, BootInv, WorkInv, DepthInv, StampInv, LateInv, Held, Stamped, THREADS, Mounting, Later
<1>10. CASE SpaceRead
  BY <1>10, GuardAssumption DEF SpaceRead, GuardInv, GuardTypeOK, BootInv, WorkInv, DepthInv, StampInv, LateInv, Held, Stamped, THREADS, Mounting, Later
<1>11. CASE Publish
  BY <1>11, GuardAssumption DEF Publish, GuardInv, GuardTypeOK, BootInv, WorkInv, DepthInv, StampInv, LateInv, Held, Stamped, THREADS, Mounting, Later
<1>12. CASE RecvTimeout
  BY <1>12, GuardAssumption DEF RecvTimeout, GuardInv, GuardTypeOK, BootInv, WorkInv, DepthInv, StampInv, LateInv, Held, Stamped, THREADS, Mounting, Later
<1>13. CASE RecvJob
  BY <1>13, GuardAssumption DEF RecvJob, GuardInv, GuardTypeOK, BootInv, WorkInv, DepthInv, StampInv, LateInv, Held, Stamped, THREADS, Mounting, Later
<1>14. CASE NestedCall
  BY <1>14, GuardAssumption DEF NestedCall, ArmCount, GuardInv, GuardTypeOK, BootInv, WorkInv, DepthInv, StampInv, LateInv, Held, Stamped, THREADS, Mounting, Later
<1>15. CASE JobDone
  BY <1>15, GuardAssumption DEF JobDone, GuardInv, GuardTypeOK, BootInv, WorkInv, DepthInv, StampInv, LateInv, Held, Stamped, THREADS, Mounting, Later
<1>16. CASE WorkerDrop
  BY <1>16, GuardAssumption DEF WorkerDrop, DropCount, DropClear, Outermost, GuardInv, GuardTypeOK, BootInv, WorkInv, DepthInv, StampInv, LateInv, Held, Stamped, THREADS, Mounting, Later
<1>17. CASE WorkerAgain
  BY <1>17, GuardAssumption DEF WorkerAgain, GuardInv, GuardTypeOK, BootInv, WorkInv, DepthInv, StampInv, LateInv, Held, Stamped, THREADS, Mounting, Later
<1>18. CASE WdLoad
  BY <1>18, GuardAssumption DEF WdLoad, GuardInv, GuardTypeOK, BootInv, WorkInv, DepthInv, StampInv, LateInv, Held, Stamped, THREADS, Mounting, Later
<1>19. CASE WdPass
  BY <1>19, GuardAssumption DEF WdPass, Overdue, GuardInv, GuardTypeOK, BootInv, WorkInv, DepthInv, StampInv, LateInv, Held, Stamped, THREADS, Mounting, Later
<1>20. CASE WdRestart
  <2>a. /\ hung' \in [THREADS -> BOOLEAN]
        /\ nested' \in BOOLEAN /\ sd_card_ready' \in BOOLEAN
        /\ sd_usage_refresh' \in BOOLEAN /\ sd_pending_usage' \in BOOLEAN
    BY <1>20, Zenon DEF WdRestart
  <2>b. /\ caller' \in [CALLERS -> {"idle", "waiting"}]
        /\ stage' \in [THREADS -> {"idle", "counted", "in", "counted2", "in2",
                                  "clear", "clear2"}]
        /\ job' \in CALLERS \cup {NONE}
    BY <1>20, Zenon DEF WdRestart
  <2>c. /\ since' \in [THREADS -> Nat] /\ sd_jobs' \in Seq(CALLERS)
        /\ now' \in Nat /\ sd_call_started_us' \in Nat
        /\ sd_call_depth' \in 0 .. 2 /\ wd_started' \in Nat
    BY <1>20, SMT DEF WdRestart
  <2>d. /\ boot' = "guard" /\ mount' = "none"
        /\ work' = "top" /\ wd' = "sleep"
    BY <1>20, Zenon DEF WdRestart
  <2>1. GuardTypeOK'
    BY <2>a, <2>b, <2>c, <2>d DEF GuardTypeOK
  <2>2. BootInv'
    BY <1>20, GuardAssumption DEF WdRestart, GuardInv, BootInv, GuardTypeOK, THREADS, Mounting, Later
  <2>3. WorkInv'
    BY <1>20, GuardAssumption DEF WdRestart, GuardInv, WorkInv, GuardTypeOK, THREADS, Mounting, Later
  <2>4. DepthInv'
    BY <1>20, GuardAssumption DEF WdRestart, GuardInv, DepthInv, Held, THREADS, Mounting, Later
  <2>5. StampInv'
    BY <1>20, GuardAssumption DEF WdRestart, GuardInv, StampInv, Stamped, GuardTypeOK, THREADS, Mounting, Later
  <2>6. LateInv'
    BY <1>20, GuardAssumption DEF WdRestart, GuardInv, LateInv, GuardTypeOK, THREADS, Mounting, Later
  <2>7. QED
    BY <2>1, <2>2, <2>3, <2>4, <2>5, <2>6 DEF GuardInv
<1>21. CASE \E c \in CALLERS : Call(c)
  BY <1>21, GuardAssumption DEF Call, UsersRun, GuardInv, GuardTypeOK, BootInv, WorkInv, DepthInv, StampInv, LateInv, Held, Stamped, THREADS, Mounting, Later
<1>22. CASE RequestUsage
  BY <1>22, GuardAssumption DEF RequestUsage, UsersRun, GuardInv, GuardTypeOK, BootInv, WorkInv, DepthInv, StampInv, LateInv, Held, Stamped, THREADS, Mounting, Later
<1>23. CASE TakeUsage
  <2>1. GuardTypeOK'
    BY <1>23, GuardAssumption DEF TakeUsage, UsersRun, GuardInv, GuardTypeOK, THREADS, Mounting, Later
  <2>2. BootInv'
    BY <1>23, GuardAssumption DEF TakeUsage, UsersRun, GuardInv, BootInv, GuardTypeOK, THREADS, Mounting, Later
  <2>3. WorkInv'
    BY <1>23, GuardAssumption DEF TakeUsage, UsersRun, GuardInv, WorkInv, GuardTypeOK, THREADS, Mounting, Later
  <2>4. DepthInv'
    BY <1>23, GuardAssumption DEF TakeUsage, UsersRun, GuardInv, DepthInv, Held, THREADS, Mounting, Later
  <2>5. StampInv'
    BY <1>23, GuardAssumption DEF TakeUsage, UsersRun, GuardInv, StampInv, Stamped, GuardTypeOK, THREADS, Mounting, Later
  <2>6. LateInv'
    BY <1>23, GuardAssumption DEF TakeUsage, UsersRun, GuardInv, LateInv, GuardTypeOK, THREADS, Mounting, Later
  <2>7. QED
    BY <2>1, <2>2, <2>3, <2>4, <2>5, <2>6 DEF GuardInv
<1>24. CASE Tick
  BY <1>24, GuardAssumption DEF Tick, WorkerRuns, GuardInv, GuardTypeOK, BootInv, WorkInv, DepthInv, StampInv, LateInv, Held, Stamped, THREADS, Mounting, Later
<1>25. CASE \E t \in THREADS : Hang(t)
  BY <1>25, GuardAssumption DEF Hang, GuardInv, GuardTypeOK, BootInv, WorkInv, DepthInv, StampInv, LateInv, Held, Stamped, THREADS, Mounting, Later
<1>26. CASE UNCHANGED guardVars
  BY <1>26, GuardAssumption DEF guardVars, GuardInv, GuardTypeOK, BootInv, WorkInv, DepthInv, StampInv, LateInv, Held, Stamped, THREADS, Mounting, Later
<1>27. QED
  BY <1>1, <1>2, <1>3, <1>4, <1>5, <1>6, <1>7, <1>8, <1>9, <1>10, <1>11, <1>12, <1>13, <1>14, <1>15, <1>16, <1>17, <1>18, <1>19, <1>20, <1>21, <1>22, <1>23, <1>24, <1>25, <1>26
     DEF GuardNext, Boot, Worker, Watchdog, Users

(* The inductive invariant of mount, worker, callers and watchdog.         *)
THEOREM GuardInvHolds == GuardSpec => []GuardInv
<1>1. GuardInit => GuardInv
  BY InitInv
<1>2. GuardInv /\ [GuardNext]_guardVars => GuardInv'
  BY StepInv
<1>3. QED
  BY <1>1, <1>2, PTL DEF GuardSpec

(* Mount and sd_io never hold a deadline at the same time, as the comment  *)
(* on SD_CALL_DEPTH says, although the card is ready in mid-mount.         *)
THEOREM OneHolderHolds == GuardSpec => []OneHolder
<1>1. GuardInv => OneHolder
  <2> SUFFICES ASSUME GuardInv PROVE OneHolder
    OBVIOUS
  <2>1. stage["mount"] = "idle" \/ stage["sd_io"] = "idle"
    BY DEF GuardInv, BootInv, Mounting
  <2>2. QED
    BY <2>1 DEF OneHolder, THREADS
<1>2. QED
  BY <1>1, GuardInvHolds, PTL

(* The watchdog's start time is that of the call in the driver, and 0 when *)
(* there is none (SdDeadline).                                             *)
THEOREM WatchesHolds == GuardSpec => []WatchesWhatRuns
<1>1. GuardInv => WatchesWhatRuns
  BY DEF GuardInv, GuardTypeOK, StampInv, Stamped, WatchesWhatRuns, InDriver,
         THREADS, Later
<1>2. QED
  BY <1>1, GuardInvHolds, PTL

(* No call outlives the deadline by more than a period of the watchdog.    *)
THEOREM OverdueHolds == GuardSpec => []OverdueIsCaught
<1>1. GuardInv => OverdueIsCaught
  BY GuardAssumption DEF GuardInv, GuardTypeOK, StampInv, LateInv, Stamped,
         OverdueIsCaught, InDriver, THREADS, Later
<1>2. QED
  BY <1>1, GuardInvHolds, PTL

(* Worker, watchdog and deadline implement the service the users of the    *)
(* card rely on: jobs in order, one at a time, or a restart.               *)
THEOREM GuardImplements == GuardSpec => ImplementsService
<1> USE DEF usage, bootVars, workVars, callVars
<1>1. GuardInit => Service!ServiceInit
  BY DEF GuardInit, Service!ServiceInit
<1>2. GuardInv /\ [GuardNext]_guardVars => [Service!ServiceNext]_(Service!serviceVars)
  <2> SUFFICES ASSUME GuardInv, [GuardNext]_guardVars
               PROVE  Service!ServiceNext \/ UNCHANGED <<sd_jobs, job, caller>>
    BY DEF Service!serviceVars
  <2>1. CASE \E c \in CALLERS : Call(c)
    BY <2>1 DEF Call, Service!ServiceNext, Service!Submit
  <2>2. CASE RecvJob
    BY <2>2 DEF RecvJob, GuardInv, WorkInv, Service!ServiceNext, Service!Begin
  <2>3. CASE JobDone
    BY <2>3 DEF JobDone, GuardInv, WorkInv, Service!ServiceNext, Service!Finish
  <2>4. CASE WdRestart
    BY <2>4 DEF WdRestart, Service!ServiceNext, Service!ChipRestart
  <2>5. CASE UNCHANGED <<sd_jobs, job, caller>>
    BY <2>5
  <2>6. CASE Boot
    BY <2>6, <2>5 DEF Boot, StartGuard, MountArm, MountStamp, TryMount, MountDrop,
                      MountJoin
  <2>7. CASE Worker
    BY <2>7, <2>2, <2>3, <2>5 DEF Worker, WorkerTop, WorkerArm, WorkerStamp,
          SpaceRead, Publish, RecvTimeout, NestedCall, WorkerDrop, WorkerAgain
  <2>8. CASE Watchdog
    BY <2>8, <2>4, <2>5 DEF Watchdog, WdLoad, WdPass
  <2>9. CASE Users
    BY <2>9, <2>1, <2>5 DEF Users, RequestUsage, TakeUsage
  <2>10. CASE Tick \/ \E t \in THREADS : Hang(t)
    BY <2>10, <2>5 DEF Tick, Hang
  <2>11. CASE UNCHANGED guardVars
    BY <2>11, <2>5 DEF guardVars
  <2>12. QED
    BY <2>6, <2>7, <2>8, <2>9, <2>10, <2>11 DEF GuardNext
<1>3. QED
  BY <1>1, <1>2, GuardInvHolds, PTL DEF GuardSpec, ImplementsService, Service!ServiceSpec
=============================================================================
