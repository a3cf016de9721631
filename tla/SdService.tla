------------------------------ MODULE SdService ------------------------------
(***************************************************************************)
(* What src/src/storage.rs promises the users of the SD card: calls are    *)
(* served one at a time, in the order in which they were made, and a call  *)
(* ends with its result or with a restart of the chip.                     *)
(***************************************************************************)
EXTENDS Naturals, Sequences

CONSTANTS
  CALLERS, \* threads that use storage::call
  NONE     \* no caller

ASSUME ServiceAssumption == NONE \notin CALLERS

VARIABLES
  sd_jobs, \* callers whose jobs are queued
  job,     \* the caller whose job runs, or NONE
  caller   \* "idle" or "waiting"

serviceVars == <<sd_jobs, job, caller>>

ServiceInit ==
  /\ sd_jobs = <<>> /\ job = NONE
  /\ caller = [c \in CALLERS |-> "idle"]

(* call: queue the job and wait. *)
Submit(c) ==
  /\ caller[c] = "idle"
  /\ caller' = [caller EXCEPT ![c] = "waiting"]
  /\ sd_jobs' = Append(sd_jobs, c)
  /\ UNCHANGED job

(* The worker takes the oldest job. *)
Begin ==
  /\ job = NONE /\ sd_jobs # <<>>
  /\ job' = Head(sd_jobs) /\ sd_jobs' = Tail(sd_jobs)
  /\ UNCHANGED caller

(* The job is done and its caller goes on. *)
Finish ==
  /\ job # NONE /\ job' = NONE
  /\ caller' = [caller EXCEPT ![job] = "idle"]
  /\ UNCHANGED sd_jobs

ChipRestart ==
  /\ sd_jobs' = <<>> /\ job' = NONE
  /\ caller' = [c \in CALLERS |-> "idle"]

ServiceNext == (\E c \in CALLERS : Submit(c)) \/ Begin \/ Finish \/ ChipRestart

ServiceSpec == ServiceInit /\ [][ServiceNext]_serviceVars
=============================================================================
