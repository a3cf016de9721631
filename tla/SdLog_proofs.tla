---------------------------- MODULE SdLog_proofs ----------------------------
(***************************************************************************)
(* Proofs about SdLog, for any sizes, rotation point, chunk and bounds:    *)
(* the queue's count is exact, no line is lost without trace, the count of *)
(* drops is right until a flush fails that took one, and every line is on  *)
(* the card, in the batch or in the queue in order.                        *)
(***************************************************************************)
EXTENDS SdLog, SequenceTheorems, TLAPS

(* A flush runs as the job of the writer, and holds a batch and an open    *)
(* file only where it says so.                                             *)
StageInv ==
  /\ flush # "start" => job = "sd_log"
  /\ flush \in {"start", "ok", "err"} => batch = <<>> /\ batch_dropped = 0
  /\ flush = "write" => card["log"] # NONE

CountInv == TypeOK /\ StageInv /\ QueueExact /\ NoSilentLoss

LEMMA ContentsType ==
  ASSUME TypeOK
  PROVE  /\ Contents(card["log"]) \in Seq(Nat)
         /\ Contents(card["log1"]) \in Seq(Nat)
         /\ Contents(File) \in Seq(Nat)
<1>1. http.path \in PATHS
  BY DEF TypeOK, HttpRequest
<1> QED
  BY <1>1 DEF TypeOK, Contents, PATHS, File

LEMMA RequestType ==
  /\ NoRequest \in HttpRequest
  /\ \A r \in HttpRequest : r.path \in PATHS /\ r.offset \in Nat /\ r.got \in Seq(Nat)
BY DEF NoRequest, HttpRequest, PATHS

LEMMA EnqueueCounts ==
  ASSUME CountInv, Enqueue, UNCHANGED <<batch, batch_dropped, written, reported>>,
         faults' \in Nat, faults' = 0 => faults = 0
  PROVE  /\ lines' \in Seq(Nat) /\ bytes' \in Nat /\ dropped' \in Nat
         /\ logged' \in Nat /\ since_success' \in Nat
         /\ QueueExact' /\ NoSilentLoss'
<1>1. /\ lines \in Seq(Nat) /\ bytes \in Nat /\ dropped \in Nat /\ logged \in Nat
      /\ since_success \in Nat /\ bytes = Len(lines) /\ bytes <= QUEUE_MAX_BYTES
      /\ QUEUE_MAX_BYTES \in Nat
  BY LogAssumption DEF CountInv, TypeOK, QueueExact
<1>a. /\ batch \in Seq(Nat) /\ batch_dropped \in Nat /\ written \in Nat
      /\ reported \in Nat /\ faults \in Nat /\ NoSilentLoss
  BY DEF CountInv, TypeOK
<1>2. CASE bytes + 1 > QUEUE_MAX_BYTES
  BY <1>1, <1>a, <1>2 DEF Enqueue, QueueExact, NoSilentLoss
<1>3. CASE ~(bytes + 1 > QUEUE_MAX_BYTES)
  <2>1. /\ lines' = Append(lines, logged + 1) /\ bytes' = bytes + 1
        /\ logged' = logged + 1 /\ dropped' = dropped
        /\ since_success' = since_success
    BY <1>3 DEF Enqueue
  <2>2. lines' \in Seq(Nat) /\ Len(lines') = Len(lines) + 1
    BY <1>1, <2>1
  <2> QED
    BY <1>1, <1>a, <1>3, <2>1, <2>2 DEF QueueExact, NoSilentLoss
<1> QED
  BY <1>2, <1>3

LEMMA InitCounts == Init => CountInv
<1> SUFFICES ASSUME Init PROVE CountInv
  OBVIOUS
<1>1. failed_once \in BOOLEAN
  BY Zenon DEF Init
<1>2. card \in [PATHS -> Seq(Nat) \cup {NONE}]
  BY DEF Init
<1>3. TypeOK
  BY <1>1, <1>2, RequestType DEF Init, TypeOK
<1>4. StageInv
  BY DEF Init, StageInv
<1> QED
  BY <1>3, <1>4, LogAssumption DEF Init, CountInv, QueueExact, NoSilentLoss

-----------------------------------------------------------------------------
(* The steps of the log and of the writer. *)

LEMMA FlushCounts ==
  ASSUME CountInv, Log \/ WriterCalls \/ Flush
  PROVE  CountInv'
<1> USE DEF CountInv
<1>1. CASE Log
  <2>1. /\ lines' \in Seq(Nat) /\ bytes' \in Nat /\ dropped' \in Nat
        /\ logged' \in Nat /\ since_success' \in Nat
        /\ QueueExact' /\ NoSilentLoss'
    BY <1>1, EnqueueCounts DEF Log, TypeOK, flushVars
  <2> QED
    BY <1>1, <2>1 DEF Log, TypeOK, StageInv, flushVars, serviceVars
<1>2. CASE WriterCalls
  BY <1>2 DEF WriterCalls, Submit, TypeOK, StageInv, QueueExact, NoSilentLoss,
     queueVars, flushVars, auxVars
<1>3. CASE Drain
  BY <1>3, LogAssumption DEF Drain, StartsFlush, NothingQueued, TypeOK, StageInv, QueueExact,
     NoSilentLoss, serviceVars
<1>4. CASE RemoveRotated
  BY <1>4 DEF RemoveRotated, TypeOK, StageInv, QueueExact, NoSilentLoss,
     serviceVars, queueVars, auxVars, PATHS
<1>5. CASE Rename
  BY <1>5 DEF Rename, TypeOK, StageInv, QueueExact, NoSilentLoss,
     serviceVars, queueVars, auxVars, PATHS
<1>6. CASE OpenLog
  <2>1. Contents(card["log"]) \in Seq(Nat)
    BY ContentsType
  <2>2. card' = [card EXCEPT !["log"] = Contents(card["log"])]
    BY <1>6 DEF OpenLog
  <2> QED
    BY <1>6, <2>1, <2>2, LogAssumption DEF OpenLog, TypeOK, StageInv, QueueExact, NoSilentLoss,
       serviceVars, queueVars, auxVars, PATHS
<1>7. CASE WriteLine
  <2>1. card["log"] \in Seq(Nat)
    BY <1>7 DEF WriteLine, TypeOK, StageInv, PATHS
  <2>2. Head(batch) \in Nat /\ Tail(batch) \in Seq(Nat) /\ Len(Tail(batch)) + 1 = Len(batch)
    BY <1>7 DEF WriteLine, TypeOK
  <2>3. Append(card["log"], Head(batch)) \in Seq(Nat)
    BY <2>1, <2>2
  <2>4. card' = [card EXCEPT !["log"] = Append(card["log"], Head(batch))]
    BY <1>7 DEF WriteLine
  <2>5. /\ card' \in [PATHS -> Seq(Nat) \cup {NONE}]
        /\ card'["log"] # NONE
    BY <2>3, <2>4, LogAssumption DEF TypeOK, PATHS
  <2>6. TypeOK' /\ StageInv' /\ QueueExact'
    BY <1>7, <2>2, <2>5 DEF WriteLine, TypeOK, StageInv, QueueExact, serviceVars,
       queueVars
  <2>7. NoSilentLoss'
    BY <1>7, <2>2 DEF WriteLine, NoSilentLoss, TypeOK, queueVars
  <2> QED
    BY <2>6, <2>7
<1>8. CASE WriteDropped
  BY <1>8 DEF WriteDropped, TypeOK, StageInv, QueueExact, NoSilentLoss,
     serviceVars, queueVars
<1>9. CASE FlushFails
  BY <1>9 DEF FlushFails, TypeOK, StageInv, QueueExact, NoSilentLoss,
     serviceVars, queueVars, auxVars
<1>10. CASE FlushReturns
  <2>1. failed_once' \in BOOLEAN
    BY <1>10, Zenon DEF FlushReturns
  <2>2. CASE Enqueue
    <3>1. /\ lines' \in Seq(Nat) /\ bytes' \in Nat /\ dropped' \in Nat
          /\ logged' \in Nat /\ since_success' \in Nat
          /\ QueueExact' /\ NoSilentLoss'
      BY <1>10, <2>2, EnqueueCounts DEF FlushReturns, TypeOK
    <3> QED
      BY <1>10, <2>1, <3>1 DEF FlushReturns, TypeOK, StageInv
  <2>3. CASE NotEnqueued
    BY <1>10, <2>1, <2>3 DEF FlushReturns, NotEnqueued, TypeOK, StageInv, QueueExact,
       NoSilentLoss, queueVars
  <2> QED
    BY <1>10, <2>2, <2>3 DEF FlushReturns
<1> QED
  BY <1>1, <1>2, <1>3, <1>4, <1>5, <1>6, <1>7, <1>8, <1>9, <1>10 DEF Flush

-----------------------------------------------------------------------------
(* The steps of the HTTP task, the worker and the chip. *)

LEMMA ChunkIs ==
  ASSUME CountInv
  PROVE  /\ Chunk \in Seq(Nat) /\ Len(Chunk) \in Nat
         /\ http.offset + Len(Chunk) <= Len(Contents(File)) \/ Chunk = <<>>
         /\ \A i \in 1 .. Len(Chunk) :
              /\ http.offset + i \in 1 .. Len(Contents(File))
              /\ Chunk[i] = Contents(File)[http.offset + i]
<1> DEFINE f == Contents(File)
           a == http.offset + 1
           b == IF http.offset + HTTP_CHUNK_BYTES < Len(f)
                THEN http.offset + HTTP_CHUNK_BYTES ELSE Len(f)
<1>1. f \in Seq(Nat) /\ http.offset \in Nat /\ HTTP_CHUNK_BYTES \in Nat \ {0}
  BY ContentsType, RequestType, LogAssumption DEF CountInv, TypeOK
<1>2. a \in Nat \ {0} /\ b \in Nat /\ b <= Len(f)
  BY <1>1
<1>3. Chunk = SubSeq(f, a, b)
  BY DEF Chunk
<1> HIDE DEF f, a, b
<1>4. \A i \in a .. b : i \in 1 .. Len(f)
  BY <1>1, <1>2
<1>5. /\ SubSeq(f, a, b) \in Seq(Nat)
      /\ Len(SubSeq(f, a, b)) = IF a <= b THEN b - a + 1 ELSE 0
      /\ \A i \in 1 .. b - a + 1 : SubSeq(f, a, b)[i] = f[a + i - 1]
  BY <1>1, <1>2, <1>4, SubSeqProperties
<1> QED
  <2>1. Len(Chunk) = IF a <= b THEN b - a + 1 ELSE 0
    BY <1>3, <1>5
  <2>2. Len(Chunk) \in Nat /\ (Len(Chunk) = 0 \/ Len(Chunk) = b - a + 1)
    BY <1>1, <1>2, <2>1
  <2>3. Chunk \in Seq(Nat) /\ (Len(Chunk) = 0 => Chunk = <<>>)
    BY <1>3, <1>5
  <2>4. a = http.offset + 1
    BY DEF a
  <2>5. http.offset + Len(Chunk) <= Len(f) \/ Chunk = <<>>
    BY <1>1, <1>2, <2>2, <2>3, <2>4
  <2>6. ASSUME NEW i \in 1 .. Len(Chunk)
        PROVE  http.offset + i \in 1 .. Len(f) /\ Chunk[i] = f[http.offset + i]
    <3>1. i \in 1 .. b - a + 1 /\ Len(f) \in Nat
      BY <1>1, <1>2, <2>2
    <3>2. Chunk[i] = f[a + i - 1]
      BY <1>3, <1>5, <3>1
    <3>3. ASSUME NEW o \in Nat, NEW k \in Nat, NEW l \in Nat, NEW c \in Nat,
                 c = o + 1, l <= k, i \in 1 .. l - c + 1
          PROVE  o + i \in 1 .. k /\ c + i - 1 = o + i
      BY <3>3
    <3>4. http.offset + i \in 1 .. Len(f) /\ a + i - 1 = http.offset + i
      BY <1>1, <1>2, <2>4, <3>1, <3>3
    <3> QED
      BY <3>2, <3>4
  <2> QED
    BY <2>2, <2>3, <2>5, <2>6 DEF f

LEMMA HttpCounts ==
  ASSUME CountInv, BeginJob \/ Http \/ Restart
  PROVE  CountInv'
<1> USE DEF CountInv
<1>1. CASE BeginJob
  <2>1. "sd_log" # NONE
    BY LogAssumption, ServiceAssumption
  <2> QED
    BY <1>1, <2>1 DEF BeginJob, Begin, TypeOK, StageInv, QueueExact, NoSilentLoss,
       queueVars, flushVars, auxVars
<1>2. ASSUME NEW op \in {"stat", "delete"}, NEW path \in PATHS, Request(op, path)
      PROVE  CountInv'
  <2>1. http' = [op |-> op, path |-> path, len |-> 0, offset |-> 0, got |-> <<>>]
    BY <1>2 DEF Request, NoRequest
  <2>2. http' \in HttpRequest
    BY <2>1 DEF HttpRequest
  <2> QED
    BY <1>2, <2>2 DEF Request, Submit, TypeOK, StageInv, QueueExact, NoSilentLoss,
       queueVars, flushVars, auxVars
<1>3. CASE Stat
  <2>1. http' = NoRequest \/ (File # NONE /\ http' = [http EXCEPT !.op = "send", !.len = Len(File)])
    BY <1>3 DEF Stat
  <2>2. File # NONE => Len(File) \in Nat
    BY RequestType DEF File, TypeOK
  <2>3. http' \in HttpRequest
    BY <2>1, <2>2, RequestType DEF TypeOK, HttpRequest
  <2> QED
    BY <1>3, <2>3 DEF Stat, Serving, Finish, TypeOK, StageInv, QueueExact,
       NoSilentLoss, queueVars, flushVars, auxVars
<1>4. CASE NextChunk
  <2>1. http' = NoRequest \/ http' = [http EXCEPT !.op = "read"]
    BY <1>4 DEF NextChunk
  <2>2. http' \in HttpRequest
    BY <2>1, RequestType DEF TypeOK, HttpRequest
  <2> QED
    BY <1>4, <2>2 DEF NextChunk, Submit, TypeOK, StageInv, QueueExact, NoSilentLoss,
       serviceVars, queueVars, flushVars, auxVars
<1>5. CASE ReadChunk
  <2>1. \/ http' = NoRequest
        \/ http' = [http EXCEPT !.op = "send", !.offset = http.offset + Len(Chunk),
                                !.got = http.got \o Chunk]
    BY <1>5 DEF ReadChunk
  <2>2. http.got \o Chunk \in Seq(Nat) /\ http.offset + Len(Chunk) \in Nat
    BY ChunkIs, RequestType DEF TypeOK
  <2>3. http' \in HttpRequest
    BY <2>1, <2>2, RequestType DEF TypeOK, HttpRequest
  <2> QED
    BY <1>5, <2>3 DEF ReadChunk, Serving, Finish, TypeOK, StageInv, QueueExact,
       NoSilentLoss, queueVars, flushVars, auxVars
<1>6. CASE ServingFails
  BY <1>6, RequestType DEF ServingFails, Serving, Finish, TypeOK, StageInv,
     QueueExact, NoSilentLoss, serviceVars, queueVars, flushVars, auxVars
<1>7. CASE Delete
  <2>1. flush = "start" /\ http' = NoRequest
    BY <1>7 DEF Delete, Serving, StageInv
  <2>2. card' \in [PATHS -> Seq(Nat) \cup {NONE}]
    BY <1>7 DEF Delete, TypeOK
  <2>3. CASE Enqueue
    <3>1. /\ lines' \in Seq(Nat) /\ bytes' \in Nat /\ dropped' \in Nat
          /\ logged' \in Nat /\ since_success' \in Nat
          /\ QueueExact' /\ NoSilentLoss'
      BY <1>7, <2>3, EnqueueCounts DEF Delete, TypeOK, flushVars
    <3> QED
      BY <1>7, <2>1, <2>2, <3>1, RequestType DEF Delete, TypeOK, StageInv, flushVars
  <2>4. CASE NotEnqueued
    BY <1>7, <2>1, <2>2, <2>4, RequestType DEF Delete, NotEnqueued, TypeOK, StageInv,
       QueueExact, NoSilentLoss, queueVars, flushVars
  <2> QED
    BY <1>7, <2>3, <2>4 DEF Delete
<1>8. CASE DeleteFails
  <2>1. /\ lines' \in Seq(Nat) /\ bytes' \in Nat /\ dropped' \in Nat
        /\ logged' \in Nat /\ since_success' \in Nat
        /\ QueueExact' /\ NoSilentLoss'
    BY <1>8, EnqueueCounts DEF DeleteFails, TypeOK, flushVars
  <2> QED
    BY <1>8, <2>1, RequestType DEF DeleteFails, Serving, Finish, TypeOK, StageInv,
       flushVars
<1>9. CASE Restart
  <2>1. card' \in [PATHS -> Seq(Nat) \cup {NONE}]
    <3>1. CASE flush = "write"
      <4>1. PICK n \in synced .. Len(card["log"]) :
              card' = [card EXCEPT !["log"] = SubSeq(card["log"], 1, n)]
        BY <1>9, <3>1 DEF Restart
      <4>2. card["log"] \in Seq(Nat) /\ n \in Nat
        BY <3>1, <4>1 DEF TypeOK, StageInv, PATHS
      <4>3. SubSeq(card["log"], 1, n) \in Seq(Nat)
        BY <4>1, <4>2, SubSeqProperties
      <4> QED
        BY <4>1, <4>3 DEF TypeOK
    <3>2. CASE flush # "write"
      BY <1>9, <3>2 DEF Restart, TypeOK
    <3> QED
      BY <3>1, <3>2
  <2>2. failed_once' \in BOOLEAN
    BY <1>9, Zenon DEF Restart
  <2> QED
    BY <1>9, <2>1, <2>2, RequestType, LogAssumption DEF Restart, ChipRestart, TypeOK,
       StageInv, QueueExact, NoSilentLoss
<1> QED
  BY <1>1, <1>2, <1>3, <1>4, <1>5, <1>6, <1>7, <1>8, <1>9 DEF Http

LEMMA StepCounts == CountInv /\ [Next]_vars => CountInv'
<1> SUFFICES ASSUME CountInv, [Next]_vars PROVE CountInv'
  OBVIOUS
<1>1. CASE UNCHANGED vars
  BY <1>1 DEF vars, serviceVars, queueVars, flushVars, auxVars, CountInv, TypeOK,
     StageInv, QueueExact, NoSilentLoss
<1> QED
  BY <1>1, FlushCounts, HttpCounts DEF Next

(* The variables of the log keep their types, and a flush its stages. *)
THEOREM CountInvHolds == Spec => []CountInv
BY InitCounts, StepCounts, PTL DEF Spec

(* The queue's byte count is that of its lines and never above the bound,  *)
(* however lines are logged while a flush runs.                            *)
THEOREM QueueExactHolds == Spec => []QueueExact
<1>1. CountInv => QueueExact
  BY DEF CountInv
<1> QED
  BY <1>1, CountInvHolds, PTL

(* Without a failure every line is queued, written, or counted as dropped. *)
THEOREM NoSilentLossHolds == Spec => []NoSilentLoss
<1>1. CountInv => NoSilentLoss
  BY DEF CountInv
<1> QED
  BY <1>1, CountInvHolds, PTL

(* What a failing flush with a count of drops in its batch does: it forgets *)
(* them (flush_to_card).                                                    *)
ForgetsDrops == FlushFails /\ batch_dropped > 0

(* Every other step keeps the count, and a flush that succeeds restores it. *)
LEMMA StepDrops ==
  ASSUME CountInv, Next
  PROVE  /\ DroppedSinceSuccess /\ ~ForgetsDrops => DroppedSinceSuccess'
         /\ flush # "ok" /\ flush' = "ok" => DroppedSinceSuccess'
<1>1. /\ dropped \in Nat /\ batch_dropped \in Nat /\ since_success \in Nat
      /\ flush \in {"start", "ok", "err"} => batch_dropped = 0
  BY DEF CountInv, TypeOK, StageInv
<1>2. ASSUME Enqueue \/ NotEnqueued, UNCHANGED batch_dropped
      PROVE  DroppedSinceSuccess => DroppedSinceSuccess'
  BY <1>1, <1>2 DEF Enqueue, NotEnqueued, queueVars, DroppedSinceSuccess
<1>3. CASE Log
  BY <1>2, <1>3 DEF Log, flushVars
<1>4. CASE Drain
  BY <1>1, <1>4 DEF Drain, StartsFlush, NothingQueued, DroppedSinceSuccess
<1>5. CASE WriteDropped
  BY <1>1, <1>5 DEF WriteDropped, DroppedSinceSuccess, queueVars
<1>6. CASE FlushFails
  BY <1>1, <1>6 DEF FlushFails, ForgetsDrops, DroppedSinceSuccess, queueVars, auxVars
<1>7. CASE FlushReturns
  BY <1>2, <1>7 DEF FlushReturns
<1>8. CASE Delete
  BY <1>2, <1>8 DEF Delete, flushVars
<1>9. CASE DeleteFails
  BY <1>2, <1>9 DEF DeleteFails, flushVars
<1>10. CASE Restart
  BY <1>10 DEF Restart, DroppedSinceSuccess
<1>11. CASE \/ WriterCalls \/ BeginJob \/ RemoveRotated \/ Rename \/ OpenLog \/ WriteLine
            \/ \E op \in {"stat", "delete"}, path \in PATHS : Request(op, path)
            \/ Stat \/ NextChunk \/ ReadChunk \/ ServingFails
  <2>1. UNCHANGED <<dropped, batch_dropped, since_success>>
    BY <1>11 DEF WriterCalls, BeginJob, RemoveRotated, Rename, OpenLog, WriteLine,
       Request, Stat, NextChunk, ReadChunk, ServingFails, queueVars, flushVars, auxVars
  <2>2. flush' = "ok" => flush = "ok"
    BY <1>11 DEF WriterCalls, BeginJob, RemoveRotated, Rename, OpenLog, WriteLine,
       Request, Stat, NextChunk, ReadChunk, ServingFails, flushVars
  <2> QED BY <2>1, <2>2 DEF DroppedSinceSuccess
<1>12. Log \/ Delete \/ DeleteFails => UNCHANGED flush
  BY DEF Log, Delete, DeleteFails, flushVars
<1>13. FlushReturns \/ Restart => flush' = "start"
  BY DEF FlushReturns, Restart
<1> QED
  BY <1>3, <1>4, <1>5, <1>6, <1>7, <1>8, <1>9, <1>10, <1>11, <1>12, <1>13
     DEF Next, Flush, Http

(* The comment on Queue::dropped is true until a flush fails that has taken *)
(* a count out of the queue, and of nothing else: neither lines logged       *)
(* during a flush, nor deletions, nor restarts, nor a flush that fails with  *)
(* nothing dropped can break it (flush_to_card).                             *)
THEOREM DroppedSinceSuccessHolds ==
  Spec /\ [][~ForgetsDrops]_vars => []DroppedSinceSuccess
<1>1. Init => DroppedSinceSuccess
  BY DEF Init, DroppedSinceSuccess
<1>2. CountInv /\ DroppedSinceSuccess /\ [Next]_vars /\ [~ForgetsDrops]_vars
        => DroppedSinceSuccess'
  <2>1. CASE UNCHANGED vars
    BY <2>1 DEF vars, queueVars, flushVars, auxVars, DroppedSinceSuccess
  <2> QED BY <2>1, StepDrops
<1> QED BY <1>1, <1>2, CountInvHolds, PTL DEF Spec

(* And it is true again after the next flush that succeeds, whatever failed  *)
(* before (flush_to_card).                                                   *)
THEOREM SuccessRestoresHolds ==
  Spec => [][flush # "ok" /\ flush' = "ok" => DroppedSinceSuccess']_vars
<1>1. CountInv /\ [Next]_vars
        => [flush # "ok" /\ flush' = "ok" => DroppedSinceSuccess']_vars
  BY StepDrops
<1> QED BY <1>1, CountInvHolds, PTL DEF Spec

-----------------------------------------------------------------------------
(* The order of the lines. *)

Before(s, t) == \A i \in 1 .. Len(s), j \in 1 .. Len(t) : s[i] < t[j]
UpTo(s, n)   == \A i \in 1 .. Len(s) : s[i] <= n

(* Four sequences that follow each other, none above n. *)
Chain(a, b, c, d, n) ==
  /\ Increasing(a) /\ Increasing(b) /\ Increasing(c) /\ Increasing(d)
  /\ Before(a, b) /\ Before(a, c) /\ Before(a, d)
  /\ Before(b, c) /\ Before(b, d) /\ Before(c, d)
  /\ UpTo(a, n) /\ UpTo(b, n) /\ UpTo(c, n) /\ UpTo(d, n)

(* What was read (g) is below what is still to come: the rest of the file  *)
(* f after the offset o, the batch c and the queue d.                      *)
Reading(g, f, o, c, d, n) ==
  /\ Increasing(g) /\ UpTo(g, n) /\ Before(g, c) /\ Before(g, d)
  /\ \A i \in 1 .. Len(g), j \in 1 .. Len(f) : j > o => g[i] < f[j]

LEMMA EmptyBefore ==
  /\ Increasing(<<>>)
  /\ \A s : Before(<<>>, s) /\ Before(s, <<>>)
  /\ \A n : UpTo(<<>>, n)
BY DEF Increasing, Before, UpTo

LEMMA BeforeConcat ==
  ASSUME NEW s \in Seq(Nat), NEW t \in Seq(Nat)
  PROVE  /\ s \o t \in Seq(Nat)
         /\ Increasing(s) /\ Increasing(t) /\ Before(s, t) => Increasing(s \o t)
         /\ \A u : Before(s, u) /\ Before(t, u) => Before(s \o t, u)
         /\ \A u : Before(u, s) /\ Before(u, t) => Before(u, s \o t)
         /\ \A n : UpTo(s, n) /\ UpTo(t, n) => UpTo(s \o t, n)
<1>1. /\ s \o t \in Seq(Nat) /\ Len(s) \in Nat /\ Len(t) \in Nat
      /\ Len(s \o t) = Len(s) + Len(t)
  OBVIOUS
<1>2. \A i \in 1 .. Len(s \o t) :
         \/ i \in 1 .. Len(s) /\ (s \o t)[i] = s[i]
         \/ i > Len(s) /\ i - Len(s) \in 1 .. Len(t) /\ (s \o t)[i] = t[i - Len(s)]
  BY <1>1
<1>3. ASSUME Increasing(s), Increasing(t), Before(s, t),
             NEW i \in 1 .. Len(s \o t), NEW j \in 1 .. Len(s \o t), i < j
      PROVE  (s \o t)[i] < (s \o t)[j]
  <2>1. CASE j \in 1 .. Len(s)
    BY <1>1, <1>2, <1>3, <2>1 DEF Increasing
  <2>2. CASE i \in 1 .. Len(s) /\ j > Len(s)
    BY <1>1, <1>2, <1>3, <2>2 DEF Before
  <2>3. CASE i > Len(s) /\ j > Len(s)
    <3>1. /\ i - Len(s) \in 1 .. Len(t) /\ j - Len(s) \in 1 .. Len(t)
          /\ i - Len(s) < j - Len(s)
          /\ (s \o t)[i] = t[i - Len(s)] /\ (s \o t)[j] = t[j - Len(s)]
      BY <1>1, <1>2, <1>3, <2>3
    <3> QED
      BY <1>3, <3>1 DEF Increasing
  <2> QED
    BY <1>1, <1>3, <2>1, <2>2, <2>3
<1>4. \A u : Before(s, u) /\ Before(t, u) => Before(s \o t, u)
  BY <1>2 DEF Before
<1>5. \A u : Before(u, s) /\ Before(u, t) => Before(u, s \o t)
  BY <1>2 DEF Before
<1>6. \A n : UpTo(s, n) /\ UpTo(t, n) => UpTo(s \o t, n)
  BY <1>2 DEF UpTo
<1> QED
  BY <1>1, <1>3, <1>4, <1>5, <1>6 DEF Increasing

LEMMA BeforeAppend ==
  ASSUME NEW s \in Seq(Nat), NEW e \in Nat
  PROVE  /\ Append(s, e) \in Seq(Nat)
         /\ Increasing(s) /\ (\A i \in 1 .. Len(s) : s[i] < e) => Increasing(Append(s, e))
         /\ \A u : Before(s, u) /\ (\A j \in 1 .. Len(u) : e < u[j]) => Before(Append(s, e), u)
         /\ \A u : Before(u, s) /\ (\A j \in 1 .. Len(u) : u[j] < e) => Before(u, Append(s, e))
         /\ \A n : UpTo(s, n) /\ e <= n => UpTo(Append(s, e), n)
<1>1. /\ Append(s, e) \in Seq(Nat) /\ Len(s) \in Nat
      /\ Len(Append(s, e)) = Len(s) + 1
  OBVIOUS
<1>2. \A i \in 1 .. Len(Append(s, e)) :
         \/ i \in 1 .. Len(s) /\ Append(s, e)[i] = s[i]
         \/ i = Len(s) + 1 /\ Append(s, e)[i] = e
  BY <1>1
<1>3. ASSUME Increasing(s), \A i \in 1 .. Len(s) : s[i] < e,
             NEW i \in 1 .. Len(Append(s, e)), NEW j \in 1 .. Len(Append(s, e)), i < j
      PROVE  Append(s, e)[i] < Append(s, e)[j]
  <2>1. i \in 1 .. Len(s) /\ Append(s, e)[i] = s[i]
    BY <1>1, <1>2, <1>3
  <2> QED
    BY <1>1, <1>2, <1>3, <2>1 DEF Increasing
<1> QED
  BY <1>1, <1>2, <1>3 DEF Increasing, Before, UpTo

LEMMA BeforeSubSeq ==
  ASSUME NEW s \in Seq(Nat), NEW k \in Nat, k <= Len(s)
  PROVE  /\ SubSeq(s, 1, k) \in Seq(Nat)
         /\ Increasing(s) => Increasing(SubSeq(s, 1, k))
         /\ \A u : Before(u, s) => Before(u, SubSeq(s, 1, k))
         /\ \A n : UpTo(s, n) => UpTo(SubSeq(s, 1, k), n)
<1>1. \A i \in 1 .. k : i \in 1 .. Len(s) /\ s[i] \in Nat
  OBVIOUS
<1>2. /\ SubSeq(s, 1, k) \in Seq(Nat) /\ Len(SubSeq(s, 1, k)) = k
      /\ \A i \in 1 .. k : SubSeq(s, 1, k)[i] = s[i]
  <2>1. /\ SubSeq(s, 1, k) \in Seq(Nat)
        /\ Len(SubSeq(s, 1, k)) = IF 1 <= k THEN k - 1 + 1 ELSE 0
        /\ \A i \in 1 .. k - 1 + 1 : SubSeq(s, 1, k)[i] = s[1 + i - 1]
    BY <1>1, SubSeqProperties
  <2> QED
    BY <2>1
<1> QED
  BY <1>1, <1>2 DEF Increasing, Before, UpTo

LEMMA BeforeTail ==
  ASSUME NEW s \in Seq(Nat), s # <<>>
  PROVE  /\ Head(s) \in Nat /\ Tail(s) \in Seq(Nat)
         /\ Increasing(s) => Increasing(Tail(s)) /\ \A j \in 1 .. Len(Tail(s)) : Head(s) < Tail(s)[j]
         /\ \A u : Before(u, s) => Before(u, Tail(s)) /\ \A j \in 1 .. Len(u) : u[j] < Head(s)
         /\ \A u : Before(s, u) => Before(Tail(s), u) /\ \A j \in 1 .. Len(u) : Head(s) < u[j]
         /\ \A n : UpTo(s, n) => UpTo(Tail(s), n) /\ Head(s) <= n
<1>1. /\ Head(s) = s[1] /\ 1 \in 1 .. Len(s) /\ Head(s) \in Nat
      /\ Tail(s) \in Seq(Nat) /\ Len(Tail(s)) = Len(s) - 1
  OBVIOUS
<1>2. \A i \in 1 .. Len(Tail(s)) :
         i + 1 \in 1 .. Len(s) /\ 1 < i + 1 /\ Tail(s)[i] = s[i + 1]
  BY <1>1
<1> QED
  BY <1>1, <1>2 DEF Increasing, Before, UpTo

LEMMA ChainConcat ==
  ASSUME NEW a \in Seq(Nat), NEW b \in Seq(Nat), NEW c \in Seq(Nat),
         NEW d \in Seq(Nat), NEW n \in Nat, Chain(a, b, c, d, n)
  PROVE  Increasing(a \o b \o c \o d)
<1>1. a \o b \in Seq(Nat) /\ Increasing(a \o b) /\ Before(a \o b, c) /\ Before(a \o b, d)
  BY BeforeConcat DEF Chain
<1>2. /\ a \o b \o c \in Seq(Nat) /\ Increasing(a \o b \o c)
      /\ Before(a \o b \o c, d)
  BY <1>1, BeforeConcat DEF Chain
<1> QED
  BY <1>2, BeforeConcat DEF Chain

(* A line n + 1 goes to the end of the queue. *)
LEMMA ChainLog ==
  ASSUME NEW a \in Seq(Nat), NEW b \in Seq(Nat), NEW c \in Seq(Nat),
         NEW d \in Seq(Nat), NEW n \in Nat, Chain(a, b, c, d, n)
  PROVE  Chain(a, b, c, d, n + 1) /\ Chain(a, b, c, Append(d, n + 1), n + 1)
<1>1. ASSUME NEW s \in Seq(Nat), UpTo(s, n)
      PROVE  UpTo(s, n + 1) /\ \A i \in 1 .. Len(s) : s[i] < n + 1
  <2>1. \A i \in 1 .. Len(s) : s[i] \in Nat /\ s[i] <= n
    BY <1>1 DEF UpTo
  <2> QED
    BY <2>1 DEF UpTo
<1>2. /\ UpTo(a, n + 1) /\ \A i \in 1 .. Len(a) : a[i] < n + 1
      /\ UpTo(b, n + 1) /\ \A i \in 1 .. Len(b) : b[i] < n + 1
      /\ UpTo(c, n + 1) /\ \A i \in 1 .. Len(c) : c[i] < n + 1
      /\ UpTo(d, n + 1) /\ \A i \in 1 .. Len(d) : d[i] < n + 1
  BY <1>1 DEF Chain
<1>3. /\ Increasing(Append(d, n + 1)) /\ Before(a, Append(d, n + 1))
      /\ Before(b, Append(d, n + 1)) /\ Before(c, Append(d, n + 1))
      /\ UpTo(Append(d, n + 1), n + 1)
  <2>1. n + 1 \in Nat /\ n + 1 <= n + 1
    OBVIOUS
  <2> QED
    BY <1>2, <2>1, BeforeAppend, Zenon DEF Chain
<1> QED
  BY <1>2, <1>3 DEF Chain

(* The head of the batch goes to the end of the log. *)
LEMMA ChainWrite ==
  ASSUME NEW a \in Seq(Nat), NEW b \in Seq(Nat), NEW c \in Seq(Nat),
         NEW d \in Seq(Nat), NEW n \in Nat, Chain(a, b, c, d, n), c # <<>>
  PROVE  Chain(a, Append(b, Head(c)), Tail(c), d, n)
<1>1. /\ Head(c) \in Nat /\ Increasing(Tail(c))
      /\ \A j \in 1 .. Len(Tail(c)) : Head(c) < Tail(c)[j]
      /\ Before(a, Tail(c)) /\ \A j \in 1 .. Len(a) : a[j] < Head(c)
      /\ Before(b, Tail(c)) /\ \A j \in 1 .. Len(b) : b[j] < Head(c)
      /\ Before(Tail(c), d) /\ \A j \in 1 .. Len(d) : Head(c) < d[j]
      /\ UpTo(Tail(c), n) /\ Head(c) <= n
  BY BeforeTail DEF Chain
<1>2. /\ Increasing(Append(b, Head(c))) /\ Before(a, Append(b, Head(c)))
      /\ Before(Append(b, Head(c)), Tail(c)) /\ Before(Append(b, Head(c)), d)
      /\ UpTo(Append(b, Head(c)), n)
  BY <1>1, BeforeAppend DEF Chain
<1> QED
  BY <1>1, <1>2 DEF Chain

LEMMA ReadingLog ==
  ASSUME NEW g \in Seq(Nat), NEW f, NEW o, NEW c, NEW d \in Seq(Nat), NEW n \in Nat,
         Reading(g, f, o, c, d, n)
  PROVE  Reading(g, f, o, c, d, n + 1) /\ Reading(g, f, o, c, Append(d, n + 1), n + 1)
<1>1. \A i \in 1 .. Len(g) : g[i] \in Nat /\ g[i] <= n
  BY DEF Reading, UpTo
<1>2. n + 1 \in Nat /\ UpTo(g, n + 1) /\ \A i \in 1 .. Len(g) : g[i] < n + 1
  BY <1>1 DEF UpTo
<1>3. Before(g, Append(d, n + 1))
  BY <1>2, BeforeAppend DEF Reading
<1> QED
  BY <1>2, <1>3 DEF Reading

LEMMA ReadingNothing ==
  \A f, o, c, d, n : Reading(<<>>, f, o, c, d, n)
BY EmptyBefore DEF Reading

L1 == Contents(card["log1"])
L  == Contents(card["log"])

ReadInv ==
  /\ Reading(http.got, Contents(File), http.offset, batch, lines, logged)
  /\ http.path = "log1" => Before(http.got, L)

OrderInv == CountInv /\ Chain(L1, L, batch, lines, logged) /\ ReadInv

LEMMA EmptyContents == Contents(NONE) = <<>> /\ \A s \in Seq(Nat) : Contents(s) = s
BY LogAssumption DEF Contents

LEMMA InitOrder == Init => OrderInv
<1> SUFFICES ASSUME Init PROVE OrderInv
  OBVIOUS
<1>1. CountInv
  BY InitCounts
<1>2. L1 = <<>> /\ L = <<>> /\ batch = <<>> /\ lines = <<>> /\ http.got = <<>>
  BY EmptyContents DEF Init, L1, L, PATHS, NoRequest
<1> QED
  BY <1>1, <1>2, EmptyBefore, ReadingNothing DEF OrderInv, Chain, ReadInv

LEMMA OrderTypes ==
  ASSUME OrderInv
  PROVE  /\ L1 \in Seq(Nat) /\ L \in Seq(Nat) /\ batch \in Seq(Nat) /\ lines \in Seq(Nat)
         /\ logged \in Nat /\ http.got \in Seq(Nat) /\ http.offset \in Nat
         /\ http.path \in PATHS /\ Contents(File) \in Seq(Nat)
         /\ Contents(File) = IF http.path = "log1" THEN L1 ELSE L
<1>1. /\ batch \in Seq(Nat) /\ lines \in Seq(Nat) /\ logged \in Nat
      /\ http.got \in Seq(Nat) /\ http.offset \in Nat /\ http.path \in PATHS
  BY RequestType DEF OrderInv, CountInv, TypeOK
<1>2. L1 \in Seq(Nat) /\ L \in Seq(Nat) /\ Contents(File) \in Seq(Nat)
  BY ContentsType DEF OrderInv, CountInv, L1, L
<1>3. Contents(File) = IF http.path = "log1" THEN L1 ELSE L
  BY <1>1 DEF File, L1, L, PATHS
<1> QED
  BY <1>1, <1>2, <1>3

LEMMA EnqueueOrder ==
  ASSUME OrderInv, Enqueue \/ NotEnqueued
  PROVE  /\ Chain(L1, L, batch, lines', logged')
         /\ Reading(http.got, Contents(File), http.offset, batch, lines', logged')
<1>1. \/ lines' = lines /\ logged' = logged
      \/ lines' = lines /\ logged' = logged + 1
      \/ lines' = Append(lines, logged + 1) /\ logged' = logged + 1
  BY DEF Enqueue, NotEnqueued, queueVars
<1>2. /\ Chain(L1, L, batch, lines, logged + 1)
      /\ Chain(L1, L, batch, Append(lines, logged + 1), logged + 1)
  BY OrderTypes, ChainLog DEF OrderInv
<1>3. /\ Reading(http.got, Contents(File), http.offset, batch, lines, logged + 1)
      /\ Reading(http.got, Contents(File), http.offset, batch,
                 Append(lines, logged + 1), logged + 1)
  BY OrderTypes, ReadingLog DEF OrderInv, ReadInv
<1> QED
  BY <1>1, <1>2, <1>3 DEF OrderInv, ReadInv

(* Steps that leave the files and what is being read alone. *)
LEMMA SameFiles ==
  ASSUME OrderInv, CountInv', UNCHANGED <<card, batch>>,
         \/ Enqueue \/ NotEnqueued
         \/ UNCHANGED <<lines, logged>>,
         \/ http'.got = <<>>
         \/ /\ http'.got = http.got /\ http'.path = http.path
            /\ http'.offset = http.offset
  PROVE  OrderInv'
<1>1. L1' = L1 /\ L' = L
  BY DEF L1, L
<1>2. /\ Chain(L1, L, batch, lines', logged')
      /\ Reading(http.got, Contents(File), http.offset, batch, lines', logged')
  BY EnqueueOrder DEF OrderInv, ReadInv
<1>3. Chain(L1, L, batch, lines, logged)'
  BY <1>1, <1>2
<1>4. CASE http'.got = <<>>
  BY <1>3, <1>4, ReadingNothing, EmptyBefore DEF OrderInv, ReadInv
<1>5. CASE /\ http'.got = http.got /\ http'.path = http.path
           /\ http'.offset = http.offset
  <2>1. File' = File
    BY <1>5 DEF File
  <2>2. ReadInv'
    BY <1>1, <1>2, <1>5, <2>1 DEF ReadInv, OrderInv, Contents
  <2> QED
    BY <1>3, <2>2 DEF OrderInv
<1> QED
  BY <1>4, <1>5

(* Steps of a flush that change a file or the batch. *)
LEMMA FlushOrder ==
  ASSUME OrderInv, CountInv',
         Drain \/ RemoveRotated \/ Rename \/ OpenLog \/ WriteLine \/ FlushFails
  PROVE  OrderInv'
<1> DEFINE g == http.got
<1>0. /\ Chain(L1, L, batch, lines, logged)
      /\ Reading(g, Contents(File), http.offset, batch, lines, logged)
      /\ http.path = "log1" => Before(g, L)
      /\ card \in [PATHS -> Seq(Nat) \cup {NONE}]
  BY DEF OrderInv, ReadInv, CountInv, TypeOK
<1>n. http' = http /\ logged' = logged
  BY DEF Drain, RemoveRotated, Rename, OpenLog, WriteLine, FlushFails, auxVars
<1>f. Contents(File)' = IF http.path = "log1" THEN L1' ELSE L'
  BY <1>n, OrderTypes DEF File, L1, L, PATHS
<1>1. CASE Drain
  <2>1. batch = <<>> /\ batch' = lines /\ lines' = <<>> /\ card' = card
    BY <1>1 DEF Drain, StartsFlush, OrderInv, CountInv, StageInv
  <2>2. L1' = L1 /\ L' = L /\ Contents(File)' = Contents(File)
    BY <2>1, <1>f, OrderTypes DEF L1, L
  <2>3. Chain(L1, L, lines, <<>>, logged)
    BY <1>0, EmptyBefore DEF Chain
  <2>4. Reading(g, Contents(File), http.offset, lines, <<>>, logged)
    BY <1>0, EmptyBefore DEF Reading
  <2> QED
    BY <1>0, <1>n, <2>1, <2>2, <2>3, <2>4 DEF OrderInv, ReadInv
<1>2. CASE RemoveRotated
  <2>1. /\ card'["log1"] = NONE /\ card'["log"] = card["log"]
        /\ batch' = batch /\ lines' = lines
    BY <1>0, <1>2 DEF RemoveRotated, PATHS, queueVars
  <2>2. L1' = <<>> /\ L' = L
    BY <2>1, EmptyContents DEF L1, L
  <2>3. Chain(<<>>, L, batch, lines, logged)
    BY <1>0, EmptyBefore DEF Chain
  <2>4. \/ http.path # "log1" /\ Contents(File)' = Contents(File)
        \/ http.path = "log1" /\ Contents(File)' = <<>>
    BY <1>f, <2>2, OrderTypes
  <2>5. Reading(g, Contents(File)', http.offset, batch, lines, logged)
    BY <1>0, <2>4 DEF Reading
  <2> QED
    BY <1>0, <1>n, <2>1, <2>2, <2>3, <2>5 DEF OrderInv, ReadInv
<1>3. CASE Rename
  <2>1. /\ card'["log1"] = card["log"] /\ card'["log"] = NONE
        /\ batch' = batch /\ lines' = lines
    BY <1>3 DEF Rename, queueVars
  <2>2. L1' = L /\ L' = <<>>
    BY <2>1, EmptyContents DEF L1, L
  <2>3. Chain(L, <<>>, batch, lines, logged)
    BY <1>0, EmptyBefore DEF Chain
  <2>4. \/ http.path # "log1" /\ Contents(File)' = <<>>
        \/ http.path = "log1" /\ Contents(File)' = L
    BY <1>f, <2>2
  <2>5. Reading(g, Contents(File)', http.offset, batch, lines, logged)
    BY <1>0, <2>4 DEF Reading, Before
  <2> QED
    BY <1>n, <2>1, <2>2, <2>3, <2>5, EmptyBefore DEF OrderInv, ReadInv
<1>4. CASE OpenLog
  <2>1. /\ card'["log1"] = card["log1"] /\ card'["log"] = L
        /\ batch' = batch /\ lines' = lines
    BY <1>0, <1>4 DEF OpenLog, PATHS, queueVars, L
  <2>2. L1' = L1 /\ L' = L
    <3>1. L' = Contents(L)
      BY <2>1 DEF L
    <3> QED
      BY <2>1, <3>1, EmptyContents, OrderTypes DEF L1
  <2>3. Contents(File)' = Contents(File)
    BY <1>f, <2>2, OrderTypes
  <2> QED
    BY <1>0, <1>n, <2>1, <2>2, <2>3 DEF OrderInv, ReadInv
<1>5. CASE WriteLine
  <2>1. card["log"] # NONE /\ card["log"] \in Seq(Nat) /\ L = card["log"]
    BY <1>0, <1>5 DEF WriteLine, OrderInv, CountInv, StageInv, L, Contents, PATHS
  <2>2. /\ card'["log1"] = card["log1"] /\ card'["log"] = Append(L, Head(batch))
        /\ batch' = Tail(batch) /\ lines' = lines /\ batch # <<>>
    BY <1>0, <1>5, <2>1 DEF WriteLine, PATHS, queueVars
  <2>3. /\ Head(batch) \in Nat /\ Before(g, Tail(batch))
        /\ \A i \in 1 .. Len(g) : g[i] < Head(batch)
    BY <1>0, <2>2, OrderTypes, BeforeTail DEF Reading
  <2>4. L1' = L1 /\ L' = Append(L, Head(batch))
    <3>1. Append(L, Head(batch)) \in Seq(Nat)
      BY <2>3, OrderTypes
    <3> QED
      BY <2>2, <3>1, EmptyContents DEF L1, L
  <2>5. Chain(L1, Append(L, Head(batch)), Tail(batch), lines, logged)
    BY <1>0, <2>2, OrderTypes, ChainWrite
  <2>6. http.path = "log1" => Before(g, Append(L, Head(batch)))
    BY <1>0, <2>3, OrderTypes, BeforeAppend
  <2>7. Reading(g, Contents(File)', http.offset, Tail(batch), lines, logged)
    <3>1. CASE http.path = "log1"
      BY <1>0, <1>f, <2>3, <2>4, <3>1, OrderTypes DEF Reading
    <3>2. CASE http.path # "log1"
      <4>1. Contents(File) = L /\ Contents(File)' = Append(L, Head(batch))
        BY <1>f, <2>4, <3>2, OrderTypes
      <4>2. \A j \in 1 .. Len(Append(L, Head(batch))) :
              \/ j \in 1 .. Len(L) /\ Append(L, Head(batch))[j] = L[j]
              \/ Append(L, Head(batch))[j] = Head(batch)
        BY <2>3, OrderTypes
      <4>3. \A i \in 1 .. Len(g), j \in 1 .. Len(Append(L, Head(batch))) :
              j > http.offset => g[i] < Append(L, Head(batch))[j]
        BY <1>0, <2>3, <4>1, <4>2 DEF Reading
      <4> QED
        BY <1>0, <2>3, <4>1, <4>3 DEF Reading
    <3> QED
      BY <3>1, <3>2
  <2> QED
    BY <1>n, <2>2, <2>4, <2>5, <2>6, <2>7 DEF OrderInv, ReadInv
<1>6. CASE FlushFails
  <2>1. batch' = <<>> /\ lines' = lines /\ card' = card
    BY <1>6 DEF FlushFails, queueVars
  <2>2. L1' = L1 /\ L' = L /\ Contents(File)' = Contents(File)
    BY <2>1, <1>f, OrderTypes DEF L1, L
  <2>3. Chain(L1, L, <<>>, lines, logged)
    BY <1>0, EmptyBefore DEF Chain
  <2>4. Reading(g, Contents(File), http.offset, <<>>, lines, logged)
    BY <1>0, EmptyBefore DEF Reading
  <2> QED
    BY <1>0, <1>n, <2>1, <2>2, <2>3, <2>4 DEF OrderInv, ReadInv
<1> QED
  BY <1>1, <1>2, <1>3, <1>4, <1>5, <1>6

(* A chunk continues what was read and is below all that follows. *)
LEMMA ChunkOrder ==
  ASSUME OrderInv, CountInv', ReadChunk
  PROVE  OrderInv'
<1> DEFINE g == http.got
           f == Contents(File)
           o == http.offset
<1>0. /\ Chain(L1, L, batch, lines, logged)
      /\ Reading(g, f, o, batch, lines, logged)
      /\ http.path = "log1" => Before(g, L)
      /\ g \in Seq(Nat) /\ f \in Seq(Nat) /\ o \in Nat
  BY OrderTypes DEF OrderInv, ReadInv
<1>1. UNCHANGED <<card, batch, lines, logged>>
  BY DEF ReadChunk, queueVars, flushVars, auxVars
<1>2. CASE http' = NoRequest
  <2>1. http'.got = <<>>
    BY <1>2 DEF NoRequest
  <2> QED
    BY <1>1, <2>1, SameFiles
<1>3. CASE http' = [http EXCEPT !.op = "send", !.offset = o + Len(Chunk), !.got = g \o Chunk]
  <2>1. http'.got = g \o Chunk /\ http'.offset = o + Len(Chunk) /\ http'.path = http.path
    BY <1>3 DEF OrderInv, CountInv, TypeOK, HttpRequest
  <2>2. L1' = L1 /\ L' = L /\ File' = File
    BY <1>1, <2>1 DEF L1, L, File
  <2>3. /\ Chunk \in Seq(Nat) /\ Len(Chunk) \in Nat
        /\ \A i \in 1 .. Len(Chunk) : o + i \in 1 .. Len(f) /\ Chunk[i] = f[o + i]
    BY ChunkIs DEF OrderInv
  <2>4. /\ Increasing(f) /\ Before(f, batch) /\ Before(f, lines) /\ UpTo(f, logged)
        /\ http.path = "log1" => Before(f, L)
    BY <1>0, OrderTypes DEF Chain
  <2> HIDE DEF f, o, g
  <2>5. \A i \in 1 .. Len(Chunk) : o + i > o
    BY <1>0, <2>3
  <2>6. \A i \in 1 .. Len(Chunk), j \in 1 .. Len(Chunk) : i < j => o + i < o + j
    BY <1>0, <2>3
  <2>7. Increasing(Chunk)
    BY <2>3, <2>4, <2>6 DEF Increasing
  <2>8. /\ Before(Chunk, batch) /\ Before(Chunk, lines) /\ UpTo(Chunk, logged)
        /\ http.path = "log1" => Before(Chunk, L)
    BY <2>3, <2>4 DEF Before, UpTo
  <2>9. Before(g, Chunk)
    BY <1>0, <2>3, <2>5 DEF Reading, Before
  <2>10. /\ Increasing(g \o Chunk) /\ UpTo(g \o Chunk, logged)
         /\ Before(g \o Chunk, batch) /\ Before(g \o Chunk, lines)
         /\ http.path = "log1" => Before(g \o Chunk, L)
    BY <1>0, <2>3, <2>7, <2>8, <2>9, BeforeConcat DEF Reading
  <2>11. ASSUME NEW i \in 1 .. Len(g \o Chunk), NEW j \in 1 .. Len(f),
                j > o + Len(Chunk)
         PROVE  (g \o Chunk)[i] < f[j]
    <3>1. j > o
      BY <1>0, <2>3, <2>11
    <3>2. CASE i \in 1 .. Len(g)
      <4>1. (g \o Chunk)[i] = g[i]
        BY <1>0, <2>3, <3>2
      <4> QED
        BY <1>0, <3>1, <3>2, <4>1 DEF Reading
    <3>3. CASE i > Len(g)
      <4>1. /\ i - Len(g) \in 1 .. Len(Chunk)
            /\ (g \o Chunk)[i] = Chunk[i - Len(g)]
        BY <1>0, <2>3, <3>3
      <4>2. \A k \in 1 .. Len(Chunk) : o + k < j
        BY <1>0, <2>3, <2>11
      <4> QED
        BY <2>3, <2>4, <4>1, <4>2 DEF Increasing
    <3> QED
      BY <1>0, <3>2, <3>3
  <2>12. Reading(g \o Chunk, f, o + Len(Chunk), batch, lines, logged)
    BY <2>10, <2>11 DEF Reading
  <2>13. Contents(File)' = f
    BY <2>2 DEF f, Contents
  <2>14. Reading(http.got, Contents(File), http.offset, batch, lines, logged)'
    BY <1>1, <2>1, <2>12, <2>13 DEF g, o
  <2>15. ReadInv'
    BY <2>1, <2>2, <2>10, <2>14 DEF ReadInv
  <2>16. Chain(L1, L, batch, lines, logged)'
    BY <1>0, <1>1, <2>2
  <2> QED
    BY <2>15, <2>16 DEF OrderInv
<1> QED
  BY <1>2, <1>3 DEF ReadChunk

LEMMA DeleteOrder ==
  ASSUME OrderInv, CountInv', Delete
  PROVE  OrderInv'
<1>1. /\ http'.got = <<>> /\ batch' = batch /\ (Enqueue \/ NotEnqueued)
      /\ card' = [card EXCEPT ![http.path] = NONE]
  BY DEF Delete, NoRequest, flushVars
<1>2. Chain(L1, L, batch, lines', logged')
  BY <1>1, EnqueueOrder
<1>3. \/ L1' = <<>> /\ L' = L
      \/ L1' = L1 /\ L' = <<>>
  <2>1. card \in [PATHS -> Seq(Nat) \cup {NONE}] /\ http.path \in PATHS
    BY OrderTypes DEF OrderInv, CountInv, TypeOK
  <2>2. \/ card'["log1"] = NONE /\ card'["log"] = card["log"]
        \/ card'["log1"] = card["log1"] /\ card'["log"] = NONE
    BY <1>1, <2>1 DEF PATHS
  <2> QED
    BY <2>2, EmptyContents DEF L1, L
<1>4. Chain(L1', L', batch, lines', logged')
  BY <1>2, <1>3, EmptyBefore DEF Chain
<1>5. ReadInv'
  BY <1>1, ReadingNothing, EmptyBefore DEF ReadInv
<1> QED
  BY <1>1, <1>4, <1>5 DEF OrderInv

(* After a restart a prefix of the log is left. *)
LEMMA RestartOrder ==
  ASSUME OrderInv, CountInv', Restart
  PROVE  OrderInv'
<1>1. /\ http'.got = <<>> /\ batch' = <<>> /\ lines' = <<>> /\ logged' = logged
  BY DEF Restart, NoRequest
<1>2. L1' = L1 /\ Increasing(L') /\ Before(L1, L') /\ UpTo(L', logged)
  <2>1. /\ card \in [PATHS -> Seq(Nat) \cup {NONE}]
        /\ Increasing(L) /\ Before(L1, L) /\ UpTo(L, logged)
    BY DEF OrderInv, CountInv, TypeOK, Chain
  <2>2. CASE flush = "write"
    <3>1. PICK n \in synced .. Len(card["log"]) :
            card' = [card EXCEPT !["log"] = SubSeq(card["log"], 1, n)]
      BY <2>2 DEF Restart
    <3>2. /\ card["log"] \in Seq(Nat) /\ L = card["log"] /\ synced \in Nat
      BY <2>1, <2>2 DEF OrderInv, CountInv, StageInv, TypeOK, PATHS, L, Contents
    <3>3. n \in Nat /\ n <= Len(L)
      BY <3>1, <3>2
    <3>4. /\ SubSeq(L, 1, n) \in Seq(Nat) /\ Increasing(SubSeq(L, 1, n))
          /\ Before(L1, SubSeq(L, 1, n)) /\ UpTo(SubSeq(L, 1, n), logged)
      BY <2>1, <3>2, <3>3, BeforeSubSeq
    <3>5. card'["log1"] = card["log1"] /\ card'["log"] = SubSeq(L, 1, n)
      BY <2>1, <3>1, <3>2 DEF PATHS
    <3>6. L1' = L1 /\ L' = SubSeq(L, 1, n)
      BY <3>4, <3>5, EmptyContents DEF L1, L
    <3> QED
      BY <3>4, <3>6
  <2>3. CASE flush # "write"
    <3>1. L1' = L1 /\ L' = L
      BY <2>3 DEF Restart, L1, L
    <3> QED
      BY <2>1, <3>1
  <2> QED
    BY <2>2, <2>3
<1>3. Chain(L1', L', <<>>, <<>>, logged)
  BY <1>2, EmptyBefore DEF Chain, OrderInv
<1>4. ReadInv'
  BY <1>1, ReadingNothing, EmptyBefore DEF ReadInv
<1> QED
  BY <1>1, <1>3, <1>4 DEF OrderInv

LEMMA StepOrder == OrderInv /\ [Next]_vars => OrderInv'
<1> SUFFICES ASSUME OrderInv, [Next]_vars PROVE OrderInv'
  OBVIOUS
<1>0. CountInv'
  BY StepCounts DEF OrderInv
<1>1. CASE Log \/ WriterCalls \/ BeginJob \/ WriteDropped \/ FlushReturns \/ UNCHANGED vars
  <2>1. UNCHANGED <<card, batch, http>>
    BY <1>1 DEF Log, WriterCalls, BeginJob, WriteDropped, FlushReturns, vars, flushVars
  <2>2. Enqueue \/ NotEnqueued \/ UNCHANGED <<lines, logged>>
    BY <1>1 DEF Log, WriterCalls, BeginJob, WriteDropped, FlushReturns, vars, queueVars,
       auxVars
  <2> QED
    BY <1>0, <2>1, <2>2, SameFiles
<1>2. CASE Drain \/ RemoveRotated \/ Rename \/ OpenLog \/ WriteLine \/ FlushFails
  BY <1>0, <1>2, FlushOrder
<1>3. ASSUME NEW op \in {"stat", "delete"}, NEW path \in PATHS, Request(op, path)
      PROVE  OrderInv'
  <2>1. UNCHANGED <<card, batch, lines, logged>> /\ http'.got = <<>>
    BY <1>3 DEF Request, NoRequest, queueVars, flushVars, auxVars
  <2> QED
    BY <1>0, <2>1, SameFiles
<1>4. CASE Stat \/ NextChunk \/ ServingFails
  <2>1. UNCHANGED <<card, batch, lines, logged>>
    BY <1>4 DEF Stat, NextChunk, ServingFails, queueVars, flushVars, auxVars
  <2>2. \/ http' = NoRequest
        \/ http' = [http EXCEPT !.op = "send", !.len = Len(File)]
        \/ http' = [http EXCEPT !.op = "read"]
    BY <1>4 DEF Stat, NextChunk, ServingFails
  <2>3. \/ http'.got = <<>>
        \/ /\ http'.got = http.got /\ http'.path = http.path
           /\ http'.offset = http.offset
    <3>1. http \in HttpRequest
      BY DEF OrderInv, CountInv, TypeOK
    <3>2. CASE http' = NoRequest
      BY <3>2 DEF NoRequest
    <3>3. CASE http' = [http EXCEPT !.op = "send", !.len = Len(File)]
      BY <3>1, <3>3 DEF HttpRequest
    <3>4. CASE http' = [http EXCEPT !.op = "read"]
      BY <3>1, <3>4 DEF HttpRequest
    <3> QED
      BY <2>2, <3>2, <3>3, <3>4
  <2> QED
    BY <1>0, <2>1, <2>3, SameFiles
<1>5. CASE DeleteFails
  <2>1. UNCHANGED <<card, batch>> /\ Enqueue /\ http'.got = <<>>
    BY <1>5 DEF DeleteFails, NoRequest, flushVars
  <2> QED
    BY <1>0, <2>1, SameFiles
<1>6. CASE ReadChunk
  BY <1>0, <1>6, ChunkOrder
<1>7. CASE Delete
  BY <1>0, <1>7, DeleteOrder
<1>8. CASE Restart
  BY <1>0, <1>8, RestartOrder
<1> QED
  BY <1>1, <1>2, <1>3, <1>4, <1>5, <1>6, <1>7, <1>8 DEF Next, Flush, Http

(* The pieces of the log follow each other, and so does what was read. *)
THEOREM OrderInvHolds == Spec => []OrderInv
BY InitOrder, StepOrder, PTL DEF Spec

(* Through rotations, failed flushes, deletions and restarts, the rotated  *)
(* file, the log, the batch and the queue hold every line at most once and *)
(* in the order of logging.                                                *)
THEOREM LinesInOrderHolds == Spec => []LinesInOrder
<1>1. OrderInv => LinesInOrder
  BY OrderTypes, ChainConcat DEF OrderInv, LinesInOrder, L1, L
<1> QED
  BY <1>1, OrderInvHolds, PTL

(* A download never shows a line twice or out of order, whatever happens   *)
(* to the file between two chunks.                                         *)
THEOREM DownloadInOrderHolds == Spec => []DownloadInOrder
<1>1. OrderInv => DownloadInOrder
  BY DEF OrderInv, ReadInv, Reading, DownloadInOrder
<1> QED
  BY <1>1, OrderInvHolds, PTL
=============================================================================
