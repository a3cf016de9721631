-------------------------------- MODULE SdLog --------------------------------
(***************************************************************************)
(* The SD log mirror (src/src/sdlog.rs): any thread queues lines, a writer *)
(* thread has them appended to the card every few seconds, and an HTTP     *)
(* task streams and deletes the log files.  All card accesses are calls of *)
(* SdService, the promise of storage.rs; the steps of a flush are apart so *)
(* that lines can be logged, an error can happen and the chip can restart  *)
(* in between.                                                             *)
(*                                                                         *)
(* The card is mounted and ready; where it is not, the writer never calls. *)
(* A line is its number in the order of logging, and every line counts one *)
(* byte.  A file is a sequence of lines, or NONE when it does not exist.   *)
(***************************************************************************)
EXTENDS SdService

CONSTANTS
  QUEUE_MAX_BYTES,
  ROTATE_AT_BYTES,
  HTTP_CHUNK_BYTES,
  MAX_LINES,    \* bound: lines logged by the other threads
  MAX_REQUESTS, \* bound: HTTP requests
  MAX_FAULTS    \* bound: failing card operations and restarts

ASSUME LogAssumption ==
  /\ {"sd_log", "http"} \subseteq CALLERS /\ NONE \notin Seq(Nat)
  /\ {QUEUE_MAX_BYTES, ROTATE_AT_BYTES, MAX_LINES, MAX_REQUESTS, MAX_FAULTS}
       \subseteq Nat
  /\ HTTP_CHUNK_BYTES \in Nat \ {0}

PATHS == {"log", "log1"}  \* LOG_PATH and ROTATED_PATH

VARIABLES
  lines, bytes, dropped, \* the queue
  batch, batch_dropped,  \* what flush_to_card has drained
  flush,                 \* where flush_to_card is
  synced,                \* length of the log when it was opened
  failed_once,           \* of the writer thread
  card,                  \* the two files
  http,                  \* the request the HTTP task serves
  logged,                \* auxiliary: lines logged so far
  written, reported,     \* auxiliary: lines appended; drops reported
  since_success,         \* auxiliary: lines dropped since a flush succeeded
  requests, faults       \* how much of the bounds is used

queueVars == <<lines, bytes, dropped>>
flushVars == <<batch, batch_dropped, flush, synced>>
auxVars   == <<logged, written, reported, since_success>>
vars == <<serviceVars, queueVars, flushVars, failed_once, card, http, auxVars,
          requests, faults>>

NoRequest == [op |-> "none", path |-> "log", len |-> 0, offset |-> 0, got |-> <<>>]

Init ==
  /\ ServiceInit
  /\ lines = <<>> /\ bytes = 0 /\ dropped = 0
  /\ batch = <<>> /\ batch_dropped = 0 /\ flush = "start" /\ synced = 0
  /\ failed_once = FALSE
  /\ card = [p \in PATHS |-> NONE]
  /\ http = NoRequest
  /\ logged = 0 /\ written = 0 /\ reported = 0 /\ since_success = 0
  /\ requests = 0 /\ faults = 0

Contents(file) == IF file = NONE THEN <<>> ELSE file

-----------------------------------------------------------------------------
(* The queue. *)

(* Mutant: a full queue discards without counting. *)
EnqueueUncounted ==
  /\ logged' = logged + 1
  /\ IF bytes + 1 > QUEUE_MAX_BYTES
     THEN UNCHANGED <<lines, bytes, dropped, since_success>>
     ELSE /\ lines' = Append(lines, logged + 1) /\ bytes' = bytes + 1
          /\ UNCHANGED <<dropped, since_success>>

(* enqueue *)
Enqueue ==
  /\ logged' = logged + 1
  /\ IF bytes + 1 > QUEUE_MAX_BYTES
     THEN /\ dropped' = dropped + 1 /\ since_success' = since_success + 1
          /\ UNCHANGED <<lines, bytes>>
     ELSE /\ lines' = Append(lines, logged + 1) /\ bytes' = bytes + 1
          /\ UNCHANGED <<dropped, since_success>>

NotEnqueued == UNCHANGED <<queueVars, logged, since_success>>

(* SdLogger::log, from any thread at any time. *)
Log ==
  /\ logged < MAX_LINES
  /\ Enqueue
  /\ UNCHANGED <<serviceVars, flushVars, failed_once, card, http, written,
                 reported, requests, faults>>

-----------------------------------------------------------------------------
(* flush_to_card, on the SD worker *)

(* Mutant: the writer gives up after a failed flush. *)
WriterStops ==
  /\ ~failed_once /\ Submit("sd_log")
  /\ UNCHANGED <<queueVars, flushVars, failed_once, card, http, auxVars,
                 requests, faults>>

(* The writer thread, after FLUSH_INTERVAL. *)
WriterCalls ==
  /\ Submit("sd_log")
  /\ UNCHANGED <<queueVars, flushVars, failed_once, card, http, auxVars,
                 requests, faults>>

StartsFlush   == job = "sd_log" /\ flush = "start"
NothingQueued == lines = <<>> /\ dropped = 0

Drain ==
  /\ StartsFlush
  /\ batch' = lines /\ lines' = <<>> /\ bytes' = 0
  /\ batch_dropped' = dropped /\ dropped' = 0
  /\ flush' = IF NothingQueued THEN "ok" ELSE "rotate"
  /\ since_success' = IF NothingQueued THEN 0 ELSE since_success
  /\ UNCHANGED <<serviceVars, synced, failed_once, card, http, logged, written,
                 reported, requests, faults>>

MustRotate == Len(Contents(card["log"])) > ROTATE_AT_BYTES

(* The old generation goes first: rename does not overwrite. *)
RemoveRotated ==
  /\ flush = "rotate" /\ MustRotate /\ flush' = "rename"
  /\ card' = [card EXCEPT !["log1"] = NONE]
  /\ UNCHANGED <<serviceVars, queueVars, batch, batch_dropped, synced,
                 failed_once, http, auxVars, requests, faults>>

(* Mutant: a copy instead of a rename. *)
RenameCopies ==
  /\ flush = "rename" /\ flush' = "open"
  /\ card' = [card EXCEPT !["log1"] = card["log"]]
  /\ UNCHANGED <<serviceVars, queueVars, batch, batch_dropped, synced,
                 failed_once, http, auxVars, requests, faults>>

Rename ==
  /\ flush = "rename" /\ flush' = "open"
  /\ card' = [log |-> NONE, log1 |-> card["log"]]
  /\ UNCHANGED <<serviceVars, queueVars, batch, batch_dropped, synced,
                 failed_once, http, auxVars, requests, faults>>

OpenLog ==
  /\ flush = "open" \/ (flush = "rotate" /\ ~MustRotate)
  /\ flush' = "write"
  /\ card' = [card EXCEPT !["log"] = Contents(@)]
  /\ synced' = Len(Contents(card["log"]))
  /\ UNCHANGED <<serviceVars, queueVars, batch, batch_dropped, failed_once,
                 http, auxVars, requests, faults>>

WriteLine ==
  /\ flush = "write" /\ batch # <<>>
  /\ card' = [card EXCEPT !["log"] = Append(@, Head(batch))]
  /\ batch' = Tail(batch) /\ written' = written + 1
  /\ UNCHANGED <<serviceVars, queueVars, batch_dropped, flush, synced,
                 failed_once, http, logged, reported, since_success, requests,
                 faults>>

(* The line with the number of dropped ones, then flush and close. *)
WriteDropped ==
  /\ flush = "write" /\ batch = <<>>
  /\ reported' = reported + batch_dropped /\ batch_dropped' = 0
  /\ flush' = "ok" /\ since_success' = dropped
  /\ UNCHANGED <<serviceVars, queueVars, batch, synced, failed_once, card, http,
                 logged, written, requests, faults>>

(* Rename, open, a write or the final flush fails: `?` drops the batch. *)
FlushFails ==
  /\ flush \in {"rotate", "rename", "open", "write"} /\ flush' = "err"
  /\ faults < MAX_FAULTS /\ faults' = faults + 1
  /\ batch' = <<>> /\ batch_dropped' = 0
  /\ UNCHANGED <<serviceVars, queueVars, synced, failed_once, card, http,
                 auxVars, requests>>

(* The writer has its result; the first failure of a row is itself logged. *)
FlushReturns ==
  /\ flush \in {"ok", "err"} /\ flush' = "start"
  /\ Finish
  /\ failed_once' = (flush = "err")
  /\ IF flush = "err" /\ ~failed_once THEN Enqueue ELSE NotEnqueued
  /\ UNCHANGED <<batch, batch_dropped, synced, card, http, written, reported,
                 requests, faults>>

-----------------------------------------------------------------------------
(* The HTTP task. *)

(* GET of a log, or a delete: the first call. *)
Request(op, path) ==
  /\ http.op = "none" /\ requests < MAX_REQUESTS /\ requests' = requests + 1
  /\ http' = [NoRequest EXCEPT !.op = op, !.path = path]
  /\ Submit("http")
  /\ UNCHANGED <<queueVars, flushVars, failed_once, card, auxVars, faults>>

Serving(op) == job = "http" /\ http.op = op
File == card[http.path]

(* serve_file: the length for the header, or 404. *)
Stat ==
  /\ Serving("stat") /\ Finish
  /\ http' = IF File = NONE THEN NoRequest
             ELSE [http EXCEPT !.op = "send", !.len = Len(File)]
  /\ UNCHANGED <<queueVars, flushVars, failed_once, card, auxVars, requests,
                 faults>>

(* The chunk loop between two calls. *)
NextChunk ==
  /\ http.op = "send"
  /\ IF http.offset < http.len
     THEN Submit("http") /\ http' = [http EXCEPT !.op = "read"]
     ELSE UNCHANGED serviceVars /\ http' = NoRequest
  /\ UNCHANGED <<queueVars, flushVars, failed_once, card, auxVars, requests,
                 faults>>

(* Mutant: every chunk is read from the start of the file. *)
ChunkAgain ==
  SubSeq(Contents(File), 1, http.offset + HTTP_CHUNK_BYTES)

Chunk ==
  SubSeq(Contents(File), http.offset + 1,
         IF http.offset + HTTP_CHUNK_BYTES < Len(Contents(File))
         THEN http.offset + HTTP_CHUNK_BYTES ELSE Len(Contents(File)))

(* read_chunk; a file that has gone, or an empty chunk, ends the answer. *)
ReadChunk ==
  /\ Serving("read") /\ Finish
  /\ http' = IF Chunk = <<>> THEN NoRequest
             ELSE [http EXCEPT !.op = "send", !.offset = @ + Len(Chunk),
                               !.got = @ \o Chunk]
  /\ UNCHANGED <<queueVars, flushVars, failed_once, card, auxVars, requests,
                 faults>>

(* The card or the connection fails: `?` ends the answer. *)
ServingFails ==
  /\ faults < MAX_FAULTS /\ faults' = faults + 1
  /\ http' = NoRequest
  /\ \/ (Serving("stat") \/ Serving("read")) /\ Finish
     \/ http.op = "send" /\ UNCHANGED serviceVars
  /\ UNCHANGED <<queueVars, flushVars, failed_once, card, auxVars, requests>>

(* handle_delete; a deletion is logged, a missing file is not. *)
Delete ==
  /\ Serving("delete") /\ Finish
  /\ http' = NoRequest
  /\ card' = [card EXCEPT ![http.path] = NONE]
  /\ IF File = NONE THEN NotEnqueued ELSE Enqueue
  /\ UNCHANGED <<flushVars, failed_once, written, reported, requests, faults>>

DeleteFails ==
  /\ Serving("delete") /\ Finish
  /\ faults < MAX_FAULTS /\ faults' = faults + 1
  /\ http' = NoRequest
  /\ Enqueue
  /\ UNCHANGED <<flushVars, failed_once, card, written, reported, requests>>

-----------------------------------------------------------------------------
(* SdService's worker and the chip. *)

BeginJob ==
  /\ Begin
  /\ UNCHANGED <<queueVars, flushVars, failed_once, card, http, auxVars,
                 requests, faults>>

(* A restart, by the watchdog or the power: of the lines written since the *)
(* file was opened any prefix may be on the card.                          *)
Restart ==
  /\ faults < MAX_FAULTS /\ faults' = faults + 1
  /\ ChipRestart
  /\ lines' = <<>> /\ bytes' = 0 /\ dropped' = 0
  /\ batch' = <<>> /\ batch_dropped' = 0 /\ flush' = "start" /\ synced' = 0
  /\ failed_once' = FALSE
  /\ http' = NoRequest
  /\ IF flush = "write"
     THEN \E n \in synced .. Len(card["log"]) :
            card' = [card EXCEPT !["log"] = SubSeq(@, 1, n)]
     ELSE UNCHANGED card
  /\ since_success' = 0
  /\ UNCHANGED <<logged, written, reported, requests>>

Flush == \/ Drain \/ RemoveRotated \/ Rename \/ OpenLog \/ WriteLine
         \/ WriteDropped \/ FlushFails \/ FlushReturns

Http == \/ \E op \in {"stat", "delete"}, path \in PATHS : Request(op, path)
        \/ Stat \/ NextChunk \/ ReadChunk \/ ServingFails \/ Delete \/ DeleteFails

Next == Log \/ WriterCalls \/ BeginJob \/ Flush \/ Http \/ Restart

(* The writer comes round every FLUSH_INTERVAL and the worker serves what  *)
(* is queued; nobody need log, ask or fail.                                *)
Spec == /\ Init /\ [][Next]_vars
        /\ WF_vars(WriterCalls) /\ WF_vars(BeginJob) /\ WF_vars(Flush)
        /\ WF_vars(Stat) /\ WF_vars(NextChunk) /\ WF_vars(ReadChunk)
        /\ WF_vars(Delete)

-----------------------------------------------------------------------------
(* Properties. *)

HttpRequest == [op : {"none", "stat", "send", "read", "delete"}, path : PATHS,
                len : Nat, offset : Nat, got : Seq(Nat)]

(* Type invariant. *)
TypeOK ==
  /\ lines \in Seq(Nat) /\ bytes \in Nat /\ dropped \in Nat
  /\ batch \in Seq(Nat) /\ batch_dropped \in Nat
  /\ flush \in {"start", "rotate", "rename", "open", "write", "ok", "err"}
  /\ synced \in Nat /\ failed_once \in BOOLEAN
  /\ card \in [PATHS -> Seq(Nat) \cup {NONE}]
  /\ http \in HttpRequest
  /\ logged \in Nat /\ written \in Nat /\ reported \in Nat
  /\ since_success \in Nat /\ requests \in Nat /\ faults \in Nat

Increasing(s) == \A i, j \in 1 .. Len(s) : i < j => s[i] < s[j]

(* The rotated file, the log, the batch and the queue, read in this order,  *)
(* hold every line at most once and in the order of logging, through        *)
(* rotations, failures, deletions and restarts (flush_to_card).             *)
LinesInOrder ==
  Increasing(Contents(card["log1"]) \o Contents(card["log"]) \o batch \o lines)

(* Without a failure no line is lost without trace: it is on its way, was   *)
(* written, or is counted as dropped, and the count as reported.            *)
NoSilentLoss ==
  faults = 0 => logged = Len(lines) + Len(batch) + written
                         + dropped + batch_dropped + reported

(* The queue's byte count is that of its lines and within the bound, also   *)
(* when lines are queued during a flush (enqueue and drain).                *)
QueueExact == bytes = Len(lines) /\ bytes <= QUEUE_MAX_BYTES

(* A download never goes back: although the file may be appended to,        *)
(* rotated or deleted between two chunks, a client reads no line twice and  *)
(* none out of order (serve_file).                                          *)
DownloadInOrder == Increasing(http.got)

OnCard(n) == \E p \in PATHS : card[p] # NONE /\ \E i \in DOMAIN card[p] : card[p][i] = n
Queued(n) == \E i \in DOMAIN lines : lines[i] = n

(* Once failures have ended every queued line reaches the card.             *)
QueuedIsWritten ==
  \A n \in 1 .. MAX_LINES : (Queued(n) /\ faults = MAX_FAULTS) ~> OnCard(n)

(* The comment on Queue::dropped: "Lines discarded since the last           *)
(* successful flush because the queue was full."                            *)
DroppedSinceSuccess == dropped + batch_dropped = since_success
=============================================================================
