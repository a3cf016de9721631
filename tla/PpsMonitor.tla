------------------------------ MODULE PpsMonitor ------------------------------
(***************************************************************************)
(* The PPS capture path of src/src/pps.rs: the edge interrupt, which       *)
(* publishes a timestamp through a seqlock, and the main loop, which polls *)
(* it and enables the interrupt again.  Every access to a shared atomic is *)
(* a step of its own, so the handler may run between any two steps of the  *)
(* reader, or beside it on the other core.  The atomics are read in a      *)
(* single order (the Acquire/Release pairs and the fence of the source).   *)
(***************************************************************************)
EXTENDS Integers

CONSTANTS
  WRAP,      \* modulus of an interval (u32, in microseconds in the code)
  ONE_SHOT,  \* every edge disables the interrupt, as in ESP-IDF, else some do
  MAX_TIME,  \* bound: last instant of an edge
  MAX_EDGES  \* bound: captured edges

ASSUME MonitorAssumption ==
  /\ WRAP \in Nat \ {0} /\ ONE_SHOT \in BOOLEAN
  /\ MAX_TIME \in Nat /\ MAX_EDGES \in Nat

VARIABLES
  seq, edge_us,   \* the shared atomics
  now,            \* esp_timer
  armed,          \* the interrupt is enabled
  isr, stamp,     \* the handler: next step, its now_us
  rd, s1, edge,   \* the loop: next step, locals of snapshot()
  last_count, last_edge_us, \* PpsPollState
  event,          \* the last event poll() returned
  broken,         \* enable_interrupt has failed
  edge_pub        \* auxiliary: timestamp of the last complete publication

shared  == <<seq, edge_us, edge_pub>>
handler == <<isr, stamp>>
reader  == <<rd, s1, edge>>
cursor  == <<last_count, last_edge_us, event>>
vars    == <<shared, now, armed, handler, reader, cursor, broken>>

Init ==
  /\ seq = 0 /\ edge_us = 0 /\ edge_pub = 0
  /\ now = 0 /\ armed = TRUE
  /\ isr = "idle" /\ stamp = 0
  /\ rd = "load_seq" /\ s1 = 0 /\ edge = 0
  /\ last_count = 0 /\ last_edge_us = 0
  /\ event = [kind |-> "none", interval_us |-> 0, edge_us |-> 0]
  /\ broken = FALSE

-----------------------------------------------------------------------------
(* The interrupt: an edge when it is enabled starts the handler. *)

(* on_edge: the timer is read as the handler starts. *)
EdgeFires ==
  /\ isr = "idle" /\ armed /\ seq \div 2 < MAX_EDGES
  /\ now' \in now + 1 .. MAX_TIME
  /\ stamp' = now' /\ isr' = "bump"
  /\ armed' \in BOOLEAN /\ (ONE_SHOT => ~armed')
  /\ UNCHANGED <<shared, reader, cursor, broken>>

(* An edge while it is disabled is lost. *)
EdgeLost ==
  /\ ~armed
  /\ now' \in now + 1 .. MAX_TIME
  /\ UNCHANGED <<shared, armed, handler, reader, cursor, broken>>

(* record_edge: seq becomes odd. *)
IsrBump ==
  /\ isr = "bump" /\ isr' = "store"
  /\ seq' = seq + 1
  /\ UNCHANGED <<edge_us, edge_pub, now, armed, stamp, reader, cursor, broken>>

IsrStore ==
  /\ isr = "store" /\ isr' = "publish"
  /\ edge_us' = stamp
  /\ UNCHANGED <<seq, edge_pub, now, armed, stamp, reader, cursor, broken>>

(* seq becomes even again. *)
IsrPublish ==
  /\ isr = "publish" /\ isr' = "idle"
  /\ seq' = seq + 1 /\ edge_pub' = stamp
  /\ UNCHANGED <<edge_us, now, armed, stamp, reader, cursor, broken>>

-----------------------------------------------------------------------------
(* The main loop. *)

(* snapshot: spin while the handler is in its update. *)
LoadSeq ==
  /\ rd = "load_seq"
  /\ IF seq % 2 = 1 THEN UNCHANGED <<rd, s1>>
                    ELSE rd' = "load_edge" /\ s1' = seq
  /\ UNCHANGED <<shared, now, armed, handler, edge, cursor, broken>>

LoadEdge ==
  /\ rd = "load_edge" /\ rd' = "confirm"
  /\ edge' = edge_us
  /\ UNCHANGED <<shared, now, armed, handler, s1, cursor, broken>>

(* Mutant: the confirming load is not compared. *)
ConfirmedAlways == TRUE

Confirmed == s1 = seq

Retry ==
  /\ rd = "confirm" /\ ~Confirmed
  /\ rd' = "load_seq"
  /\ UNCHANGED <<shared, now, armed, handler, s1, edge, cursor, broken>>

(* Mutant: the counts are compared off by one. *)
NewPulseLate(c) == c > last_count + 1

NewPulse(c) == c > last_count

(* poll without a new pulse: None, and the loop comes round again. *)
PollNone ==
  /\ rd = "confirm" /\ Confirmed
  /\ ~NewPulse(s1 \div 2)
  /\ rd' = "load_seq"
  /\ UNCHANGED <<shared, now, armed, handler, s1, edge, cursor, broken>>

(* pps_delta_us *)
PpsDelta(current, previous) == (current - previous) % WRAP

(* poll with one: the event is built and the cursor moved. *)
PollEvent ==
  /\ rd = "confirm" /\ Confirmed
  /\ NewPulse(s1 \div 2)
  /\ event' = [kind |-> IF last_edge_us > 0 THEN "Delta" ELSE "First",
               interval_us |-> IF last_edge_us > 0
                               THEN PpsDelta(edge, last_edge_us) ELSE 0,
               edge_us |-> edge]
  /\ last_count' = s1 \div 2 /\ last_edge_us' = edge
  /\ rd' = "enable"
  /\ UNCHANGED <<shared, now, armed, handler, s1, edge, broken>>

(* Mutant: the interrupt is only enabled again after a measured interval. *)
ReenableAfterDelta(ok) ==
  /\ rd = "enable" /\ rd' = "load_seq"
  /\ armed' = (armed \/ (ok /\ event.kind = "Delta"))
  /\ broken' = (broken \/ ~ok)
  /\ UNCHANGED <<shared, now, handler, s1, edge, cursor>>

(* reenable_interrupt, after the event was handled; a failure is logged.   *)
Reenable(ok) ==
  /\ rd = "enable" /\ rd' = "load_seq"
  /\ armed' = (armed \/ ok) /\ broken' = (broken \/ ~ok)
  /\ UNCHANGED <<shared, now, handler, s1, edge, cursor>>

-----------------------------------------------------------------------------
Isr  == IsrBump \/ IsrStore \/ IsrPublish

Poll == \/ LoadSeq \/ LoadEdge \/ Retry \/ PollNone \/ PollEvent
        \/ \E ok \in BOOLEAN : Reenable(ok)

Next == EdgeFires \/ EdgeLost \/ Isr \/ Poll

Spec == Init /\ [][Next]_vars

(* A handler that started runs to its end, and the main loop, an endless   *)
(* loop with a 1 ms sleep, keeps polling.  Edges need not come.            *)
FairSpec == Spec /\ WF_vars(Isr) /\ WF_vars(Poll)

-----------------------------------------------------------------------------
(* Properties. *)

(* Type invariant. *)
TypeOK ==
  /\ seq \in Nat /\ edge_us \in Nat /\ edge_pub \in Nat /\ now \in Nat
  /\ armed \in BOOLEAN /\ broken \in BOOLEAN
  /\ isr \in {"idle", "bump", "store", "publish"} /\ stamp \in Nat
  /\ rd \in {"load_seq", "load_edge", "confirm", "enable"}
  /\ s1 \in Nat /\ edge \in Nat
  /\ last_count \in Nat /\ last_edge_us \in Nat
  /\ event \in [kind : {"none", "First", "Delta"}, interval_us : 0 .. WRAP - 1,
                edge_us : Nat]

(* The seqlock's invariant: an even seq means that edge_us is the last     *)
(* published timestamp, and a reader that still sees the seq it started    *)
(* from holds that timestamp.                                              *)
SeqlockInv ==
  /\ isr \in {"idle", "bump"} => seq % 2 = 0 /\ edge_us = edge_pub
  /\ isr \in {"store", "publish"} => seq % 2 = 1
  /\ isr = "publish" => edge_us = stamp
  /\ isr # "idle" => edge_pub < stamp /\ stamp <= now
  /\ edge_pub <= now
  /\ rd \in {"load_edge", "confirm"} => s1 % 2 = 0 /\ s1 <= seq
  /\ rd = "confirm" /\ s1 = seq => edge = edge_pub
  /\ 2 * last_count <= seq

(* record_edge, snapshot and poll together behave like one register that   *)
(* is written and read in one step: no event mixes the count of one pulse  *)
(* with the timestamp of another, none is reported twice or out of order.  *)
Register == INSTANCE PulseRegister WITH count <- seq \div 2, edge <- edge_pub

AtomicRegister == Register!Spec

(* The interrupt is never left disabled for good while everything works:   *)
(* there is a handler running, a pulse the loop has not yet polled, or the *)
(* loop is about to enable it (poll and reenable_interrupt in app::run).   *)
InterruptComesBack ==
  ~armed /\ ~broken =>
    isr # "idle" \/ seq \div 2 > last_count \/ rd = "enable"

(* With the one-shot interrupt no captured edge is overwritten before it   *)
(* is polled: the loop is never more than one capture behind, so snapshot  *)
(* retries at most once per poll.                                          *)
AtMostOneBehind == ONE_SHOT => seq \div 2 - last_count <= 1

(* Every captured edge is reported, itself or superseded by a later one:   *)
(* the reader's retries end and no wakeup is lost (snapshot and poll).     *)
EveryCaptureReported ==
  \A c \in 1 .. MAX_EDGES : seq \div 2 >= c ~> last_count >= c
=============================================================================
