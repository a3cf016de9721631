---------------------------- MODULE PulseRegister ----------------------------
(***************************************************************************)
(* What PpsMonitor promises its caller (src/src/pps.rs): the last captured *)
(* edge and the number of captures change and are read as one; a poll      *)
(* reports an edge once, with the interval to the edge reported before it. *)
(***************************************************************************)
EXTENDS Integers

CONSTANT WRAP   \* modulus of an interval, 2^32 us in the code

VARIABLES
  count,        \* captured edges
  edge,         \* time of the last one, 0 before the first
  last_count,   \* captures and
  last_edge_us, \* edge at the last report
  event         \* the last report

register == <<count, edge>>
cursor   == <<last_count, last_edge_us, event>>

FIRST == "First"
DELTA == "Delta"

(* The event for an edge at t when the previous report was of edge prev. *)
EventOf(t, prev) ==
  [kind |-> IF prev > 0 THEN DELTA ELSE FIRST,
   interval_us |-> IF prev > 0 THEN (t - prev) % WRAP ELSE 0,
   edge_us |-> t]

NoEvent == [kind |-> "none", interval_us |-> 0, edge_us |-> 0]

Init ==
  /\ count = 0 /\ edge = 0
  /\ last_count = 0 /\ last_edge_us = 0 /\ event = NoEvent

Capture ==
  /\ count' = count + 1
  /\ edge' \in Nat /\ edge' > edge
  /\ UNCHANGED cursor

Report ==
  /\ count > last_count
  /\ event' = EventOf(edge, last_edge_us)
  /\ last_count' = count /\ last_edge_us' = edge
  /\ UNCHANGED register

Next == Capture \/ Report

Spec == Init /\ [][Next]_<<register, cursor>>
=============================================================================
