-------------------------- MODULE PpsMonitor_proofs --------------------------
(***************************************************************************)
(* Proofs about PpsMonitor: the seqlock implements an atomic register, for *)
(* every number of edges and every interleaving, and the hand-shake of the *)
(* one-shot interrupt never loses its re-enable.                           *)
(***************************************************************************)
EXTENDS PpsMonitor, TLAPS

Inv == TypeOK /\ SeqlockInv

(* The initial state satisfies the invariant (PpsMonitor::new). *)
LEMMA InitInv == Init => Inv
<1> SUFFICES ASSUME Init PROVE Inv
  OBVIOUS
<1>1. TypeOK
  <2>1. 0 \in 0 .. WRAP - 1
    BY MonitorAssumption
  <2>2. armed \in BOOLEAN /\ broken \in BOOLEAN
    BY Zenon DEF Init
  <2>3. event \in [kind : {"none", "First", "Delta"},
                   interval_us : 0 .. WRAP - 1, edge_us : Nat]
    BY <2>1 DEF Init
  <2> QED BY <2>2, <2>3 DEF Init, TypeOK
<1>2. SeqlockInv
  BY DEF Init, SeqlockInv
<1> QED BY <1>1, <1>2 DEF Inv

(* The interval of an event fits its width (pps_delta_us). *)
LEMMA DeltaRange ==
  ASSUME NEW a \in Int, NEW b \in Int
  PROVE  PpsDelta(a, b) \in 0 .. WRAP - 1
BY MonitorAssumption, Z3 DEF PpsDelta

(* Every step keeps the invariant. *)
LEMMA NextInv == Inv /\ [Next]_vars => Inv'
<1> SUFFICES ASSUME Inv, [Next]_vars PROVE Inv'
  OBVIOUS
<1> USE DEF Inv, TypeOK, SeqlockInv, shared, handler, reader, cursor
<1>1. CASE EdgeFires
  BY <1>1, MonitorAssumption DEF EdgeFires
<1>2. CASE EdgeLost
  BY <1>2, MonitorAssumption DEF EdgeLost
<1>3. CASE IsrBump
  BY <1>3 DEF IsrBump
<1>4. CASE IsrStore
  BY <1>4 DEF IsrStore
<1>5. CASE IsrPublish
  BY <1>5 DEF IsrPublish
<1>6. CASE LoadSeq
  BY <1>6 DEF LoadSeq
<1>7. CASE LoadEdge
  BY <1>7 DEF LoadEdge
<1>8. CASE Retry
  BY <1>8 DEF Retry
<1>9. CASE PollNone
  BY <1>9 DEF PollNone
<1>10. CASE PollEvent
  <2>1. event' \in [kind : {"none", "First", "Delta"},
                    interval_us : 0 .. WRAP - 1, edge_us : Nat]
    <3>1. 0 \in 0 .. WRAP - 1
      BY MonitorAssumption
    <3>2. PpsDelta(edge, last_edge_us) \in 0 .. WRAP - 1
      <4>1. edge \in Int /\ last_edge_us \in Int
        OBVIOUS
      <4> QED BY <4>1, DeltaRange
    <3> QED BY <1>10, <3>1, <3>2 DEF PollEvent
  <2> QED BY <1>10, <2>1 DEF PollEvent, Confirmed
<1>11. ASSUME NEW ok \in BOOLEAN, Reenable(ok) PROVE Inv'
  BY <1>11 DEF Reenable
<1>12. CASE UNCHANGED vars
  BY <1>12 DEF vars
<1> QED
  BY <1>1, <1>2, <1>3, <1>4, <1>5, <1>6, <1>7, <1>8, <1>9, <1>10, <1>11, <1>12
     DEF Next, Isr, Poll

(* The seqlock's invariant holds throughout (record_edge and snapshot). *)
THEOREM SeqlockHolds == Spec => [](TypeOK /\ SeqlockInv)
<1>1. Spec => []Inv
  BY InitInv, NextInv, PTL DEF Spec
<1> QED BY <1>1, PTL DEF Inv

-----------------------------------------------------------------------------
(* The reader and the handler implement the atomic register: a publication  *)
(* is a capture, a successful poll is a report, and everything between is   *)
(* invisible (record_edge, snapshot, poll).                                 *)
THEOREM ImplementsRegister == Spec => AtomicRegister
<1>1. Init => Register!Init
  BY DEF Init, Register!Init, Register!NoEvent
<1>2. Inv /\ [Next]_vars
        => [Register!Next]_<<Register!register, Register!cursor>>
  <2> SUFFICES ASSUME Inv, [Next]_vars
               PROVE  \/ Register!Next
                      \/ UNCHANGED <<Register!register, Register!cursor>>
    OBVIOUS
  <2> USE DEF Register!register, Register!cursor, cursor
  <2>1. CASE IsrBump
    <3>1. seq \in Nat /\ seq % 2 = 0 /\ seq' = seq + 1
      BY <2>1 DEF IsrBump, Inv, TypeOK, SeqlockInv
    <3>2. (seq \div 2)' = seq \div 2
      BY <3>1
    <3> QED BY <2>1, <3>2 DEF IsrBump
  <2>2. CASE IsrPublish
    <3>1. seq \in Nat /\ seq % 2 = 1 /\ seq' = seq + 1
      BY <2>2 DEF IsrPublish, Inv, TypeOK, SeqlockInv
    <3>2. (seq \div 2)' = (seq \div 2) + 1
      BY <3>1
    <3>3. edge_pub' \in Nat /\ edge_pub' > edge_pub
      BY <2>2 DEF IsrPublish, Inv, TypeOK, SeqlockInv
    <3> QED BY <2>2, <3>2, <3>3 DEF IsrPublish, Register!Next, Register!Capture
  <2>3. CASE PollEvent
    <3>1. s1 = seq /\ edge = edge_pub
      BY <2>3 DEF PollEvent, Confirmed, Inv, SeqlockInv
    <3>2. event' = Register!EventOf(edge_pub, last_edge_us)
      BY <2>3, <3>1
         DEF PollEvent, PpsDelta, Register!EventOf, Register!FIRST, Register!DELTA
    <3> QED
      BY <2>3, <3>1, <3>2
         DEF PollEvent, NewPulse, Register!Next, Register!Report, shared
  <2>4. ASSUME \/ EdgeFires \/ EdgeLost \/ IsrStore \/ LoadSeq \/ LoadEdge
               \/ Retry \/ PollNone \/ UNCHANGED vars
               \/ \E ok \in BOOLEAN : Reenable(ok)
        PROVE  UNCHANGED <<Register!register, Register!cursor>>
    <3>1. UNCHANGED <<seq, edge_pub, last_count, last_edge_us, event>>
      BY <2>4
         DEF EdgeFires, EdgeLost, IsrStore, LoadSeq, LoadEdge, Retry,
             PollNone, Reenable, vars, shared
    <3> QED BY <3>1
  <2> QED BY <2>1, <2>2, <2>3, <2>4 DEF Next, Isr, Poll
<1>3. Spec => []Inv
  BY InitInv, NextInv, PTL DEF Spec
<1> QED BY <1>1, <1>2, <1>3, PTL DEF Spec, AtomicRegister, Register!Spec

-----------------------------------------------------------------------------
(* The hand-shake of the interrupt. *)

(* The interrupt comes back: inductive together with the seqlock's          *)
(* invariant, whose last conjunct keeps the cursor behind the captures      *)
(* (poll and reenable_interrupt).                                           *)
THEOREM InterruptHolds == Spec => []InterruptComesBack
<1>1. Init => InterruptComesBack
  BY DEF Init, InterruptComesBack
<1>2. Inv /\ InterruptComesBack /\ [Next]_vars => InterruptComesBack'
  <2> SUFFICES ASSUME Inv, InterruptComesBack, [Next]_vars
               PROVE  InterruptComesBack'
    OBVIOUS
  <2> USE DEF Inv, TypeOK, SeqlockInv, InterruptComesBack,
              shared, handler, reader, cursor
  <2>1. CASE EdgeFires
    BY <2>1 DEF EdgeFires
  <2>2. CASE EdgeLost \/ UNCHANGED vars
    BY <2>2 DEF EdgeLost, vars
  <2>3. CASE IsrBump \/ IsrStore
    BY <2>3 DEF IsrBump, IsrStore
  <2>4. CASE IsrPublish
    BY <2>4 DEF IsrPublish
  <2>5. CASE LoadSeq \/ LoadEdge
    BY <2>5 DEF LoadSeq, LoadEdge
  <2>6. CASE Retry \/ PollNone
    BY <2>6 DEF Retry, PollNone
  <2>7. CASE PollEvent
    BY <2>7 DEF PollEvent
  <2>8. ASSUME NEW ok \in BOOLEAN, Reenable(ok) PROVE InterruptComesBack'
    BY <2>8 DEF Reenable
  <2> QED
    BY <2>1, <2>2, <2>3, <2>4, <2>5, <2>6, <2>7, <2>8 DEF Next, Isr, Poll
<1>3. Spec => []Inv
  BY InitInv, NextInv, PTL DEF Spec
<1> QED BY <1>1, <1>2, <1>3, PTL DEF Spec

(* Where the loop stands while the one-shot interrupt is enabled, running   *)
(* or waiting for its re-enable.                                            *)
HandShake ==
  ONE_SHOT =>
    /\ armed => isr = "idle" /\ seq = 2 * last_count
    /\ isr # "idle" => ~armed /\ seq \div 2 = last_count /\ rd # "enable"
    /\ rd = "enable" => ~armed /\ seq = 2 * last_count
    /\ seq \div 2 <= last_count + 1

(* No capture is overwritten before it is polled (PpsDevice).               *)
THEOREM OneBehindHolds == Spec => []AtMostOneBehind
<1>1. Init => HandShake
  BY DEF Init, HandShake
<1>2. Inv /\ HandShake /\ [Next]_vars => HandShake'
  <2> SUFFICES ASSUME Inv, HandShake, [Next]_vars, ONE_SHOT
               PROVE  HandShake'
    BY DEF HandShake
  <2> USE DEF Inv, TypeOK, SeqlockInv, HandShake,
              shared, handler, reader, cursor
  <2>1. CASE EdgeFires
    <3>1. ~armed' /\ armed
      BY <2>1 DEF EdgeFires
    <3> QED BY <2>1, <3>1 DEF EdgeFires
  <2>2. CASE EdgeLost \/ UNCHANGED vars
    BY <2>2 DEF EdgeLost, vars
  <2>3. CASE IsrBump
    BY <2>3 DEF IsrBump
  <2>4. CASE IsrStore
    BY <2>4 DEF IsrStore
  <2>5. CASE IsrPublish
    BY <2>5 DEF IsrPublish
  <2>6. CASE LoadSeq \/ LoadEdge
    BY <2>6 DEF LoadSeq, LoadEdge
  <2>7. CASE Retry \/ PollNone
    BY <2>7 DEF Retry, PollNone
  <2>8. CASE PollEvent
    <3>1. s1 = seq /\ seq % 2 = 0 /\ seq \div 2 > last_count
      BY <2>8 DEF PollEvent, Confirmed, NewPulse
    <3>2. isr = "idle" /\ ~armed
      BY <3>1
    <3> QED BY <2>8, <3>1, <3>2 DEF PollEvent
  <2>9. ASSUME NEW ok \in BOOLEAN, Reenable(ok) PROVE HandShake'
    BY <2>9 DEF Reenable
  <2> QED
    BY <2>1, <2>2, <2>3, <2>4, <2>5, <2>6, <2>7, <2>8, <2>9 DEF Next, Isr, Poll
<1>3. Inv /\ HandShake => AtMostOneBehind
  BY DEF HandShake, AtMostOneBehind, Inv, TypeOK
<1>4. Spec => []Inv
  BY InitInv, NextInv, PTL DEF Spec
<1> QED BY <1>1, <1>2, <1>3, <1>4, PTL DEF Spec
=============================================================================
