---------------------------- MODULE NtpPoll_proofs ----------------------------
(***************************************************************************)
(* Proofs about RateLimiter and NtpPoll, for every number of datagrams,    *)
(* clients, slots and failures: the fixed table answers like an unbounded  *)
(* one unless it was crowded out; poll uses the limiter only in the ways   *)
(* RateLimiter allows, so its guarantees hold of the server; no datagram   *)
(* is lost or counted twice; and the access list lets in exactly what was  *)
(* configured, for every network and every prefix.                         *)
(***************************************************************************)
EXTENDS NtpPoll, TLAPS, SequenceTheorems

(***************************************************************************)
(* The limiter.                                                            *)
(***************************************************************************)

Inv == LimiterTypeOK /\ TableExact /\ ForgottenOnlyWhenCrowded

(* Refreshing the entry of a known client keeps the invariant. *)
LEMMA KnownInv ==
  ASSUME Inv, UNCHANGED now, NEW addr \in CLIENTS, CheckKnown(addr)
  PROVE  Inv'
<1>1. PICK i \in Slots :
        /\ IsFirst(i, EntriesOf(addr))
        /\ table' = [table EXCEPT ![i].last_us = now]
        /\ accepted_at' = [accepted_at EXCEPT ![addr] = now]
  BY DEF CheckKnown
<1>2. table[i] \in Records /\ table[i].addr = addr
  BY <1>1 DEF IsFirst, EntriesOf, Free, Inv, LimiterTypeOK
<1>3. table'[i] = [addr |-> addr, last_us |-> now] /\ table'[i] \in Records
  BY <1>1, <1>2 DEF Inv, LimiterTypeOK, Records
<1>4. \A j \in Slots \ {i} : table'[j] = table[j]
  BY <1>1 DEF Inv, LimiterTypeOK
<1>5. \A c \in CLIENTS : accepted_at'[c] = IF c = addr THEN now ELSE accepted_at[c]
  BY <1>1 DEF Inv, LimiterTypeOK
<1>6. table'[i] # NONE /\ table'[i].addr = addr /\ table'[i].last_us = now
  BY <1>3, LimiterAssumption
<1>7. LimiterTypeOK'
  BY <1>1, <1>3, <1>4 DEF Inv, LimiterTypeOK
<1>8. TableExact'
  <2>1. \A k \in Slots : table'[k] # NONE =>
          accepted_at'[table'[k].addr] = table'[k].last_us
    <3> SUFFICES ASSUME NEW k \in Slots, table'[k] # NONE
                 PROVE  accepted_at'[table'[k].addr] = table'[k].last_us
      OBVIOUS
    <3>1. CASE k = i
      BY <1>5, <1>6, <3>1
    <3>2. CASE k # i
      <4>1. table'[k] = table[k] /\ table[k].addr \in CLIENTS
        BY <1>4, <3>2 DEF Inv, LimiterTypeOK, Records
      <4>2. table[k].addr # addr
        BY <1>2, <3>2, <4>1, LimiterAssumption DEF Inv, TableExact
      <4> QED BY <1>5, <4>1, <4>2 DEF Inv, TableExact
    <3> QED BY <3>1, <3>2
  <2>2. \A k, j \in Slots :
          table'[k] # NONE /\ table'[j] # NONE /\ table'[k].addr = table'[j].addr
            => k = j
    BY <1>2, <1>4, <1>6, LimiterAssumption DEF Inv, TableExact
  <2>3. \A c \in CLIENTS : accepted_at'[c] # NONE => accepted_at'[c] <= now'
    BY <1>5 DEF Inv, TableExact, LimiterTypeOK
  <2> QED BY <2>1, <2>2, <2>3 DEF TableExact
<1>9. ForgottenOnlyWhenCrowded'
  <2> SUFFICES ASSUME NEW c \in CLIENTS, accepted_at'[c] # NONE,
                      \A k \in Slots : table'[k] = NONE \/ table'[k].addr # c,
                      NEW k \in Slots
               PROVE  table'[k] # NONE /\ table'[k].last_us >= accepted_at'[c]
    BY DEF ForgottenOnlyWhenCrowded
  <2>1. c # addr
    BY <1>6
  <2>2. accepted_at'[c] = accepted_at[c] /\ accepted_at[c] \in Nat
    BY <1>5, <2>1 DEF Inv, LimiterTypeOK
  <2>3. \A j \in Slots : table[j] = NONE \/ table[j].addr # c
    BY <1>2, <1>4, <2>1
  <2>4. table[k] # NONE /\ table[k].last_us >= accepted_at[c]
    BY <2>2, <2>3 DEF Inv, ForgottenOnlyWhenCrowded
  <2>5. accepted_at[c] <= now
    BY <2>2 DEF Inv, TableExact
  <2>6. CASE k = i
    BY <1>6, <2>2, <2>5, <2>6 DEF Inv, LimiterTypeOK
  <2>7. CASE k # i
    BY <1>4, <2>2, <2>4, <2>7
  <2> QED BY <2>6, <2>7
<1> QED BY <1>7, <1>8, <1>9 DEF Inv

(* Giving a slot to a new client keeps the invariant: the client it takes   *)
(* the slot from was accepted no later than any other in the table.         *)
LEMMA NewInv ==
  ASSUME Inv, UNCHANGED now, NEW addr \in CLIENTS, CheckNew(addr)
  PROVE  Inv'
<1>1. PICK i \in Slots :
        /\ Victim(i)
        /\ table' = [table EXCEPT ![i] = [addr |-> addr, last_us |-> now]]
        /\ accepted_at' = [accepted_at EXCEPT ![addr] = now]
  BY DEF CheckNew
<1>2. \A j \in Slots : table[j] = NONE \/ table[j].addr # addr
  BY DEF CheckNew, EntriesOf, Free
<1>3. [addr |-> addr, last_us |-> now] \in Records
  BY DEF Records, Inv, LimiterTypeOK
<1>4. /\ table'[i] = [addr |-> addr, last_us |-> now]
      /\ \A j \in Slots \ {i} : table'[j] = table[j]
  BY <1>1 DEF Inv, LimiterTypeOK
<1>5. \A c \in CLIENTS : accepted_at'[c] = IF c = addr THEN now ELSE accepted_at[c]
  BY <1>1 DEF Inv, LimiterTypeOK
<1>6. table'[i] # NONE /\ table'[i].addr = addr /\ table'[i].last_us = now
  BY <1>3, <1>4, LimiterAssumption
<1>7. LimiterTypeOK'
  BY <1>1, <1>3 DEF Inv, LimiterTypeOK
<1>8. TableExact'
  <2>1. \A k \in Slots : table'[k] # NONE =>
          accepted_at'[table'[k].addr] = table'[k].last_us
    <3> SUFFICES ASSUME NEW k \in Slots, table'[k] # NONE
                 PROVE  accepted_at'[table'[k].addr] = table'[k].last_us
      OBVIOUS
    <3>1. CASE k = i
      BY <1>5, <1>6, <3>1
    <3>2. CASE k # i
      <4>1. table'[k] = table[k] /\ table[k].addr \in CLIENTS
        BY <1>4, <3>2 DEF Inv, LimiterTypeOK, Records
      <4> QED BY <1>2, <1>5, <4>1 DEF Inv, TableExact
    <3> QED BY <3>1, <3>2
  <2>2. \A k, j \in Slots :
          table'[k] # NONE /\ table'[j] # NONE /\ table'[k].addr = table'[j].addr
            => k = j
    BY <1>2, <1>4, <1>6 DEF Inv, TableExact
  <2>3. \A c \in CLIENTS : accepted_at'[c] # NONE => accepted_at'[c] <= now'
    BY <1>5 DEF Inv, TableExact, LimiterTypeOK
  <2> QED BY <2>1, <2>2, <2>3 DEF TableExact
<1>9. ForgottenOnlyWhenCrowded'
  <2> SUFFICES ASSUME NEW c \in CLIENTS, accepted_at'[c] # NONE,
                      \A k \in Slots : table'[k] = NONE \/ table'[k].addr # c,
                      NEW k \in Slots
               PROVE  table'[k] # NONE /\ table'[k].last_us >= accepted_at'[c]
    BY DEF ForgottenOnlyWhenCrowded
  <2>1. c # addr
    BY <1>6
  <2>2. accepted_at'[c] = accepted_at[c] /\ accepted_at[c] \in Nat
    BY <1>5, <2>1 DEF Inv, LimiterTypeOK
  <2>3. accepted_at[c] <= now
    BY <2>2, LimiterAssumption DEF Inv, TableExact
  <2>4. \A j \in Slots \ {i} : table[j] # NONE /\ table[j].last_us >= accepted_at[c]
    <3>1. CASE table[i] = NONE \/ table[i].addr # c
      <4>1. \A j \in Slots : table[j] = NONE \/ table[j].addr # c
        BY <1>4, <3>1
      <4> QED BY <2>2, <4>1, LimiterAssumption DEF Inv, ForgottenOnlyWhenCrowded
    <3>2. CASE table[i] # NONE /\ table[i].addr = c
      <4>1. Free = {} /\ i \in Oldest
        BY <1>1, <3>2 DEF Victim, IsFirst, Free
      <4>2. table[i].last_us = accepted_at[c]
        BY <3>2 DEF Inv, TableExact
      <4> QED BY <2>2, <4>1, <4>2 DEF Free, Oldest, Inv, LimiterTypeOK, Records
    <3> QED BY <3>1, <3>2
  <2>5. CASE k = i
    BY <1>6, <2>2, <2>3, <2>5 DEF Inv, LimiterTypeOK
  <2>6. CASE k # i
    BY <1>4, <2>2, <2>4, <2>6
  <2> QED BY <2>5, <2>6
<1> QED BY <1>7, <1>8, <1>9 DEF Inv

(* Every step keeps the invariant. *)
LEMMA LimiterNextInv == Inv /\ [LimiterNext]_<<now, limiterVars>> => Inv'
<1> SUFFICES ASSUME Inv, [LimiterNext]_<<now, limiterVars>> PROVE Inv'
  OBVIOUS
<1>1. ASSUME UNCHANGED limiterVars, now' \in Nat, now' >= now PROVE Inv'
  BY <1>1
     DEF Inv, LimiterTypeOK, TableExact, ForgottenOnlyWhenCrowded, limiterVars
<1>2. CASE LimiterTick
  BY <1>1, <1>2 DEF LimiterTick, Inv, LimiterTypeOK
<1>3. ASSUME NEW addr \in CLIENTS, UNCHANGED now, CheckLimited(addr) PROVE Inv'
  BY <1>1, <1>3 DEF CheckLimited, Inv, LimiterTypeOK
<1>4. ASSUME NEW addr \in CLIENTS, UNCHANGED now, CheckAccepted(addr) PROVE Inv'
  BY <1>4, KnownInv, NewInv DEF CheckAccepted
<1>5. CASE UNCHANGED <<now, limiterVars>>
  BY <1>1, <1>5 DEF Inv, LimiterTypeOK
<1> QED BY <1>2, <1>3, <1>4, <1>5 DEF LimiterNext

-----------------------------------------------------------------------------
(* The table holds the truth about the clients in it, and has forgotten     *)
(* only clients crowded out by RATE_TABLE_SIZE later ones (check).          *)
THEOREM TableHolds == LimiterSpec => [](TableExact /\ ForgottenOnlyWhenCrowded)
<1>1. LimiterInit => Inv
  BY DEF LimiterInit, Inv, LimiterTypeOK, TableExact, ForgottenOnlyWhenCrowded
<1>2. LimiterSpec => []Inv
  BY <1>1, LimiterNextInv, PTL DEF LimiterSpec
<1> QED BY <1>2, PTL DEF Inv

(* The limit holds unless the table is crowded: what the module comment of  *)
(* protection.rs accepts as the design's limit is its only weakness.        *)
THEOREM SpacingHolds == LimiterSpec => SpacingUnlessCrowded
<1> DEFINE Spaced(c) ==
      (accepted_at[c] # NONE /\ accepted_at'[c] # accepted_at[c]
         /\ now - accepted_at[c] < MIN_POLL_INTERVAL)
      => \A i \in Slots :
           /\ table[i] # NONE
           /\ table[i].addr # c
           /\ table[i].last_us >= accepted_at[c]
<1>1. LimiterInit => Inv
  BY DEF LimiterInit, Inv, LimiterTypeOK, TableExact, ForgottenOnlyWhenCrowded
<1>2. LimiterSpec => []Inv
  BY <1>1, LimiterNextInv, PTL DEF LimiterSpec
<1>3. Inv /\ [LimiterNext]_<<now, limiterVars>>
        => [\A c \in CLIENTS : Spaced(c)]_<<now, limiterVars>>
  <2> SUFFICES ASSUME Inv, LimiterNext, NEW c \in CLIENTS,
                      accepted_at[c] # NONE, accepted_at'[c] # accepted_at[c],
                      now - accepted_at[c] < MIN_POLL_INTERVAL
               PROVE  \A i \in Slots :
                        /\ table[i] # NONE
                        /\ table[i].addr # c
                        /\ table[i].last_us >= accepted_at[c]
    OBVIOUS
  <2>1. PICK addr \in CLIENTS : CheckAccepted(addr)
    BY DEF LimiterNext, LimiterTick, CheckLimited, limiterVars
  <2>2. c = addr
    BY <2>1 DEF CheckAccepted, CheckKnown, CheckNew, Inv, LimiterTypeOK
  <2>3. CASE CheckKnown(addr)
    <3>1. PICK i \in Slots :
            /\ IsFirst(i, EntriesOf(addr))
            /\ ~(now - table[i].last_us < MIN_POLL_INTERVAL)
      BY <2>3 DEF CheckKnown
    <3>2. table[i] # NONE /\ table[i].addr = c
      BY <2>2, <3>1 DEF IsFirst, EntriesOf, Free
    <3>3. table[i].last_us = accepted_at[c]
      BY <3>2 DEF Inv, TableExact
    <3> QED BY <3>1, <3>3
  <2>4. CASE CheckNew(addr)
    <3>1. \A i \in Slots : table[i] = NONE \/ table[i].addr # c
      BY <2>2, <2>4 DEF CheckNew, EntriesOf, Free
    <3> QED BY <3>1 DEF Inv, ForgottenOnlyWhenCrowded
  <2> QED BY <2>1, <2>3, <2>4 DEF CheckAccepted
<1>4. [][\A c \in CLIENTS : Spaced(c)]_<<now, limiterVars>> <=> SpacingUnlessCrowded
  BY DEF SpacingUnlessCrowded
<1> QED BY <1>2, <1>3, <1>4, PTL DEF LimiterSpec

(***************************************************************************)
(* The server.                                                             *)
(***************************************************************************)

(* What the accounting needs besides itself. *)
AccountInv ==
  /\ socket \in Seq(Datagrams)
  /\ served \in Nat /\ rate_limited_total \in Nat /\ acl_blocked_total \in Nat
  /\ arrived \in Nat /\ discarded \in Nat /\ failed \in Nat
  /\ AllAccounted

(* Taking a datagram from the socket shortens it by one. *)
LEMMA ReceivedShortens ==
  ASSUME AccountInv, Received
  PROVE  socket' \in Seq(Datagrams) /\ Len(socket') = Len(socket) - 1
BY DEF AccountInv, Received

(* Every step keeps the account of the datagrams. *)
LEMMA AccountStep ==
  ASSUME AccountInv, [Next]_vars
  PROVE  AccountInv'
<1> USE DEF AccountInv, AllAccounted, Handled
<1>1. ASSUME NEW d \in Datagrams, Arrive(d) PROVE AccountInv'
  <2>1. socket' \in Seq(Datagrams) /\ Len(socket') = Len(socket) + 1
    BY <1>1 DEF Arrive
  <2> QED BY <1>1, <2>1 DEF Arrive, counters
<1>2. CASE Tick
  BY <1>2 DEF Tick, counters, aux
<1>3. CASE PollStart
  BY <1>3 DEF PollStart, counters, aux
<1>4. CASE PollEnd
  BY <1>4 DEF PollEnd, counters, aux
<1>5. CASE RecvFails
  BY <1>5 DEF RecvFails, counters
<1>6. CASE AclBlocks
  BY <1>6, ReceivedShortens DEF AclBlocks, aux
<1>7. CASE Discards
  BY <1>7, ReceivedShortens DEF Discards, counters
<1>8. CASE KissOfDeath
  BY <1>8, ReceivedShortens DEF KissOfDeath, aux
<1>9. CASE ControlLimited
  BY <1>9, ReceivedShortens DEF ControlLimited, aux
<1>10. CASE Answers
  BY <1>10, ReceivedShortens DEF Answers, aux
<1>11. CASE AnswerFails
  BY <1>11, ReceivedShortens DEF AnswerFails, counters
<1>12. CASE ApplyBootAcl
  BY <1>12 DEF ApplyBootAcl, counters, aux
<1>13. CASE UNCHANGED vars
  BY <1>13 DEF vars, counters, aux
<1> QED
  BY <1>1, <1>2, <1>3, <1>4, <1>5, <1>6, <1>7, <1>8, <1>9, <1>10, <1>11, <1>12, <1>13
     DEF Next, Poll

(* Every datagram is accounted for exactly once, also across polls cut      *)
(* short by a failing send or receive (NtpServer::poll).                    *)
THEOREM AllAccountedHolds == Spec => []AllAccounted
<1>1. Init => AccountInv
  BY DEF Init, AccountInv, AllAccounted, Handled
<1>2. AccountInv /\ [Next]_vars => AccountInv'
  BY AccountStep
<1>3. AccountInv => AllAccounted
  BY DEF AccountInv
<1> QED BY <1>1, <1>2, <1>3, PTL DEF Spec

(* The source of a limited request is a client of the limiter. *)
LEMMA LimitedSteps ==
  ASSUME UNCHANGED now, Limited
  PROVE  \E addr \in CLIENTS : UNCHANGED now /\ CheckLimited(addr)
BY DEF Limited

(* A request that passes is a check of the limiter or leaves it alone. *)
LEMMA PassedSteps ==
  ASSUME UNCHANGED now, Passed
  PROVE  \/ \E addr \in CLIENTS : UNCHANGED now /\ CheckAccepted(addr)
         \/ UNCHANGED <<now, limiterVars>>
BY DEF Passed

(* The server refines the limiter: whatever the interleaving of arrivals,   *)
(* failures and time, poll changes the table only by whole calls of check.  *)
THEOREM ImplementsLimiter == Spec => LimiterSpec
<1>1. Init => LimiterInit
  BY DEF Init
<1> DEFINE Idle == UNCHANGED <<now, limiterVars>>
<1>2. ASSUME [Next]_vars PROVE LimiterNext \/ Idle
  <2>1. ASSUME NEW d \in Datagrams, Arrive(d) PROVE Idle
    BY <2>1 DEF Arrive
  <2>2. CASE Tick
    BY <2>2 DEF Tick, LimiterNext
  <2>3. CASE ApplyBootAcl \/ PollStart \/ PollEnd \/ RecvFails
    BY <2>3 DEF ApplyBootAcl, PollStart, PollEnd, RecvFails
  <2>4. CASE AclBlocks \/ Discards
    BY <2>4 DEF AclBlocks, Discards, Received
  <2>5. CASE KissOfDeath
    BY <2>5, LimitedSteps DEF KissOfDeath, Received, LimiterNext
  <2>6. CASE ControlLimited
    BY <2>6, LimitedSteps DEF ControlLimited, Received, LimiterNext
  <2>7. CASE Answers \/ AnswerFails
    BY <2>7, PassedSteps DEF Answers, AnswerFails, Received, LimiterNext
  <2>8. CASE UNCHANGED vars
    BY <2>8 DEF vars
  <2> HIDE DEF Idle
  <2> QED
    BY <1>2, <2>1, <2>2, <2>3, <2>4, <2>5, <2>6, <2>7, <2>8 DEF Next, Poll
<1>3. ASSUME [Next]_vars PROVE [LimiterNext]_<<now, limiterVars>>
  BY <1>2, <1>3
<1> QED BY <1>1, <1>3, PTL DEF Spec, LimiterSpec

(* The table of the server holds exactly the last accepted request of each  *)
(* client in it, whatever is refused, dropped or fails in between.          *)
THEOREM ServerTable == Spec => []TableExact
BY ImplementsLimiter, TableHolds, PTL

(* The limiter's guarantees, of the whole server: a client is answered      *)
(* twice within MIN_POLL_INTERVAL only when RATE_TABLE_SIZE others crowded  *)
(* it out in between, also when sends fail and control requests interleave. *)
THEOREM ServerSpacing == Spec => SpacingUnlessCrowded
BY ImplementsLimiter, SpacingHolds, PTL

(***************************************************************************)
(* The access list.                                                        *)
(***************************************************************************)

(* Powers of two up to an octet. *)
Pow2(j) == 2 ^ j

(* The nine powers the masks are made of. *)
LEMMA PowerTable ==
  ASSUME NEW j \in Int, 0 <= j, j <= 8
  PROVE  \/ (j = 0 /\ Pow2(j) = 1)
         \/ (j = 1 /\ Pow2(j) = 2)
         \/ (j = 2 /\ Pow2(j) = 4)
         \/ (j = 3 /\ Pow2(j) = 8)
         \/ (j = 4 /\ Pow2(j) = 16)
         \/ (j = 5 /\ Pow2(j) = 32)
         \/ (j = 6 /\ Pow2(j) = 64)
         \/ (j = 7 /\ Pow2(j) = 128)
         \/ (j = 8 /\ Pow2(j) = 256)
<1>1. /\ Pow2(0) = 1
      /\ Pow2(1) = 2
      /\ Pow2(2) = 4
      /\ Pow2(3) = 8
      /\ Pow2(4) = 16
      /\ Pow2(5) = 32
      /\ Pow2(6) = 64
      /\ Pow2(7) = 128
      /\ Pow2(8) = 256
  BY DEF Pow2
<1>2. j \in {0, 1, 2, 3, 4, 5, 6, 7, 8}
  OBVIOUS
<1> QED BY <1>1, <1>2

Octet(x) == x \in Int /\ 0 <= x /\ x <= 255

(* An octet by its bounds, and as a member of the range. *)
LEMMA OctetRange == ASSUME NEW x, Octet(x) PROVE x \in 0 .. 255
BY DEF Octet

(* How many low bits of octet i a prefix leaves open. *)
Open(i, p) == LowIn(i, 32 - p)

(* The block of 2^j values an octet lies in when its low j bits are open. *)
Block(x, j) == x \div Pow2(j)

(* A mask has zeros where the prefix leaves bits open, the empty prefix     *)
(* included (add_ipv4_cidr).                                                *)
LEMMA MaskOctet ==
  ASSUME NEW p \in Int, 0 <= p, p <= 32, NEW i \in Octets
  PROVE  /\ Open(i, p) \in Int /\ 0 <= Open(i, p) /\ Open(i, p) <= 8
         /\ Mask(p)[i] = 256 - Pow2(Open(i, p))
<1>1. i \in Int /\ 1 <= i /\ i <= 4
  BY DEF Octets
<1>2. Open(i, p) \in Int /\ 0 <= Open(i, p) /\ Open(i, p) <= 8
  BY <1>1 DEF Open, LowIn
<1>3. CASE p = 0
  <2>1. Open(i, p) = 8
    BY <1>1, <1>3 DEF Open, LowIn
  <2>2. Mask(p)[i] = 0
    BY <1>3 DEF Mask
  <2> QED BY <1>2, <2>1, <2>2, PowerTable
<1>4. CASE p # 0
  <2>1. (32 - p) % 32 = 32 - p
    BY <1>4
  <2>2. Mask(p)[i] = 256 - 2 ^ LowIn(i, (32 - p) % 32)
    BY <1>4 DEF Mask, Above
  <2> QED BY <1>2, <2>1, <2>2 DEF Open, Pow2
<1> QED BY <1>3, <1>4

(* Clearing the low bits tells octets apart exactly when they lie in        *)
(* different blocks.                                                        *)
LEMMA SameBlock ==
  ASSUME NEW x, Octet(x), NEW y, Octet(y), NEW j \in Int, 0 <= j, j <= 8
  PROVE  x - (x % Pow2(j)) = y - (y % Pow2(j)) <=> Block(x, j) = Block(y, j)
<1>1. Pow2(j) \in {1, 2, 4, 8, 16, 32, 64, 128, 256}
  BY PowerTable
<1>2. PICK w \in {1, 2, 4, 8, 16, 32, 64, 128, 256} : Pow2(j) = w
  BY <1>1
<1>3. x - (x % w) = y - (y % w) <=> x \div w = y \div w
  BY DEF Octet
<1> QED BY <1>2, <1>3 DEF Block

(* An entry contains the addresses that lie in its network's block in every *)
(* octet (AclEntry::contains).                                              *)
LEMMA ContainsBlocks ==
  ASSUME NEW n, NEW a, \A i \in Octets : Octet(n[i]) /\ Octet(a[i]),
         NEW p \in Int, 0 <= p, p <= 32
  PROVE  Contains([network |-> n, mask |-> Mask(p)], a)
           <=> \A i \in Octets : Block(a[i], Open(i, p)) = Block(n[i], Open(i, p))
<1> DEFINE m == Mask(p)
<1>1. ASSUME NEW i \in Octets
      PROVE  And(a, m)[i] = And(n, m)[i] <=> Block(a[i], Open(i, p)) = Block(n[i], Open(i, p))
  <2> DEFINE w == Pow2(Open(i, p))
  <2>1. Open(i, p) \in Int /\ 0 <= Open(i, p) /\ Open(i, p) <= 8 /\ m[i] = 256 - w
    BY MaskOctet
  <2>2. w \in Int
    BY <2>1, PowerTable
  <2> HIDE DEF m, w
  <2>3. 256 - m[i] = w
    BY <2>1, <2>2
  <2>4. And(a, m)[i] = a[i] - (a[i] % w) /\ And(n, m)[i] = n[i] - (n[i] % w)
    BY <2>3 DEF And
  <2> QED BY <2>1, <2>4, SameBlock DEF w
<1>2. And(a, m) = And(n, m) <=> \A i \in Octets : And(a, m)[i] = And(n, m)[i]
  BY DEF And
<1>3. Contains([network |-> n, mask |-> m], a) <=> And(a, m) = And(n, m)
  BY DEF Contains
<1> QED BY <1>1, <1>2, <1>3

(* A list of one entry lets in what that entry contains. *)
LEMMA AllowsOne ==
  ASSUME NEW n, NEW p, NEW a
  PROVE  Allows(AddIpv4Cidr(DenyAll, n, p), a) <=> Contains([network |-> n, mask |-> Mask(p)], a)
<1> DEFINE e == [network |-> n, mask |-> Mask(p)]
<1>1. AddIpv4Cidr(DenyAll, n, p) = [entries |-> <<e>>, default_allow |-> FALSE]
  <2>1. AddIpv4Cidr(DenyAll, n, p) = [DenyAll EXCEPT !.entries = Append(@, e)]
    BY DEF AddIpv4Cidr, DenyAll, ACL_MAX_ENTRIES
  <2> HIDE DEF e
  <2>2. Append(<<>>, e) = <<e>>
    OBVIOUS
  <2> QED BY <2>1, <2>2 DEF DenyAll
<1> HIDE DEF e
<1>2. Allows([entries |-> <<e>>, default_allow |-> FALSE], a) <=> Contains(e, a)
  BY DEF Allows
<1> QED BY <1>1, <1>2 DEF e

(* What a configured prefix makes of the list (Acl::from_config). *)
LEMMA ConfiguredPrefix ==
  ASSUME NEW n \in Seq(Int), Len(n) = 4, \A i \in Octets : Octet(n[i]),
         NEW p \in Int, 0 <= p, p <= 32
  PROVE  FromConfig([octets |-> n, prefix |-> p]) = AddIpv4Cidr(DenyAll, n, p)
<1> DEFINE s == [octets |-> n, prefix |-> p]
<1>1. \A i \in Octets : n[i] \in 0 .. 255
  <2> TAKE i \in Octets
  <2>1. Octet(n[i])
    OBVIOUS
  <2> QED BY <2>1, OctetRange
<1>2. p \in 0 .. 32
  OBVIOUS
<1>3. ParseIpv4Cidr(s) = {s}
  BY <1>1, <1>2 DEF ParseIpv4Cidr
<1>4. (CHOOSE c \in ParseIpv4Cidr(s) : TRUE) = s
  BY <1>3
<1>5. s.octets = n /\ s.prefix = p
  OBVIOUS
<1> HIDE DEF s
<1> QED BY <1>3, <1>4, <1>5 DEF FromConfig, s

(* A configured prefix lets in exactly the addresses that lie in the block  *)
(* of its network in every octet.                                           *)
THEOREM PrefixExact ==
  ASSUME NEW n \in Seq(Int), Len(n) = 4, NEW a,
         \A i \in Octets : Octet(n[i]) /\ Octet(a[i]),
         NEW p \in Int, 0 <= p, p <= 32
  PROVE  Allows(FromConfig([octets |-> n, prefix |-> p]), a)
           <=> \A i \in Octets : Block(a[i], Open(i, p)) = Block(n[i], Open(i, p))
<1>1. FromConfig([octets |-> n, prefix |-> p]) = AddIpv4Cidr(DenyAll, n, p)
  BY ConfiguredPrefix
<1>2. Allows(AddIpv4Cidr(DenyAll, n, p), a) <=> Contains([network |-> n, mask |-> Mask(p)], a)
  BY AllowsOne
<1>3. Contains([network |-> n, mask |-> Mask(p)], a)
        <=> \A i \in Octets : Block(a[i], Open(i, p)) = Block(n[i], Open(i, p))
  BY ContainsBlocks
<1> QED BY <1>1, <1>2, <1>3, Zenon

BitAt(x, b) == (x \div Pow2(b)) % 2

(* A block is the two halves that its next bit tells apart. *)
LEMMA BlockHalves ==
  ASSUME NEW x, Octet(x), NEW j \in Int, 0 <= j, j <= 7
  PROVE  /\ Block(x, j) \in Int /\ Block(x, j + 1) \in Int /\ BitAt(x, j) \in {0, 1}
         /\ Block(x, j) = 2 * Block(x, j + 1) + BitAt(x, j)
<1>1. PICK w \in {1, 2, 4, 8, 16, 32, 64, 128} : Pow2(j) = w /\ Pow2(j + 1) = 2 * w
  <2>1. j + 1 \in Int /\ 0 <= j + 1 /\ j + 1 <= 8
    OBVIOUS
  <2> QED BY <2>1, PowerTable
<1>2. /\ x \div w \in Int /\ x \div (2 * w) \in Int /\ (x \div w) % 2 \in {0, 1}
      /\ x \div w = 2 * (x \div (2 * w)) + ((x \div w) % 2)
  BY DEF Octet
<1> QED BY <1>1, <1>2 DEF Block, BitAt

SameBits(x, y, j) == \A b \in j .. 7 : BitAt(x, b) = BitAt(y, b)

(* Two octets lie in the same block exactly when they agree in the bits     *)
(* that are not open.                                                       *)
LEMMA BlockBits ==
  ASSUME NEW x, Octet(x), NEW y, Octet(y), NEW j \in Int, 0 <= j, j <= 8
  PROVE  Block(x, j) = Block(y, j) <=> SameBits(x, y, j)
<1> DEFINE P(i) == Block(x, i) = Block(y, i) <=> SameBits(x, y, i)
<1>1. P(8)
  <2>1. Block(x, 8) = 0 /\ Block(y, 8) = 0
    <3>1. Pow2(8) = 256
      BY DEF Pow2
    <3> QED BY <3>1 DEF Block, Octet
  <2> QED BY <2>1 DEF SameBits
<1>2. ASSUME NEW i \in Int, NEW m \in Int, 0 <= i, i <= 7, m = i + 1, P(m) PROVE P(i)
  <2>0. P(i + 1)
    BY <1>2
  <2>1. Block(x, i) = Block(y, i)
          <=> Block(x, i + 1) = Block(y, i + 1) /\ BitAt(x, i) = BitAt(y, i)
    <3>1. /\ Block(x, i) \in Int /\ Block(x, i + 1) \in Int /\ BitAt(x, i) \in {0, 1}
          /\ Block(x, i) = 2 * Block(x, i + 1) + BitAt(x, i)
      BY <1>2, BlockHalves
    <3>2. /\ Block(y, i) \in Int /\ Block(y, i + 1) \in Int /\ BitAt(y, i) \in {0, 1}
          /\ Block(y, i) = 2 * Block(y, i + 1) + BitAt(y, i)
      BY <1>2, BlockHalves
    <3> DEFINE u == Block(x, i + 1)
               v == Block(y, i + 1)
               b == BitAt(x, i)
               c == BitAt(y, i)
    <3>3. u \in Int /\ v \in Int /\ b \in {0, 1} /\ c \in {0, 1}
      BY <3>1, <3>2
    <3>4. Block(x, i) = 2 * u + b /\ Block(y, i) = 2 * v + c
      BY <3>1, <3>2
    <3> HIDE DEF u, v, b, c
    <3>5. 2 * u + b = 2 * v + c <=> u = v /\ b = c
      BY <3>3
    <3> QED BY <3>4, <3>5 DEF u, v, b, c
  <2>2. SameBits(x, y, i) <=> SameBits(x, y, i + 1) /\ BitAt(x, i) = BitAt(y, i)
    BY <1>2 DEF SameBits
  <2> QED BY <2>0, <2>1, <2>2
<1> HIDE DEF P
<1>3. P(7) /\ P(6) /\ P(5) /\ P(4) /\ P(3) /\ P(2) /\ P(1) /\ P(0)
  <2>1. ASSUME NEW i \in {0, 1, 2, 3, 4, 5, 6, 7} PROVE P(i + 1) => P(i)
    <3>1. i \in Int /\ i + 1 \in Int /\ 0 <= i /\ i <= 7
      OBVIOUS
    <3> QED BY <1>2, <3>1
  <2>2. /\ 7 + 1 = 8 /\ 6 + 1 = 7 /\ 5 + 1 = 6 /\ 4 + 1 = 5
        /\ 3 + 1 = 4 /\ 2 + 1 = 3 /\ 1 + 1 = 2 /\ 0 + 1 = 1
    OBVIOUS
  <2>3. P(7) /\ P(6)
    BY <1>1, <2>1, <2>2, Zenon
  <2>4. P(5) /\ P(4)
    BY <2>1, <2>2, <2>3, Zenon
  <2>5. P(3) /\ P(2)
    BY <2>1, <2>2, <2>4, Zenon
  <2>6. P(1) /\ P(0)
    BY <2>1, <2>2, <2>5, Zenon
  <2> QED BY <2>3, <2>4, <2>5, <2>6
<1>4. j \in {0, 1, 2, 3, 4, 5, 6, 7, 8}
  OBVIOUS
<1>5. P(j)
  BY <1>1, <1>3, <1>4
<1> QED BY <1>5 DEF P

(* Where bit k of an address lies among the open bits of its octet. *)
LEMMA BitOpen ==
  ASSUME NEW k \in 0 .. 31, NEW p \in Int, 0 <= p, p <= 32
  PROVE  /\ (k \div 8) + 1 \in Octets
         /\ 7 - (k % 8) \in Int /\ 0 <= 7 - (k % 8) /\ 7 - (k % 8) <= 7
         /\ (7 - (k % 8) < Open((k \div 8) + 1, p)) <=> k >= p
<1>1. PICK q \in Int, r \in Int : k \div 8 = q /\ (k % 8) = r
  BY SMT
<1>2. /\ 0 <= q /\ q <= 3 /\ 0 <= r /\ r <= 7
      /\ k = 8 * q + r
  BY <1>1
<1>3. (7 - r < Open(q + 1, p)) <=> k >= p
  BY <1>2 DEF Open, LowIn
<1>4. q + 1 \in Octets
  BY <1>2 DEF Octets
<1> QED BY <1>1, <1>2, <1>3, <1>4

(* Bit k of an address is a bit of one of its octets. *)
LEMMA BitIs ==
  ASSUME NEW a, NEW k
  PROVE  Bit(a, k) = BitAt(a[(k \div 8) + 1], 7 - (k % 8))
BY DEF Bit, BitAt, Pow2

(* Two addresses lie in the same blocks exactly when they agree in the      *)
(* first p bits.                                                            *)
LEMMA BlocksAreBits ==
  ASSUME NEW n, NEW a, \A i \in Octets : Octet(n[i]) /\ Octet(a[i]),
         NEW p \in Int, 0 <= p, p <= 32
  PROVE  (\A i \in Octets : Block(a[i], Open(i, p)) = Block(n[i], Open(i, p)))
           <=> \A k \in 0 .. p - 1 : Bit(a, k) = Bit(n, k)
<1>1. \A i \in Octets :
        Block(a[i], Open(i, p)) = Block(n[i], Open(i, p)) <=> SameBits(a[i], n[i], Open(i, p))
  BY BlockBits, MaskOctet
<1>2. ASSUME \A i \in Octets : SameBits(a[i], n[i], Open(i, p)), NEW k \in 0 .. p - 1
      PROVE  Bit(a, k) = Bit(n, k)
  <2> DEFINE i == (k \div 8) + 1
             b == 7 - (k % 8)
  <2>1. k \in 0 .. 31 /\ ~(k >= p)
    OBVIOUS
  <2>2. i \in Octets /\ b \in Int /\ b <= 7 /\ ~(b < Open(i, p))
    BY <2>1, BitOpen
  <2> HIDE DEF i, b
  <2>3. Open(i, p) \in Int
    BY <2>2, MaskOctet
  <2>4. b \in Open(i, p) .. 7
    BY <2>2, <2>3
  <2>5. BitAt(a[i], b) = BitAt(n[i], b)
    BY <1>2, <2>2, <2>4 DEF SameBits
  <2> QED BY <2>5, BitIs DEF i, b
<1>3. ASSUME \A k \in 0 .. p - 1 : Bit(a, k) = Bit(n, k), NEW i \in Octets,
             NEW b \in Open(i, p) .. 7
      PROVE  BitAt(a[i], b) = BitAt(n[i], b)
  <2> DEFINE k == 8 * (i - 1) + (7 - b)
  <2>1. i \in Int /\ 1 <= i /\ i <= 4
    BY DEF Octets
  <2>2. b \in Int /\ 0 <= b /\ b <= 7 /\ Open(i, p) <= b
    BY MaskOctet
  <2>3. k \in 0 .. 31 /\ (k \div 8) + 1 = i /\ 7 - (k % 8) = b
    BY <2>1, <2>2
  <2> HIDE DEF k
  <2>4. ~(k >= p)
    <3>1. (b < Open(i, p)) <=> k >= p
      BY <2>3, BitOpen
    <3>2. Open(i, p) \in Int
      BY MaskOctet
    <3> QED BY <2>2, <3>1, <3>2
  <2>5. Bit(a, k) = Bit(n, k)
    BY <1>3, <2>3, <2>4
  <2> QED BY <2>3, <2>5, BitIs
<1>4. (\A k \in 0 .. p - 1 : Bit(a, k) = Bit(n, k))
        => \A i \in Octets : SameBits(a[i], n[i], Open(i, p))
  BY <1>3 DEF SameBits
<1>5. (\A i \in Octets : SameBits(a[i], n[i], Open(i, p)))
        => \A k \in 0 .. p - 1 : Bit(a, k) = Bit(n, k)
  BY <1>2
<1> QED BY <1>1, <1>4, <1>5

(* A configured prefix lets in exactly the addresses that agree with its    *)
(* network in the first bits.                                               *)
THEOREM BitExact ==
  ASSUME NEW n \in Seq(Int), Len(n) = 4, NEW a,
         \A i \in Octets : Octet(n[i]) /\ Octet(a[i]),
         NEW p \in Int, 0 <= p, p <= 32
  PROVE  Allows(FromConfig([octets |-> n, prefix |-> p]), a)
           <=> \A k \in 0 .. p - 1 : Bit(a, k) = Bit(n, k)
<1>1. Allows(FromConfig([octets |-> n, prefix |-> p]), a)
        <=> \A i \in Octets : Block(a[i], Open(i, p)) = Block(n[i], Open(i, p))
  BY PrefixExact
<1>2. (\A i \in Octets : Block(a[i], Open(i, p)) = Block(n[i], Open(i, p)))
        <=> \A k \in 0 .. p - 1 : Bit(a, k) = Bit(n, k)
  BY BlocksAreBits
<1> QED BY <1>1, <1>2, Zenon

Entry(n, p) == [network |-> n, mask |-> Mask(p)]

(* Append, by the elements of its result. *)
LEMMA AppendIs ==
  ASSUME NEW S, NEW s \in Seq(S), NEW e \in S, NEW t \in Seq(S),
         Len(t) = Len(s) + 1, t[Len(s) + 1] = e, \A i \in 1 .. Len(s) : t[i] = s[i]
  PROVE  Append(s, e) = t
<1>1. Append(s, e) \in Seq(S) /\ Len(Append(s, e)) = Len(s) + 1
      /\ Append(s, e)[Len(s) + 1] = e /\ \A i \in 1 .. Len(s) : Append(s, e)[i] = s[i]
  BY AppendProperties
<1>2. \A i \in 1 .. Len(t) : i \in 1 .. Len(s) \/ i = Len(s) + 1
  OBVIOUS
<1>3. \A i \in 1 .. Len(Append(s, e)) : Append(s, e)[i] = t[i]
  BY <1>1, <1>2
<1> QED BY <1>1, <1>3, SeqEqual

(* The four entries of the private list (Acl::private_lan). *)
LEMMA PrivateEntries ==
  PrivateLan = [entries |-> <<Entry(<<127, 0, 0, 0>>, 8), Entry(<<10, 0, 0, 0>>, 8),
                              Entry(<<172, 16, 0, 0>>, 12), Entry(<<192, 168, 0, 0>>, 16)>>,
                default_allow |-> FALSE]
<1>1. ASSUME NEW l, NEW n, NEW p, ~(Len(l) >= 8)
      PROVE  AddIpv4Cidr([entries |-> l, default_allow |-> FALSE], n, p)
               = [entries |-> Append(l, Entry(n, p)), default_allow |-> FALSE]
  <2> DEFINE before == [entries |-> l, default_allow |-> FALSE]
  <2>1. before.entries = l
    OBVIOUS
  <2>2. AddIpv4Cidr(before, n, p) = [before EXCEPT !.entries = Append(@, Entry(n, p))]
    <3> HIDE DEF before
    <3> QED BY <1>1, <2>1 DEF AddIpv4Cidr, Entry, ACL_MAX_ENTRIES
  <2> QED BY <2>2
<1> DEFINE e1 == Entry(<<127, 0, 0, 0>>, 8)
           e2 == Entry(<<10, 0, 0, 0>>, 8)
           e3 == Entry(<<172, 16, 0, 0>>, 12)
           e4 == Entry(<<192, 168, 0, 0>>, 16)
           loopback == AddIpv4Cidr(DenyAll, <<127, 0, 0, 0>>, 8)
           classA   == AddIpv4Cidr(loopback, <<10, 0, 0, 0>>, 8)
           classB   == AddIpv4Cidr(classA, <<172, 16, 0, 0>>, 12)
<1>2. loopback = [entries |-> Append(<<>>, e1), default_allow |-> FALSE]
  <2>1. ~(Len(<<>>) >= 8)
    OBVIOUS
  <2> QED BY <1>1, <2>1 DEF DenyAll
<1> HIDE DEF e1, e2, e3, e4, loopback
<1>3. /\ Append(<<>>, e1) = <<e1>> /\ Append(<<e1>>, e2) = <<e1, e2>>
      /\ Append(<<e1, e2>>, e3) = <<e1, e2, e3>>
      /\ Append(<<e1, e2, e3>>, e4) = <<e1, e2, e3, e4>>
  <2> DEFINE S == {e1, e2, e3, e4}
  <2>1. e1 \in S /\ e2 \in S /\ e3 \in S /\ e4 \in S
    OBVIOUS
  <2> HIDE DEF S
  <2>2. /\ <<>> \in Seq(S) /\ <<e1>> \in Seq(S) /\ <<e1, e2>> \in Seq(S)
        /\ <<e1, e2, e3>> \in Seq(S) /\ <<e1, e2, e3, e4>> \in Seq(S)
    BY <2>1
  <2>3. Append(<<>>, e1) = <<e1>>
    BY <2>1, <2>2, AppendIs
  <2>4. Append(<<e1>>, e2) = <<e1, e2>>
    <3> DEFINE s == <<e1>>
               t == <<e1, e2>>
    <3>1. s \in Seq(S) /\ t \in Seq(S) /\ e2 \in S
      BY <2>1, <2>2
    <3>2. Len(t) = Len(s) + 1 /\ t[Len(s) + 1] = e2 /\ \A i \in 1 .. Len(s) : t[i] = s[i]
      OBVIOUS
    <3> HIDE DEF s, t
    <3>3. Append(s, e2) = t
      BY <3>1, <3>2, AppendIs
    <3> QED BY <3>3 DEF s, t
  <2>5. Append(<<e1, e2>>, e3) = <<e1, e2, e3>>
    <3> DEFINE s == <<e1, e2>>
               t == <<e1, e2, e3>>
    <3>1. s \in Seq(S) /\ t \in Seq(S) /\ e3 \in S
      BY <2>1, <2>2
    <3>2. Len(t) = Len(s) + 1 /\ t[Len(s) + 1] = e3 /\ \A i \in 1 .. Len(s) : t[i] = s[i]
      OBVIOUS
    <3> HIDE DEF s, t
    <3>3. Append(s, e3) = t
      BY <3>1, <3>2, AppendIs
    <3> QED BY <3>3 DEF s, t
  <2>6. Append(<<e1, e2, e3>>, e4) = <<e1, e2, e3, e4>>
    <3> DEFINE s == <<e1, e2, e3>>
               t == <<e1, e2, e3, e4>>
    <3>1. s \in Seq(S) /\ t \in Seq(S) /\ e4 \in S
      BY <2>1, <2>2
    <3>2. Len(t) = Len(s) + 1 /\ t[Len(s) + 1] = e4 /\ \A i \in 1 .. Len(s) : t[i] = s[i]
      OBVIOUS
    <3> HIDE DEF s, t
    <3>3. Append(s, e4) = t
      BY <3>1, <3>2, AppendIs
    <3> QED BY <3>3 DEF s, t
  <2> QED BY <2>3, <2>4, <2>5, <2>6
<1>4. ~(Len(<<e1>>) >= 8) /\ ~(Len(<<e1, e2>>) >= 8) /\ ~(Len(<<e1, e2, e3>>) >= 8)
  OBVIOUS
<1>5. classA = [entries |-> <<e1, e2>>, default_allow |-> FALSE]
  <2>1. loopback = [entries |-> <<e1>>, default_allow |-> FALSE]
    BY <1>2, <1>3
  <2>2. classA = [entries |-> Append(<<e1>>, e2), default_allow |-> FALSE]
    BY <1>1, <1>4, <2>1 DEF e2
  <2> QED BY <1>3, <2>2
<1> HIDE DEF classA
<1>6. classB = [entries |-> <<e1, e2, e3>>, default_allow |-> FALSE]
  <2>1. classB = [entries |-> Append(<<e1, e2>>, e3), default_allow |-> FALSE]
    BY <1>1, <1>5, <1>4 DEF e3
  <2> QED BY <1>3, <2>1
<1> HIDE DEF classB
<1>7. AddIpv4Cidr(classB, <<192, 168, 0, 0>>, 16)
        = [entries |-> <<e1, e2, e3, e4>>, default_allow |-> FALSE]
  <2>1. AddIpv4Cidr(classB, <<192, 168, 0, 0>>, 16)
          = [entries |-> Append(<<e1, e2, e3>>, e4), default_allow |-> FALSE]
    BY <1>1, <1>6, <1>4 DEF e4
  <2> QED BY <1>3, <2>1
<1> QED BY <1>7 DEF PrivateLan, e1, e2, e3, e4, loopback, classA, classB

(* The private list lets in exactly the private ranges, of all addresses. *)
THEOREM PrivateExact ==
  ASSUME NEW a, \A i \in Octets : Octet(a[i])
  PROVE  Allows(PrivateLan, a) <=> IsPrivate(a[1], a[2])
<1> DEFINE e1 == Entry(<<127, 0, 0, 0>>, 8)
           e2 == Entry(<<10, 0, 0, 0>>, 8)
           e3 == Entry(<<172, 16, 0, 0>>, 12)
           e4 == Entry(<<192, 168, 0, 0>>, 16)
<1>1. \A x : Octet(x) => Block(x, 0) = x /\ Block(x, 8) = 0 /\ Block(x, 4) = x \div 16
  <2>1. Pow2(0) = 1 /\ Pow2(4) = 16 /\ Pow2(8) = 256
    BY DEF Pow2
  <2> QED BY <2>1 DEF Block, Octet
<1>2. /\ Open(1, 8) = 0 /\ Open(2, 8) = 8 /\ Open(3, 8) = 8 /\ Open(4, 8) = 8
      /\ Open(1, 12) = 0 /\ Open(2, 12) = 4 /\ Open(3, 12) = 8 /\ Open(4, 12) = 8
      /\ Open(1, 16) = 0 /\ Open(2, 16) = 0 /\ Open(3, 16) = 8 /\ Open(4, 16) = 8
  BY DEF Open, LowIn
<1>3. ASSUME NEW n1, Octet(n1), NEW n2, Octet(n2)
      PROVE  /\ Contains(Entry(<<n1, n2, 0, 0>>, 8), a) <=> a[1] = n1
             /\ Contains(Entry(<<n1, n2, 0, 0>>, 12), a)
                  <=> a[1] = n1 /\ a[2] \div 16 = n2 \div 16
             /\ Contains(Entry(<<n1, n2, 0, 0>>, 16), a) <=> a[1] = n1 /\ a[2] = n2
  <2> DEFINE n == <<n1, n2, 0, 0>>
  <2>1. n[1] = n1 /\ n[2] = n2 /\ n[3] = 0 /\ n[4] = 0
    OBVIOUS
  <2>2. Octet(0)
    BY DEF Octet
  <2>3. 1 \in Octets /\ 2 \in Octets /\ 3 \in Octets /\ 4 \in Octets
        /\ \A i \in Octets : i = 1 \/ i = 2 \/ i = 3 \/ i = 4
    BY DEF Octets
  <2> HIDE DEF n
  <2>4. \A i \in Octets : Octet(n[i]) /\ Octet(a[i])
    BY <1>3, <2>1, <2>2, <2>3
  <2>5. ASSUME NEW p \in {8, 12, 16}
        PROVE  Contains(Entry(n, p), a)
                 <=> /\ Block(a[1], Open(1, p)) = Block(n1, Open(1, p))
                     /\ Block(a[2], Open(2, p)) = Block(n2, Open(2, p))
                     /\ Block(a[3], Open(3, p)) = Block(0, Open(3, p))
                     /\ Block(a[4], Open(4, p)) = Block(0, Open(4, p))
    <3>1. p \in Int /\ 0 <= p /\ p <= 32
      OBVIOUS
    <3>2. Contains(Entry(n, p), a)
            <=> \A i \in Octets : Block(a[i], Open(i, p)) = Block(n[i], Open(i, p))
      BY <2>4, <3>1, ContainsBlocks DEF Entry
    <3> QED BY <2>1, <2>3, <3>2
  <2>6. Octet(a[1]) /\ Octet(a[2]) /\ Octet(a[3]) /\ Octet(a[4])
    BY <2>3, <2>4
  <2>7. Contains(Entry(n, 8), a) <=> a[1] = n1
    BY <1>1, <1>2, <1>3, <2>2, <2>5, <2>6
  <2>8. Contains(Entry(n, 12), a) <=> a[1] = n1 /\ a[2] \div 16 = n2 \div 16
    BY <1>1, <1>2, <1>3, <2>2, <2>5, <2>6
  <2>9. Contains(Entry(n, 16), a) <=> a[1] = n1 /\ a[2] = n2
    BY <1>1, <1>2, <1>3, <2>2, <2>5, <2>6
  <2> QED BY <2>7, <2>8, <2>9 DEF n
<1>4. Octet(0) /\ Octet(127) /\ Octet(10) /\ Octet(172) /\ Octet(16) /\ Octet(192) /\ Octet(168)
  BY DEF Octet
<1>5. /\ Contains(e1, a) <=> a[1] = 127
      /\ Contains(e2, a) <=> a[1] = 10
      /\ Contains(e3, a) <=> a[1] = 172 /\ a[2] \div 16 = 1
      /\ Contains(e4, a) <=> a[1] = 192 /\ a[2] = 168
  BY <1>3, <1>4
<1> HIDE DEF e1, e2, e3, e4
<1>6. Allows([entries |-> <<e1, e2, e3, e4>>, default_allow |-> FALSE], a)
        <=> Contains(e1, a) \/ Contains(e2, a) \/ Contains(e3, a) \/ Contains(e4, a)
  <2> DEFINE l == <<e1, e2, e3, e4>>
  <2>1. /\ DOMAIN l = {1, 2, 3, 4} /\ l # <<>>
        /\ l[1] = e1 /\ l[2] = e2 /\ l[3] = e3 /\ l[4] = e4
    OBVIOUS
  <2> HIDE DEF l
  <2>2. Allows([entries |-> l, default_allow |-> FALSE], a)
          <=> \E i \in {1, 2, 3, 4} : Contains(l[i], a)
    BY <2>1 DEF Allows
  <2> QED BY <2>1, <2>2 DEF l
<1>7. Octet(a[2])
  BY DEF Octets
<1>8. a[2] \div 16 = 1 <=> a[2] \in 16 .. 31
  BY <1>7 DEF Octet
<1>9. Allows(PrivateLan, a)
        <=> Allows([entries |-> <<e1, e2, e3, e4>>, default_allow |-> FALSE], a)
  BY PrivateEntries DEF e1, e2, e3, e4
<1> QED BY <1>5, <1>6, <1>8, <1>9 DEF IsPrivate

(* The list of a build lets in exactly the listed addresses. *)
LEMMA AllowsListed ==
  ASSUME NEW s \in NTP_ACL_CIDRS, NEW c \in CLIENTS
  PROVE  Allows(FromConfig(s), c) <=> Listed(s, c)
<1>1. s \in [octets : Seq(Int), prefix : Int] /\ c \in [Octets -> 0 .. 255]
  BY PollAssumption
<1>2. s = [octets |-> s.octets, prefix |-> s.prefix] /\ s.octets \in Seq(Int) /\ s.prefix \in Int
  BY <1>1
<1>3. \A i \in Octets : Octet(c[i])
  <2> TAKE i \in Octets
  <2>1. c[i] \in 0 .. 255
    BY <1>1
  <2> QED BY <2>1 DEF Octet
<1>4. CASE IsPrefix(s)
  <2>1. s.octets \in [Octets -> 0 .. 255] /\ s.prefix \in 0 .. 32
    BY <1>4 DEF IsPrefix
  <2>2. Len(s.octets) = 4
    BY <1>2, <2>1 DEF Octets
  <2>3. \A i \in Octets : Octet(s.octets[i])
    <3> TAKE i \in Octets
    <3>1. s.octets[i] \in 0 .. 255
      BY <2>1
    <3> QED BY <3>1 DEF Octet
  <2>4. s.octets \in Seq(Int) /\ s.prefix \in Int
    BY <1>1
  <2>5. 0 <= s.prefix /\ s.prefix <= 32
    BY <2>1
  <2>6. Allows(FromConfig([octets |-> s.octets, prefix |-> s.prefix]), c)
          <=> \A k \in 0 .. s.prefix - 1 : Bit(c, k) = Bit(s.octets, k)
    BY <1>3, <2>2, <2>3, <2>4, <2>5, BitExact
  <2> QED BY <1>2, <1>4, <2>6 DEF Listed
<1>5. CASE ~IsPrefix(s)
  <2>1. ParseIpv4Cidr(s) = {}
    <3>1. SUFFICES ASSUME Len(s.octets) = 4, \A i \in Octets : s.octets[i] \in 0 .. 255,
                          s.prefix \in 0 .. 32
                   PROVE  IsPrefix(s)
      BY <1>5 DEF ParseIpv4Cidr
    <3>2. s.octets \in [Octets -> 0 .. 255]
      BY <1>2, <3>1 DEF Octets
    <3> QED BY <1>2, <3>1, <3>2 DEF IsPrefix
  <2>2. FromConfig(s) = PrivateLan
    BY <2>1 DEF FromConfig
  <2> QED BY <1>3, <1>5, <2>2, PrivateExact DEF Listed
<1> QED BY <1>4, <1>5

(* Where poll runs, the list of the build is in force. *)
AclInv ==
  /\ socket \in Seq(Datagrams)
  /\ acl_blocked_total \in Nat
  /\ cidr \in NTP_ACL_CIDRS
  /\ booted => acl = FromConfig(cidr)
  /\ polling => booted

(* What a step other than the handling of a datagram leaves alone. *)
Untaken == acl_blocked_total' = acl_blocked_total /\ ~(Len(socket') < Len(socket))

(* What a step of poll that handles a datagram says of the list. *)
LEMMA ReceivedAcl ==
  ASSUME AclInv, Received
  PROVE  /\ AclInv' <=> acl_blocked_total' \in Nat /\ (polling' => booted)
         /\ Len(socket') < Len(socket)
         /\ Src \in CLIENTS => (Allows(acl, Src) <=> Listed(cidr, Src))
<1>1. socket' \in Seq(Datagrams) /\ Len(socket') < Len(socket)
  BY DEF AclInv, Received
<1>2. UNCHANGED config /\ acl = FromConfig(cidr) /\ cidr \in NTP_ACL_CIDRS
  BY DEF AclInv, Received
<1>3. Src \in CLIENTS => (Allows(acl, Src) <=> Listed(cidr, Src))
  BY <1>2, AllowsListed
<1> QED BY <1>1, <1>2, <1>3 DEF AclInv, config

AclStep ==
  LET taken  == Len(socket') < Len(socket)
      listed == Src \in CLIENTS => Listed(cidr, Src)
  IN  /\ acl_blocked_total' # acl_blocked_total
           <=> taken /\ Kind # "empty" /\ ~listed
      /\ taken /\ ~listed
           => UNCHANGED <<limiterVars, served, rate_limited_total, failed>>

(* A step that handles no datagram says nothing of the list. *)
LEMMA UntakenAcl == ASSUME Untaken PROVE AclStep
BY DEF Untaken, AclStep

(* Every step keeps the list of the build in force and follows it. *)
LEMMA AclNext ==
  ASSUME AclInv, Next
  PROVE  AclInv' /\ AclStep
<1>1. ASSUME NEW d \in Datagrams, Arrive(d) PROVE AclInv' /\ Untaken
  <2>1. socket' \in Seq(Datagrams) /\ Len(socket') = Len(socket) + 1 /\ Len(socket) \in Nat
    BY <1>1 DEF Arrive, AclInv
  <2> QED BY <1>1, <2>1 DEF Arrive, AclInv, counters, config, Untaken
<1>2. ASSUME UNCHANGED <<socket, served, rate_limited_total, acl_blocked_total>>,
             UNCHANGED <<cidr, acl, booted>>, polling' => booted
      PROVE  AclInv' /\ Untaken
  <2>1. Len(socket) \in Nat
    BY DEF AclInv
  <2> QED BY <1>2, <2>1 DEF AclInv, Untaken
<1>3. CASE Tick
  BY <1>2, <1>3, UntakenAcl DEF Tick, AclInv, counters, config
<1>4. CASE ApplyBootAcl
  <2>1. Len(socket) \in Nat
    BY DEF AclInv
  <2>2. UNCHANGED <<cidr, socket, acl_blocked_total>> /\ acl' = FromConfig(cidr) /\ booted' = TRUE
    BY <1>4 DEF ApplyBootAcl, counters
  <2> QED BY <2>1, <2>2, UntakenAcl DEF AclInv, Untaken
<1>5. CASE PollStart \/ PollEnd \/ RecvFails
  BY <1>2, <1>5, UntakenAcl DEF PollStart, PollEnd, RecvFails, counters, config
<1>6. CASE AclBlocks
  <2>1. /\ Received /\ Kind # "empty" /\ Src \in CLIENTS /\ ~Allows(acl, Src)
        /\ acl_blocked_total' = acl_blocked_total + 1
        /\ UNCHANGED <<limiterVars, polling, served, rate_limited_total, failed>>
    BY <1>6 DEF AclBlocks, Allowed, aux
  <2>2. acl_blocked_total' \in Nat /\ acl_blocked_total' # acl_blocked_total
    BY <2>1 DEF AclInv
  <2> QED BY <2>1, <2>2, ReceivedAcl DEF AclInv, AclStep
<1>7. CASE Discards
  <2>1. /\ Received /\ (Kind = "empty" \/ Allowed)
        /\ UNCHANGED <<limiterVars, polling, served, rate_limited_total,
                       acl_blocked_total, failed>>
    BY <1>7 DEF Discards, counters
  <2> QED BY <2>1, ReceivedAcl DEF AclInv, AclStep, Allowed
<1>8. ASSUME Received, Allowed, acl_blocked_total' = acl_blocked_total, polling' => polling
      PROVE  AclInv' /\ AclStep
  BY <1>8, ReceivedAcl DEF AclInv, AclStep, Allowed
<1>9. CASE KissOfDeath \/ ControlLimited
  BY <1>8, <1>9 DEF KissOfDeath, ControlLimited
<1>10. CASE Answers \/ AnswerFails
  BY <1>8, <1>10 DEF Answers, AnswerFails, counters
<1> QED
  BY <1>1, <1>3, <1>4, <1>5, <1>6, <1>7, <1>9, <1>10, UntakenAcl DEF Next, Poll

(* Whatever is configured, whoever sends and whatever fails, poll blocks    *)
(* exactly what comes from outside the configured prefix, and what it       *)
(* blocks leaves no trace (apply_boot_acl, Acl::from_config, allows, poll). *)
THEOREM AclExactHolds == Spec => AclExact
<1>1. Init => AclInv
  BY DEF Init, AclInv
<1>2. AclInv /\ [Next]_vars => AclInv'
  <2>1. ASSUME AclInv, UNCHANGED vars PROVE AclInv'
    BY <2>1 DEF AclInv, vars, counters, config
  <2> QED BY <2>1, AclNext
<1>3. AclInv /\ [Next]_vars => [AclStep]_vars
  BY AclNext
<1>4. [][AclStep]_vars <=> AclExact
  BY DEF AclExact, AclStep
<1> QED BY <1>1, <1>2, <1>3, <1>4, PTL DEF Spec
=============================================================================
