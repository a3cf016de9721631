----------------------------- MODULE RateLimiter -----------------------------
(***************************************************************************)
(* The per-client rate limiter of src/src/ntp/protection.rs: a table of    *)
(* RATE_TABLE_SIZE slots with the time of each client's last accepted      *)
(* request; when it is full the oldest entry makes room for a new client.  *)
(***************************************************************************)
EXTENDS Integers

CONSTANTS
  NONE,              \* Option::None
  CLIENTS,           \* IPv4 sources
  RATE_TABLE_SIZE,   \* slots, 32 in the code
  MIN_POLL_INTERVAL, \* 2 s in the code
  MAX_TIME           \* bound: the clock stops here

Records == [addr : CLIENTS, last_us : Nat]

ASSUME LimiterAssumption ==
  /\ RATE_TABLE_SIZE \in Nat \ {0}
  /\ MIN_POLL_INTERVAL \in Nat /\ MAX_TIME \in Nat
  /\ NONE \notin Nat /\ NONE \notin Records

VARIABLES
  now,         \* monotonic_us_now()
  table,       \* the slots
  accepted_at  \* auxiliary: when each client was last accepted, or NONE

limiterVars == <<table, accepted_at>>

Slots == 1 .. RATE_TABLE_SIZE

LimiterInit ==
  /\ now = 0
  /\ table = [i \in Slots |-> NONE]
  /\ accepted_at = [c \in CLIENTS |-> NONE]

-----------------------------------------------------------------------------
(* check *)

Free        == {i \in Slots : table[i] = NONE}
EntriesOf(addr) == {i \in Slots \ Free : table[i].addr = addr}
Oldest      == {i \in Slots : \A j \in Slots : table[i].last_us <= table[j].last_us}
IsFirst(i, S) == i \in S /\ \A j \in S : i <= j

(* Mutant: the newest entry makes room. *)
VictimNewest(i) ==
  IF Free # {} THEN IsFirst(i, Free)
  ELSE IsFirst(i, {k \in Slots : \A j \in Slots : table[k].last_us >= table[j].last_us})

(* The slot for a new client. *)
Victim(i) == IF Free # {} THEN IsFirst(i, Free) ELSE IsFirst(i, Oldest)

(* Mutant: a limited request starts the interval again. *)
CheckLimitedRestarts(addr) ==
  \E i \in Slots :
    /\ IsFirst(i, EntriesOf(addr))
    /\ now - table[i].last_us < MIN_POLL_INTERVAL
    /\ table' = [table EXCEPT ![i].last_us = now]
    /\ UNCHANGED accepted_at

(* Too fast: false, and the entry keeps its time. *)
CheckLimited(addr) ==
  \E i \in Slots :
    /\ IsFirst(i, EntriesOf(addr))
    /\ now - table[i].last_us < MIN_POLL_INTERVAL
    /\ UNCHANGED limiterVars

(* A known client, slow enough. *)
CheckKnown(addr) ==
  \E i \in Slots :
    /\ IsFirst(i, EntriesOf(addr))
    /\ ~(now - table[i].last_us < MIN_POLL_INTERVAL)
    /\ table' = [table EXCEPT ![i].last_us = now]
    /\ accepted_at' = [accepted_at EXCEPT ![addr] = now]

(* A client not in the table. *)
CheckNew(addr) ==
  /\ EntriesOf(addr) = {}
  /\ \E i \in Slots :
       /\ Victim(i)
       /\ table' = [table EXCEPT ![i] = [addr |-> addr, last_us |-> now]]
  /\ accepted_at' = [accepted_at EXCEPT ![addr] = now]

CheckAccepted(addr) == CheckKnown(addr) \/ CheckNew(addr)

-----------------------------------------------------------------------------
(* The limiter on its own: any client may ask at any time. *)

LimiterTick == now < MAX_TIME /\ now' = now + 1 /\ UNCHANGED limiterVars

LimiterNext ==
  \/ LimiterTick
  \/ \E addr \in CLIENTS : UNCHANGED now /\ CheckLimited(addr)
  \/ \E addr \in CLIENTS : UNCHANGED now /\ CheckAccepted(addr)

LimiterSpec == LimiterInit /\ [][LimiterNext]_<<now, limiterVars>>

-----------------------------------------------------------------------------
(* Properties. *)

(* Type invariant. *)
LimiterTypeOK ==
  /\ now \in Nat
  /\ table \in [Slots -> Records \cup {NONE}]
  /\ accepted_at \in [CLIENTS -> Nat \cup {NONE}]

(* The table tells the truth: one entry per client, with the time of its    *)
(* last accepted request, and no time in the future.                        *)
TableExact ==
  /\ \A i \in Slots : table[i] # NONE =>
       accepted_at[table[i].addr] = table[i].last_us
  /\ \A i, j \in Slots :
       table[i] # NONE /\ table[j] # NONE /\ table[i].addr = table[j].addr
         => i = j
  /\ \A c \in CLIENTS : accepted_at[c] # NONE => accepted_at[c] <= now

(* Only crowding forgets a client: one that was accepted and is no longer   *)
(* in the table has been displaced by RATE_TABLE_SIZE clients each accepted *)
(* no earlier than it (the eviction of check).                              *)
ForgottenOnlyWhenCrowded ==
  \A c \in CLIENTS :
    accepted_at[c] # NONE /\ (\A i \in Slots : table[i] = NONE \/ table[i].addr # c)
      => \A i \in Slots : table[i] # NONE /\ table[i].last_us >= accepted_at[c]

(* A client accepted twice within the interval was displaced: at its second *)
(* request every slot held another client accepted within the same time.    *)
SpacingUnlessCrowded ==
  [][\A c \in CLIENTS :
       (accepted_at[c] # NONE /\ accepted_at'[c] # accepted_at[c]
          /\ now - accepted_at[c] < MIN_POLL_INTERVAL)
       => \A i \in Slots :
            /\ table[i] # NONE
            /\ table[i].addr # c
            /\ table[i].last_us >= accepted_at[c]]_<<now, limiterVars>>
=============================================================================
