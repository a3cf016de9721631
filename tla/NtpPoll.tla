------------------------------- MODULE NtpPoll -------------------------------
(***************************************************************************)
(* NtpServer::poll of src/src/ntp/mod.rs: every datagram waiting in the    *)
(* socket goes through the ACL, the mode dispatch and the rate limiter and *)
(* is answered, refused or discarded.  Datagrams arrive at any time, a     *)
(* send or a receive may fail, and the failure ends the poll with the rest *)
(* of the datagrams still in the socket.  What an answer says of the clock *)
(* is DisciplineParams of NtpDiscipline; here an answer is only its kind.  *)
(***************************************************************************)
EXTENDS RateLimiter, Acl

CONSTANTS
  V6_SOURCES,    \* IPv6 sources: neither listed nor limited
  NTP_ACL_CIDRS, \* prefixes a build may configure, their texts
  MAX_PACKETS,   \* bound: datagrams that arrive
  MAX_BACKLOG,   \* bound: datagrams that wait
  MAX_ERRORS     \* bound: failing sends and receives

ASSUME PollAssumption ==
  /\ V6_SOURCES \cap CLIENTS = {}
  /\ \A c \in CLIENTS : c \in [Octets -> 0 .. 255]
  /\ \A s \in NTP_ACL_CIDRS : s \in [octets : Seq(Int), prefix : Int]
  /\ MAX_PACKETS \in Nat /\ MAX_BACKLOG \in Nat /\ MAX_ERRORS \in Nat

(* What poll tells apart of a datagram: a time request of mode 3 or 1, a    *)
(* control request, an empty one, and what it discards after the ACL (too   *)
(* short, a control reply, the reply modes 2, 4, 5 and the reserved ones).  *)
KINDS == {"time", "control", "empty", "discard"}
ANSWERED == {"time", "control"}
Datagrams == [src : CLIENTS \cup V6_SOURCES, kind : KINDS]

VARIABLES
  cidr,               \* NTP_ACL_CIDR of this build: no step changes it
  acl,                \* the list in force
  booted,             \* Board::init is done, the main loop runs
  socket,             \* datagrams received by the stack, not by poll
  polling,            \* poll is in its loop
  served, rate_limited_total, acl_blocked_total,
  proc_delay_has_sample,
  arrived, errors,    \* how much of the bounds is used
  discarded, failed   \* auxiliary counts

counters == <<served, rate_limited_total, acl_blocked_total>>
aux      == <<arrived, errors, discarded, failed>>
config   == <<cidr, acl, booted>>
vars     == <<now, limiterVars, config, socket, polling, counters,
              proc_delay_has_sample, aux>>

Init ==
  /\ LimiterInit
  /\ cidr \in NTP_ACL_CIDRS /\ acl = AllowAll /\ booted = FALSE
  /\ socket = <<>> /\ polling = FALSE
  /\ served = 0 /\ rate_limited_total = 0 /\ acl_blocked_total = 0
  /\ proc_delay_has_sample = FALSE
  /\ arrived = 0 /\ errors = 0 /\ discarded = 0 /\ failed = 0

-----------------------------------------------------------------------------
(* The network and the clock. *)

Arrive(d) ==
  /\ arrived < MAX_PACKETS /\ arrived' = arrived + 1
  /\ Len(socket) < MAX_BACKLOG /\ socket' = Append(socket, d)
  /\ UNCHANGED <<now, limiterVars, config, polling, counters,
                 proc_delay_has_sample, errors, discarded, failed>>

Tick ==
  /\ LimiterTick
  /\ UNCHANGED <<config, socket, polling, counters, proc_delay_has_sample, aux>>

-----------------------------------------------------------------------------
(* The socket is bound before the list of the build is put in force; poll   *)
(* comes after both.                                                        *)
ApplyBootAcl ==
  /\ ~booted /\ booted' = TRUE
  /\ acl' = FromConfig(cidr)
  /\ UNCHANGED <<now, limiterVars, cidr, socket, polling, counters,
                 proc_delay_has_sample, aux>>

(* poll *)

PollStart ==
  /\ booted /\ ~polling /\ polling' = TRUE
  /\ UNCHANGED <<now, limiterVars, config, socket, counters,
                 proc_delay_has_sample, aux>>

(* Mutant: an earlier failure ends every later poll before its datagrams. *)
PollEndSticky ==
  /\ polling /\ (socket = <<>> \/ errors > 0) /\ polling' = FALSE
  /\ UNCHANGED <<now, limiterVars, config, socket, counters,
                 proc_delay_has_sample, aux>>

(* WouldBlock: Ok. *)
PollEnd ==
  /\ polling /\ socket = <<>> /\ polling' = FALSE
  /\ UNCHANGED <<now, limiterVars, config, socket, counters,
                 proc_delay_has_sample, aux>>

RecvFails ==
  /\ polling /\ polling' = FALSE
  /\ errors < MAX_ERRORS /\ errors' = errors + 1
  /\ UNCHANGED <<now, limiterVars, config, socket, counters,
                 proc_delay_has_sample, arrived, discarded, failed>>

(* The datagram poll works on; the clock stands still for the while. *)
Received ==
  /\ polling /\ socket # <<>>
  /\ socket' = Tail(socket)
  /\ UNCHANGED <<now, config>>
Src      == Head(socket).src
Kind     == Head(socket).kind
Allowed  == Src \in CLIENTS => Allows(acl, Src)  \* IPv6 is not matched

AclBlocks ==
  /\ Received /\ Kind # "empty" /\ ~Allowed
  /\ acl_blocked_total' = acl_blocked_total + 1
  /\ UNCHANGED <<limiterVars, polling, served, rate_limited_total,
                 proc_delay_has_sample, aux>>

Discards ==
  /\ Received /\ (Kind = "empty" \/ (Allowed /\ Kind = "discard"))
  /\ discarded' = discarded + 1
  /\ UNCHANGED <<limiterVars, polling, counters, proc_delay_has_sample,
                 arrived, errors, failed>>

(* try_rate_limit *)
Limited == Src \in CLIENTS /\ CheckLimited(Src)
Passed  == IF Src \in CLIENTS THEN CheckAccepted(Src) ELSE UNCHANGED limiterVars

(* A time request too early: a Kiss-o'-Death, and what its send returns is  *)
(* ignored.                                                                 *)
KissOfDeath ==
  /\ Received /\ Allowed /\ Kind = "time" /\ Limited
  /\ rate_limited_total' = rate_limited_total + 1
  /\ UNCHANGED <<polling, served, acl_blocked_total, proc_delay_has_sample, aux>>

(* A control request too early: dropped. *)
ControlLimited ==
  /\ Received /\ Allowed /\ Kind = "control" /\ Limited
  /\ rate_limited_total' = rate_limited_total + 1
  /\ UNCHANGED <<polling, served, acl_blocked_total, proc_delay_has_sample, aux>>

(* Mutant: a failed answer is counted as served. *)
AnswerFailsCounted ==
  /\ Received /\ Allowed /\ Kind \in ANSWERED /\ Passed
  /\ errors < MAX_ERRORS /\ errors' = errors + 1
  /\ polling' = FALSE
  /\ served' = served + 1 /\ failed' = failed + 1
  /\ UNCHANGED <<rate_limited_total, acl_blocked_total, proc_delay_has_sample,
                 arrived, discarded>>

Answers ==
  /\ Received /\ Allowed /\ Kind \in ANSWERED /\ Passed
  /\ served' = served + 1
  /\ proc_delay_has_sample' = TRUE
  /\ UNCHANGED <<polling, rate_limited_total, acl_blocked_total, aux>>

(* The send fails: poll returns Err. *)
AnswerFails ==
  /\ Received /\ Allowed /\ Kind \in ANSWERED /\ Passed
  /\ errors < MAX_ERRORS /\ errors' = errors + 1
  /\ polling' = FALSE
  /\ failed' = failed + 1
  /\ UNCHANGED <<counters, proc_delay_has_sample, arrived, discarded>>

Poll ==
  \/ PollStart \/ PollEnd \/ RecvFails
  \/ AclBlocks \/ Discards
  \/ KissOfDeath \/ ControlLimited
  \/ Answers \/ AnswerFails

Next == (\E d \in Datagrams : Arrive(d)) \/ Tick \/ ApplyBootAcl \/ Poll

(* The boot goes on, and the main loop calls poll on every pass, whatever   *)
(* the last call returned.                                                  *)
Spec == Init /\ [][Next]_vars /\ WF_vars(ApplyBootAcl) /\ WF_vars(Poll)

-----------------------------------------------------------------------------
(* Properties. *)

Handled == served + rate_limited_total + acl_blocked_total + discarded + failed

(* Every datagram is accounted for exactly once: it waits in the socket, or *)
(* it was answered, limited, blocked, discarded, or its answer failed, also *)
(* across polls that a failing send or receive cut short (poll).            *)
AllAccounted == arrived = Handled + Len(socket)

(* No datagram starves: a failing send or receive ends a poll, and the next *)
(* pass of the main loop takes up the rest.                                 *)
AllHandled == \A n \in 1 .. MAX_PACKETS : arrived >= n ~> Handled >= n

(* Poll blocks what it takes from the socket exactly when its IPv4 source   *)
(* is outside the configured prefix, from /0 to /32 and with host bits set, *)
(* or outside the private ranges when none is configured, also when it came *)
(* before the list was put in force; and it is neither answered nor leaves  *)
(* a trace in the limiter (apply_boot_acl, Acl::from_config, allows, poll). *)
AclExact ==
  [][LET taken  == Len(socket') < Len(socket)
         listed == Src \in CLIENTS => Listed(cidr, Src)
     IN  /\ acl_blocked_total' # acl_blocked_total
              <=> taken /\ Kind # "empty" /\ ~listed
         /\ taken /\ ~listed
              => UNCHANGED <<limiterVars, served, rate_limited_total, failed>>]_vars

=============================================================================
