------------------------ MODULE TimezoneLookup_proofs ------------------------
(***************************************************************************)
(* Proofs about TimezoneLookup, for every set of zones and reports, every  *)
(* interval and any number of restarts: at most one lookup is out, the     *)
(* zone in force is the one the next boot finds, noise does not pile up in *)
(* the line buffer and is gone with the next newline, and a fix reported   *)
(* lost is given up.                                                       *)
(***************************************************************************)
EXTENDS TimezoneLookup, TLAPS, FiniteSetTheorems, SequenceTheorems, WellFoundedInduction

MaybeZone == ZONES \cup {NoZone}

(***************************************************************************)
(* One lookup.                                                             *)
(***************************************************************************)

\* OneLookup spelled out over the three places a lookup can be in; the worker
\* has coordinates exactly while it is at work.
LookupInv ==
    /\ request \in MaybeZone /\ job \in MaybeZone
    /\ result \in MaybeZone \cup Failures
    /\ worker = "idle" <=> job = NoZone
    /\ pending <=> (request # NoZone \/ worker # "idle" \/ result # NoZone)
    /\ request = NoZone \/ worker = "idle"
    /\ request = NoZone \/ result = NoZone
    /\ worker = "idle" \/ result = NoZone
    /\ pending \in BOOLEAN

\* What the channels and the worker hold decides LookupInv.
LEMMA LookupFrame ==
    ASSUME LookupInv, UNCHANGED <<pending, request, job, worker, result>>
    PROVE  LookupInv'
BY DEF LookupInv

\* A request leaves the loop only when none is out (try_request).
LEMMA ScheduleOne ==
    ASSUME LookupInv, NEW fixed, Schedule(fixed), UNCHANGED <<job, worker, result>>
    PROVE  LookupInv'
<1>1. CASE fixed /\ MayLookUp
  <2>1. ~pending /\ request' = HERE /\ pending'
    BY <1>1 DEF Schedule, MayLookUp
  <2> QED BY <2>1, GpsAssumption, LookupAssumption DEF LookupInv, MaybeZone
<1>2. CASE ~(fixed /\ MayLookUp)
  BY <1>2 DEF Schedule, LookupInv
<1> QED BY <1>1, <1>2

\* The worker's answer takes the place of its request (the worker thread).
LEMMA SendsOne ==
    ASSUME LookupInv, worker # "idle", NEW r \in ZONES \cup Failures, WorkerSends(r)
    PROVE  LookupInv'
<1>1. r # NoZone /\ r \in MaybeZone \cup Failures
  BY GpsAssumption, LookupAssumption DEF MaybeZone
<1>2. /\ worker' = "idle" /\ job' = NoZone /\ result' = r
      /\ UNCHANGED <<pending, request>>
  BY DEF WorkerSends, loopVars
<1> QED BY <1>1, <1>2 DEF LookupInv, MaybeZone

\* Every step keeps the lookup in one place.
LEMMA LookupStep ==
    ASSUME LookupInv, [Next]_vars
    PROVE  LookupInv'
<1>1. CASE GpsRead
  <2>1. PICK chunk \in Chunks : Schedule(Scan(chunk).fixed)
    BY <1>1 DEF GpsRead
  <2> QED BY <1>1, <2>1, ScheduleOne DEF GpsRead
<1>2. CASE NoisyRead
  <2>1. UNCHANGED <<job, worker, result>>
    BY <1>2 DEF NoisyRead
  <2>2. UNCHANGED <<request, pending>> \/ \E fixed : Schedule(fixed)
    BY <1>2 DEF NoisyRead
  <2> QED BY <2>1, <2>2, ScheduleOne, LookupFrame
<1>3. CASE Fetch
  <2>1. CASE WorkerTakes
    <3>1. /\ job' = request /\ request' = NoZone /\ worker' = "meteo"
          /\ worker = "idle" /\ request # NoZone /\ UNCHANGED <<pending, result>>
      BY <2>1 DEF WorkerTakes, loopVars
    <3> QED BY <3>1 DEF LookupInv, MaybeZone
  <2>2. CASE MeteoNamesNone
    <3>1. /\ worker = "meteo" /\ worker' = "geonames"
          /\ UNCHANGED <<pending, request, job, result>>
      BY <2>2 DEF MeteoNamesNone, loopVars
    <3> QED BY <3>1 DEF LookupInv
  <2>3. CASE MeteoAnswers \/ GeonamesAnswers \/ AnswersInvalid \/ FetchFails
    <3>1. worker # "idle"
      BY <2>3 DEF MeteoAnswers, GeonamesAnswers, AnswersInvalid, FetchFails
    <3>2. \E r \in {job} \cup Failures : WorkerSends(r)
      BY <2>3 DEF MeteoAnswers, GeonamesAnswers, AnswersInvalid, FetchFails, Failures
    <3>3. job \in ZONES
      BY <3>1 DEF LookupInv, MaybeZone
    <3> QED BY <3>1, <3>2, <3>3, SendsOne
  <2> QED BY <1>3, <2>1, <2>2, <2>3 DEF Fetch
<1>4. CASE Apply
  <2>1. CASE ResultFails \/ ResultNamesZone
    <3>1. ~pending' /\ result' = NoZone /\ result # NoZone /\ pending' \in BOOLEAN
      BY <2>1, GpsAssumption, LookupAssumption DEF ResultFails, ResultNamesZone, LookupEnds
    <3>2. UNCHANGED <<request, job, worker>>
      BY <2>1 DEF ResultFails, ResultNamesZone
    <3> QED BY <3>1, <3>2 DEF LookupInv, MaybeZone
  <2>2. ASSUME NEW ok \in BOOLEAN, PersistNvs(ok) \/ PersistSd(ok) PROVE LookupInv'
    BY <2>2, LookupFrame DEF PersistNvs, PersistSd, loopVars, workerVars
  <2> QED BY <1>4, <2>1, <2>2 DEF Apply
<1>5. ASSUME NEW erase, NEW store, NEW card, Restart(erase, store, card)
      PROVE  LookupInv'
  BY <1>5 DEF Restart, LookupInv, MaybeZone
<1>6. CASE Tick \/ Turns \/ UNCHANGED vars
  BY <1>6, LookupFrame DEF Tick, Turns, vars, loopVars, workerVars
<1> QED BY <1>1, <1>2, <1>3, <1>4, <1>5, <1>6 DEF Next

\* pending says exactly whether a lookup is out, and there is one at most,
\* whatever the network, the fixes and the restarts do (TimezoneWorker).
THEOREM OneLookupHolds == Spec => []OneLookup
<1>1. Init => LookupInv
  BY DEF Init, LookupInv, MaybeZone
<1>2. LookupInv /\ [Next]_vars => LookupInv'
  BY LookupStep
<1>3. LookupInv => OneLookup
  BY DEF LookupInv, OneLookup
<1> QED BY <1>1, <1>2, <1>3, PTL DEF Spec

(***************************************************************************)
(* The zone that is stored.                                                *)
(***************************************************************************)

\* While the zone is being stored it is the one in force, and what persist_cached
\* has done so far shows in NVS.
KeptInv ==
    /\ {zone, current, nvs} \subseteq MaybeZone /\ saved \in BOOLEAN
    /\ persist \in {"no", "nvs", "sd"}
    /\ persist # "no" => zone = current
    /\ persist = "nvs" => ~saved
    /\ persist = "sd" /\ saved => nvs = current
    /\ ZoneIsKept

\* The zone, the copies and the step of persist_cached decide KeptInv.
LEMMA KeptFrame ==
    ASSUME KeptInv, UNCHANGED <<zone, current, cacheVars>>
    PROVE  KeptInv'
BY DEF KeptInv, ZoneIsKept, cacheVars

\* A zone other than the one in force is stored before the loop goes on, the
\* same zone is stored already (apply_timezone_lookup_result).
LEMMA ResultKept ==
    ASSUME KeptInv, ResultNamesZone
    PROVE  KeptInv'
<1>1. /\ persist = "no" /\ result \in ZONES /\ zone' = result /\ current' = result
      /\ UNCHANGED <<nvs, sd>>
  BY DEF ResultNamesZone
<1>2. CASE ZoneChanged
  <2>1. persist' = "nvs" /\ saved' = FALSE
    BY <1>2 DEF ResultNamesZone
  <2> QED BY <1>1, <2>1 DEF KeptInv, ZoneIsKept, MaybeZone
<1>3. CASE ~ZoneChanged
  <2>1. current' = current /\ UNCHANGED <<persist, saved>>
    BY <1>1, <1>3 DEF ResultNamesZone, ZoneChanged
  <2> QED BY <1>1, <2>1 DEF KeptInv, ZoneIsKept, MaybeZone
<1> QED BY <1>2, <1>3

\* TimezoneStore::save
LEMMA NvsKept ==
    ASSUME KeptInv, NEW ok \in BOOLEAN, PersistNvs(ok)
    PROVE  KeptInv'
<1>1. /\ persist = "nvs" /\ persist' = "sd" /\ saved' = ok
      /\ nvs' = IF ok THEN zone ELSE nvs
      /\ UNCHANGED <<zone, current, sd>>
  BY DEF PersistNvs, gpsVars, loopVars
<1> QED BY <1>1 DEF KeptInv, ZoneIsKept

\* save_cached_sd
LEMMA SdKept ==
    ASSUME KeptInv, NEW ok \in BOOLEAN, PersistSd(ok)
    PROVE  KeptInv'
<1>1. /\ persist = "sd" /\ persist' = "no" /\ saved' = (saved \/ ok)
      /\ sd' \in IF ok THEN {zone} ELSE {sd, Empty}
      /\ UNCHANGED <<zone, current, nvs>>
  BY DEF PersistSd, loopVars
<1>2. saved' \in BOOLEAN
  BY <1>1 DEF KeptInv
<1>3. CASE ok
  BY <1>1, <1>2, <1>3 DEF KeptInv, ZoneIsKept
<1>4. CASE ~ok
  BY <1>1, <1>2, <1>4 DEF KeptInv, ZoneIsKept
<1> QED BY <1>3, <1>4

\* What a boot finds is one of the copies (load_timezone_boot).
LEMMA BootKept ==
    ASSUME KeptInv, NEW erase \in BOOLEAN, NEW store \in BOOLEAN, NEW card \in BOOLEAN,
           Restart(erase, store, card)
    PROVE  KeptInv'
<1>1. nvs' \in {NoZone, nvs, zone}
  BY DEF Restart
<1>2. current' = Cached(store, card)
  BY DEF Restart
<1>3. zone' = current' /\ persist' = "no" /\ saved' = TRUE
  BY DEF Restart, GpsBoot
<1>4. nvs' \in MaybeZone
  BY <1>1 DEF KeptInv, MaybeZone
<1>5. current' \in MaybeZone
  BY <1>2, <1>4 DEF Cached, MaybeZone
<1>6. current' # NoZone => nvs' = current' \/ sd' = current'
  BY <1>2 DEF Cached
<1> QED BY <1>3, <1>4, <1>5, <1>6 DEF KeptInv, ZoneIsKept

\* Every step keeps a copy of the zone in force.
LEMMA KeptStep ==
    ASSUME KeptInv, [Next]_vars
    PROVE  KeptInv'
<1>1. CASE GpsRead
  BY <1>1, KeptFrame DEF GpsRead, Poll
<1>2. CASE NoisyRead
  BY <1>2, KeptFrame DEF NoisyRead, Poll, PollDropped
<1>3. CASE Fetch
  BY <1>3, KeptFrame DEF Fetch, WorkerTakes, WorkerSends, MeteoAnswers, MeteoNamesNone,
     GeonamesAnswers, AnswersInvalid, FetchFails, gpsVars, loopVars
<1>4. CASE Apply
  <2>1. CASE ResultFails
    BY <2>1, KeptFrame DEF ResultFails
  <2> QED BY <1>4, <2>1, ResultKept, NvsKept, SdKept DEF Apply
<1>5. CASE \E erase, store, card \in BOOLEAN : Restart(erase, store, card)
  BY <1>5, BootKept
<1>6. CASE Tick \/ Turns \/ UNCHANGED vars
  BY <1>6, KeptFrame DEF Tick, Turns, ReceiverTurns, vars, gpsVars, loopVars
<1> QED BY <1>1, <1>2, <1>3, <1>4, <1>5, <1>6 DEF Next

\* What the first boot finds is one of the copies.
LEMMA InitKept ==
    ASSUME Init
    PROVE  KeptInv
<1>1. /\ nvs \in MaybeZone /\ sd \in MaybeZone
      /\ current = IF nvs # NoZone THEN nvs ELSE sd
      /\ zone = current /\ persist = "no" /\ saved = TRUE
  BY LookupAssumption DEF Init, GpsInit, MaybeZone
<1> QED BY <1>1 DEF KeptInv, ZoneIsKept

\* The zone in force has a copy to boot from, unless neither copy could be
\* written, at whatever step the program restarts (persist_cached).
THEOREM ZoneIsKeptHolds == Spec => []ZoneIsKept
<1>1. KeptInv => ZoneIsKept
  BY DEF KeptInv
<1> QED BY <1>1, InitKept, KeptStep, PTL DEF Spec

\* A restart with both copies at hand comes back with the zone it had, unless
\* an older one in NVS stands before it (load_timezone_boot).
THEOREM RestartKeepsZoneHolds == Spec => RestartKeepsZone
<1> DEFINE Comes ==
      Restart(FALSE, TRUE, TRUE) /\ persist = "no" /\ current # NoZone /\ saved
        => current' = current \/ nvs \notin {current, NoZone}
<1>1. KeptInv => Comes
  <2> SUFFICES ASSUME KeptInv, Restart(FALSE, TRUE, TRUE), persist = "no",
                      current # NoZone, saved, nvs \in {current, NoZone}
               PROVE  current' = current
    OBVIOUS
  <2>1. nvs' = nvs /\ sd' = sd
    BY DEF Restart
  <2>2. current' = Cached(TRUE, TRUE)
    BY DEF Restart
  <2>3. current \in ZONES /\ (nvs = current \/ sd = current)
    BY DEF KeptInv, ZoneIsKept, MaybeZone
  <2> QED BY <2>1, <2>2, <2>3, GpsAssumption DEF Cached
<1>2. KeptInv => [Comes]_vars
  BY <1>1
<1> QED BY <1>2, InitKept, KeptStep, PTL DEF Spec, RestartKeepsZone

(***************************************************************************)
(* The line buffer.  The scan of a chunk is a fold over its pieces; the    *)
(* lemmas up to ScanSteps turn it into a state per piece.                  *)
(***************************************************************************)

\* Induction over the set of numbers a fact has been shown for.
LEMMA Induction ==
  ASSUME NEW S, 0 \in S, \A n \in Nat : n \in S => n + 1 \in S
  PROVE  \A n \in Nat : n \in S
<1> DEFINE T == Nat \ S
<1> SUFFICES ASSUME T # {} PROVE FALSE
  OBVIOUS
<1>1. \E x \in T : \A y \in T : ~(<<y, x>> \in OpToRel(<, Nat))
  BY NatLessThanWellFounded, WFMin, T \subseteq Nat
<1>2. PICK x \in T : \A y \in T : ~(<<y, x>> \in OpToRel(<, Nat))
  BY <1>1
<1>3. x \in Nat /\ x \notin S
  OBVIOUS
<1>4. x # 0
  BY <1>3
<1>5. x - 1 \in Nat /\ x - 1 < x /\ (x - 1) + 1 = x
  BY <1>3, <1>4
<1>6. <<x - 1, x>> \in OpToRel(<, Nat)
  BY <1>3, <1>5 DEF OpToRel
<1>7. x - 1 \in S
  BY <1>2, <1>5, <1>6
<1>8. (x - 1) + 1 \in S
  BY <1>5, <1>7
<1> QED BY <1>3, <1>5, <1>8

\* The largest index of a set that holds the last one.
LEMMA MaxTop ==
  ASSUME NEW n \in Nat \ {0}, NEW s \in SUBSET (1 .. n), n \in s
  PROVE  Max(s) = n
<1>1. n \in s /\ \A y \in s : n >= y
  OBVIOUS
<1>2. \A x \in s : (\A y \in s : x >= y) => x = n
  OBVIOUS
<1> QED BY <1>1, <1>2, Zenon DEF Max

\* A fold is defined by a function over sets of indices; this is its value at
\* one of them.
Folded(f, base, c, s) == IF s = {} THEN base ELSE Push(f[s \ {Max(s)}], c[Max(s)])

\* f is that function, for the indices D.
IsFold(f, base, c, D) == f = [s \in SUBSET D |-> Folded(f, base, c, s)]

\* One piece more.
LEMMA FoldGrows ==
  ASSUME NEW base, NEW c, NEW n \in Nat,
         NEW f, IsFold(f, base, c, 1 .. n)
  PROVE  \E g : IsFold(g, base, c, 1 .. n + 1)
<1> DEFINE g == [s \in SUBSET (1 .. n + 1) |->
                   IF n + 1 \in s THEN Push(f[s \ {n + 1}], c[n + 1]) ELSE f[s]]
<1>1. ASSUME NEW s \in SUBSET (1 .. n + 1) PROVE g[s] = Folded(g, base, c, s)
  <2>1. CASE n + 1 \in s
    <3>1. Max(s) = n + 1
      BY <2>1, MaxTop
    <3>2. s \ {n + 1} \in SUBSET (1 .. n + 1)
      OBVIOUS
    <3>3. g[s \ {n + 1}] = f[s \ {n + 1}]
      BY <3>2
    <3>4. g[s] = Push(f[s \ {n + 1}], c[n + 1])
      BY <2>1
    <3> HIDE DEF g
    <3> QED BY <2>1, <3>1, <3>3, <3>4 DEF Folded
  <2>2. CASE n + 1 \notin s
    <3>1. s \in SUBSET (1 .. n)
      BY <2>2
    <3>2. g[s] = f[s]
      BY <2>2
    <3>3. f[s] = Folded(f, base, c, s)
      BY <3>1 DEF IsFold
    <3>4. s \ {Max(s)} \in SUBSET (1 .. n + 1) /\ n + 1 \notin s \ {Max(s)}
      BY <2>2
    <3>5. g[s \ {Max(s)}] = f[s \ {Max(s)}]
      BY <3>4
    <3> HIDE DEF g
    <3> QED BY <3>2, <3>3, <3>5 DEF Folded
  <2> QED BY <2>1, <2>2
<1>2. g = [s \in SUBSET (1 .. n + 1) |-> g[s]]
  OBVIOUS
<1> HIDE DEF g
<1>3. IsFold(g, base, c, 1 .. n + 1)
  BY <1>1, <1>2 DEF IsFold
<1> QED BY <1>3

\* There is such a function for any number of pieces.
LEMMA FoldExists ==
  ASSUME NEW base, NEW c, NEW n \in Nat
  PROVE  \E f : IsFold(f, base, c, 1 .. n)
<1> DEFINE S == {k \in Nat : \E f : IsFold(f, base, c, 1 .. k)}
<1>1. 0 \in S
  <2> DEFINE f == [s \in SUBSET (1 .. 0) |-> base]
  <2>1. SUBSET (1 .. 0) = {{}}
    OBVIOUS
  <2>2. \A s \in SUBSET (1 .. 0) : Folded(f, base, c, s) = base
    BY <2>1 DEF Folded
  <2>3. IsFold(f, base, c, 1 .. 0)
    BY <2>2 DEF IsFold
  <2> QED BY <2>3
<1>2. \A k \in Nat : k \in S => k + 1 \in S
  <2> SUFFICES ASSUME NEW k \in Nat, k \in S PROVE k + 1 \in S
    OBVIOUS
  <2>1. PICK f : IsFold(f, base, c, 1 .. k)
    OBVIOUS
  <2>2. \E g : IsFold(g, base, c, 1 .. k + 1)
    BY <2>1, FoldGrows, Zenon
  <2> QED BY <2>2
<1> QED
  <2> HIDE DEF S
  <2>1. n \in S
    BY <1>1, <1>2, Induction
  <2> QED BY <2>1 DEF S

\* A scan goes through one state per piece, whatever the length of the chunk
\* (the loop over the lines of a chunk in GpsUart::poll).
LEMMA ScanSteps ==
  ASSUME NEW c, NEW n \in Nat, DOMAIN c = 1 .. n
  PROVE  \E st : /\ st[0] = Unread
                 /\ \A k \in 1 .. n : st[k] = Push(st[k - 1], c[k])
                 /\ Scan(c) = st[n]
<1> DEFINE base == Unread
           f == CHOOSE g : IsFold(g, base, c, DOMAIN c)
           st == [k \in 0 .. n |-> f[1 .. k]]
<1>1. Scan(c) = f[DOMAIN c]
  BY DEF Scan, FoldLeft, MapThenFoldSet, IsFold, Folded
<1>2. IsFold(f, base, c, 1 .. n)
  <2>1. \E g : IsFold(g, base, c, DOMAIN c)
    BY FoldExists, Zenon
  <2>2. IsFold(f, base, c, DOMAIN c)
    BY <2>1, Zenon
  <2> QED BY <2>2
<1> HIDE DEF f
<1>3. st[0] = base
  <2>1. 1 .. 0 = {} /\ {} \in SUBSET (1 .. n)
    OBVIOUS
  <2>2. f[{}] = Folded(f, base, c, {})
    BY <1>2, <2>1 DEF IsFold
  <2> QED BY <2>1, <2>2 DEF Folded
<1>4. ASSUME NEW k \in 1 .. n PROVE st[k] = Push(st[k - 1], c[k])
  <2>1. 1 .. k \in SUBSET (1 .. n) /\ 1 .. k # {} /\ (1 .. k) \ {k} = 1 .. k - 1
    OBVIOUS
  <2>2. Max(1 .. k) = k
    BY MaxTop
  <2>3. f[1 .. k] = Folded(f, base, c, 1 .. k)
    BY <1>2, <2>1 DEF IsFold
  <2>4. f[1 .. k] = Push(f[1 .. k - 1], c[k])
    BY <2>1, <2>2, <2>3 DEF Folded
  <2>5. st[k] = f[1 .. k] /\ st[k - 1] = f[1 .. k - 1]
    OBVIOUS
  <2> HIDE DEF st
  <2> QED BY <2>4, <2>5
<1>5. Scan(c) = st[n]
  BY <1>1
<1> HIDE DEF st
<1> QED BY <1>3, <1>4, <1>5

\* What an entry of line_buf can be.
Texts == REPORTS \cup {"junk"}

\* 1 while the rest of a sentence is still to come.
Open(p) == IF p.end THEN 0 ELSE 1

\* The buffer is within its bound in the scan's state st.
Within(st, open) ==
  /\ DOMAIN st = {"line", "lost", "snap", "fixed"}
  /\ st.line \in Seq(Texts) /\ st.lost \in Nat
  /\ Len(st.line) <= 2 * st.lost + open

\* What the bound needs to know of a piece.
IsPiece(p) ==
  /\ p.nl \in BOOLEAN /\ p.end \in BOOLEAN
  /\ p.text = "start" => p.of \in REPORTS

\* Remains are as long as what they remain of.
LEMMA BrokenLen ==
  ASSUME NEW n \in Nat, NEW line, DOMAIN line = 1 .. n
  PROVE  Broken(line) \in Seq(Texts) /\ Len(Broken(line)) = n
<1>1. Broken(line) \in [1 .. n -> Texts]
  BY DEF Broken, Texts
<1>2. Broken(line) \in Seq(Texts)
  BY <1>1
<1> QED BY <1>1, <1>2

\* A piece lengthens the buffer by one, or a newline empties it; with the end
\* of a sentence its newline came through or was lost (GpsUart::poll).
LEMMA PushWithin ==
  ASSUME NEW st, NEW open \in {0, 1}, Within(st, open),
         NEW p, IsPiece(p), p.end \/ open = 0
  PROVE  Within(Push(st, p), Open(p))
<1> DEFINE S == SentenceOf(st.line, p)
           next == IF p.text = "start" /\ st.line = <<>> THEN <<p.of>>
                   ELSE Broken(Append(st.line, p.text))
<1>1. /\ DOMAIN st = {"line", "lost", "snap", "fixed"}
      /\ st.line \in Seq(Texts) /\ st.lost \in Nat
      /\ Len(st.line) <= 2 * st.lost + open
  BY DEF Within
<1>2. CASE ~p.nl
  <2>1. Push(st, p) = [st EXCEPT !.line = next, !.lost = IF p.end THEN @ + 1 ELSE @]
    BY <1>2 DEF Push
  <2>2. /\ DOMAIN Push(st, p) = {"line", "lost", "snap", "fixed"}
        /\ Push(st, p).line = next
        /\ Push(st, p).lost = IF p.end THEN st.lost + 1 ELSE st.lost
    <3> HIDE DEF next
    <3> QED BY <1>1, <2>1
  <2>3. next \in Seq(Texts) /\ Len(next) = Len(st.line) + 1
    <3>1. CASE p.text = "start" /\ st.line = <<>>
      BY <3>1 DEF IsPiece, Texts
    <3>2. CASE ~(p.text = "start" /\ st.line = <<>>)
      <4>1. DOMAIN Append(st.line, p.text) = 1 .. Len(st.line) + 1 /\ Len(st.line) + 1 \in Nat
        <5>1. st.line \in Seq(Texts \cup {p.text})
          BY <1>1
        <5> QED BY <5>1, AppendProperties
      <4>2. next = Broken(Append(st.line, p.text))
        BY <3>2
      <4> HIDE DEF next
      <4> QED BY <4>1, <4>2, BrokenLen
    <3> QED BY <3>1, <3>2
  <2> HIDE DEF next
  <2>4. CASE p.end
    BY <1>1, <2>2, <2>3, <2>4 DEF Within, Open
  <2>5. CASE ~p.end
    BY <1>1, <2>2, <2>3, <2>5 DEF Within, Open
  <2> QED BY <2>4, <2>5
<1>3. CASE p.nl
  <2>1. /\ DOMAIN Push(st, p) = {"line", "lost", "snap", "fixed"}
        /\ Push(st, p).line = <<>> /\ Push(st, p).lost = 0
    BY <1>3 DEF Push
  <2>2. <<>> \in Seq(Texts) /\ Len(<<>>) = 0 /\ Open(p) \in {0, 1}
    BY DEF Open
  <2> QED BY <2>1, <2>2 DEF Within
<1> QED BY <1>2, <1>3 DEF IsPiece

\* 1 while the start of a sentence has been read and its rest has not.
InTransit == IF transit = "none" THEN 0 ELSE 1

\* A start comes only where the sentence before it has come to its end.
WellCut(c) ==
  /\ Len(c) \in Nat \ {0} /\ DOMAIN c = 1 .. Len(c)
  /\ \A i \in DOMAIN c :
       /\ IsPiece(c[i])
       /\ c[i].end \/ IF i = 1 THEN transit = "none" ELSE c[i - 1].end

\* line_buf holds at most two pieces for every newline lost, and the start of the
\* sentence in transit.
LineInv ==
  /\ receiver \in REPORTS /\ transit \in REPORTS \cup {"none"}
  /\ Within(Unread, InTransit)

\* The bound holds after every piece of a chunk, thus after the chunk.
LEMMA ScanWithin ==
  ASSUME LineInv, NEW c, WellCut(c)
  PROVE  Within(Scan(c), Open(c[Len(c)]))
<1> DEFINE n == Len(c)
           open(k) == IF k = 0 THEN InTransit ELSE Open(c[k])
<1>1. n \in Nat \ {0} /\ DOMAIN c = 1 .. n
  BY DEF WellCut
<1> HIDE DEF n
<1>2. PICK st : /\ st[0] = Unread
                /\ \A k \in 1 .. n : st[k] = Push(st[k - 1], c[k])
                /\ Scan(c) = st[n]
  BY <1>1, ScanSteps
<1> DEFINE S == {k \in Nat : k <= n => Within(st[k], open(k))}
<1>3. 0 \in S
  BY <1>2 DEF LineInv
<1>4. ASSUME NEW k \in Nat, k \in S PROVE k + 1 \in S
  <2> SUFFICES ASSUME k + 1 <= n PROVE Within(st[k + 1], open(k + 1))
    OBVIOUS
  <2>1. k + 1 \in 1 .. n /\ (k + 1) - 1 = k /\ k + 1 # 0
    BY <1>1
  <2>2. Within(st[k], open(k))
    BY <1>1, <1>4
  <2>3. /\ IsPiece(c[k + 1])
        /\ c[k + 1].end \/ IF k = 0 THEN transit = "none" ELSE c[k].end
    BY <1>1, <2>1 DEF WellCut
  <2>4. open(k) \in {0, 1} /\ (c[k + 1].end \/ open(k) = 0)
    BY <2>3 DEF InTransit, Open
  <2>5. st[k + 1] = Push(st[k], c[k + 1])
    BY <1>2, <2>1
  <2>6. Within(Push(st[k], c[k + 1]), Open(c[k + 1]))
    <3> HIDE DEF open
    <3> QED BY <2>2, <2>3, <2>4, PushWithin
  <2> QED BY <2>1, <2>5, <2>6
<1>5. n \in S
  <2> HIDE DEF S
  <2> QED BY <1>1, <1>3, <1>4, Induction
<1> QED BY <1>1, <1>2, <1>5 DEF n

\* A concatenation is known by its length and its elements.
LEMMA ConcatIs ==
  ASSUME NEW S, NEW s \in Seq(S), NEW t \in Seq(S), NEW u \in Seq(S),
         Len(u) = Len(s) + Len(t), \A i \in 1 .. Len(s) : u[i] = s[i],
         \A i \in 1 .. Len(t) : u[Len(s) + i] = t[i]
  PROVE  s \o t = u
<1>1. /\ s \o t \in Seq(S) /\ Len(s \o t) = Len(u)
      /\ \A i \in 1 .. Len(u) : (s \o t)[i] = IF i <= Len(s) THEN s[i] ELSE t[i - Len(s)]
  BY ConcatProperties
<1>2. ASSUME NEW i \in 1 .. Len(u) PROVE (s \o t)[i] = u[i]
  <2>1. i <= Len(s) => i \in 1 .. Len(s)
    OBVIOUS
  <2>2. ~(i <= Len(s)) => i - Len(s) \in 1 .. Len(t) /\ Len(s) + (i - Len(s)) = i
    OBVIOUS
  <2> QED BY <1>1, <2>1, <2>2
<1> QED BY <1>1, <1>2, SeqEqual

\* A chunk written out: the rest of a sentence, a whole one and a start.
LEMMA PiecesJoined ==
  ASSUME NEW t, NEW s, NEW r
  PROVE  /\ <<t>> \o <<s>> = <<t, s>> /\ <<t>> \o <<s, r>> = <<t, s, r>>
         /\ <<s, r>> \o <<s>> = <<s, r, s>> /\ <<t, s, r>> \o <<s>> = <<t, s, r, s>>
<1> DEFINE S == {t, s, r}
           T == <<t>>
           A == <<s>>
           AR == <<s, r>>
           TA == <<t, s>>
           TAR == <<t, s, r>>
           ARA == <<s, r, s>>
           TARA == <<t, s, r, s>>
<1>1. T \in Seq(S) /\ Len(T) = 1
      /\ T[1] = t
  OBVIOUS
<1>2. A \in Seq(S) /\ Len(A) = 1
      /\ A[1] = s
  OBVIOUS
<1>3. AR \in Seq(S) /\ Len(AR) = 2
      /\ AR[1] = s
      /\ AR[2] = r
  OBVIOUS
<1>4. TA \in Seq(S) /\ Len(TA) = 2
      /\ TA[1] = t
      /\ TA[2] = s
  OBVIOUS
<1>5. TAR \in Seq(S) /\ Len(TAR) = 3
      /\ TAR[1] = t
      /\ TAR[2] = s
      /\ TAR[3] = r
  OBVIOUS
<1>6. ARA \in Seq(S) /\ Len(ARA) = 3
      /\ ARA[1] = s
      /\ ARA[2] = r
      /\ ARA[3] = s
  OBVIOUS
<1>7. TARA \in Seq(S) /\ Len(TARA) = 4
      /\ TARA[1] = t
      /\ TARA[2] = s
      /\ TARA[3] = r
      /\ TARA[4] = s
  OBVIOUS
<1> HIDE DEF S, T, A, AR, TA, TAR, ARA, TARA
<1>8. T \o A = TA
  <2>1. \A i \in 1 .. Len(T) : TA[i] = T[i]
    BY <1>1, <1>2, <1>4
  <2>2. \A i \in 1 .. Len(A) : TA[Len(T) + i] = A[i]
    BY <1>1, <1>2, <1>4
  <2>3. Len(TA) = Len(T) + Len(A)
    BY <1>1, <1>2, <1>4
  <2>4. T \in Seq(S) /\ A \in Seq(S) /\ TA \in Seq(S)
    BY <1>1, <1>2, <1>4
  <2> QED BY <2>1, <2>2, <2>3, <2>4, ConcatIs, Zenon
<1>9. T \o AR = TAR
  <2>1. \A i \in 1 .. Len(T) : TAR[i] = T[i]
    BY <1>1, <1>3, <1>5
  <2>2. \A i \in 1 .. Len(AR) : TAR[Len(T) + i] = AR[i]
    BY <1>1, <1>3, <1>5
  <2>3. Len(TAR) = Len(T) + Len(AR)
    BY <1>1, <1>3, <1>5
  <2>4. T \in Seq(S) /\ AR \in Seq(S) /\ TAR \in Seq(S)
    BY <1>1, <1>3, <1>5
  <2> QED BY <2>1, <2>2, <2>3, <2>4, ConcatIs, Zenon
<1>10. AR \o A = ARA
  <2>1. \A i \in 1 .. Len(AR) : ARA[i] = AR[i]
    BY <1>3, <1>2, <1>6
  <2>2. \A i \in 1 .. Len(A) : ARA[Len(AR) + i] = A[i]
    BY <1>3, <1>2, <1>6
  <2>3. Len(ARA) = Len(AR) + Len(A)
    BY <1>3, <1>2, <1>6
  <2>4. AR \in Seq(S) /\ A \in Seq(S) /\ ARA \in Seq(S)
    BY <1>3, <1>2, <1>6
  <2> QED BY <2>1, <2>2, <2>3, <2>4, ConcatIs, Zenon
<1>11. TAR \o A = TARA
  <2>1. \A i \in 1 .. Len(TAR) : TARA[i] = TAR[i]
    BY <1>5, <1>2, <1>7
  <2>2. \A i \in 1 .. Len(A) : TARA[Len(TAR) + i] = A[i]
    BY <1>5, <1>2, <1>7
  <2>3. Len(TARA) = Len(TAR) + Len(A)
    BY <1>5, <1>2, <1>7
  <2>4. TAR \in Seq(S) /\ A \in Seq(S) /\ TARA \in Seq(S)
    BY <1>5, <1>2, <1>7
  <2> QED BY <2>1, <2>2, <2>3, <2>4, ConcatIs, Zenon
<1> QED BY <1>8, <1>9, <1>10, <1>11 DEF T, A, AR, TA, TAR, ARA, TARA

\* The chunks written out (GpsUart::poll's read).
ChunkForms(t, s, r) ==
  IF transit = "none" THEN {<<s>>, <<s, r>>, <<s, r, s>>}
  ELSE {<<t>>, <<t, s>>, <<t, s, r>>, <<t, s, r, s>>}

LEMMA ChunkForm ==
  ASSUME NEW c \in Chunks
  PROVE  c \in ChunkForms(Rest(transit), Start(receiver), Rest(receiver))
<1> DEFINE t == Rest(transit)
           s == Start(receiver)
           r == Rest(receiver)
<1> SUFFICES c \in ChunkForms(t, s, r)
  OBVIOUS
<1> USE DEF ChunkForms
<1> DEFINE start == IF transit = "none" THEN <<>> ELSE <<Rest(transit)>>
           whole == {<<>>, <<Start(receiver), Rest(receiver)>>}
           begun == {<<>>, <<Start(receiver)>>}
<1>1. c # <<>> /\ c \in {start \o m \o l : m \in whole, l \in begun}
  <2>1. Chunks = {start \o m \o l : m \in whole, l \in begun} \ {<<>>}
    BY DEF Chunks
  <2> HIDE DEF start, whole, begun
  <2> QED BY <2>1
<1>2. PICK m \in whole, l \in begun : c = start \o m \o l
  <2> HIDE DEF start, whole, begun
  <2> QED BY <1>1
<1>3. (m = <<>> \/ m = <<s, r>>) /\ (l = <<>> \/ l = <<s>>)
  BY <1>2
<1>4. start = IF transit = "none" THEN <<>> ELSE <<t>>
  OBVIOUS
<1> HIDE DEF t, s, r, start
<1>5. /\ <<>> \o <<>> = <<>> /\ <<>> \o <<s>> = <<s>> /\ <<>> \o <<s, r>> = <<s, r>>
      /\ <<t>> \o <<>> = <<t>> /\ <<s, r>> \o <<>> = <<s, r>>
      /\ <<t, s>> \o <<>> = <<t, s>> /\ <<t, s, r>> \o <<>> = <<t, s, r>>
  OBVIOUS
<1>6. /\ <<t>> \o <<s>> = <<t, s>> /\ <<t>> \o <<s, r>> = <<t, s, r>>
      /\ <<s, r>> \o <<s>> = <<s, r, s>> /\ <<t, s, r>> \o <<s>> = <<t, s, r, s>>
  BY PiecesJoined, Zenon
<1>7. ASSUME m = <<>>, l = <<>>
      PROVE  c = IF transit = "none" THEN <<>> ELSE <<t>>
  BY <1>2, <1>4, <1>5, <1>7, Zenon
<1>8. ASSUME m = <<>>, l = <<s>>
      PROVE  c = IF transit = "none" THEN <<s>> ELSE <<t, s>>
  BY <1>2, <1>4, <1>5, <1>6, <1>8
<1>9. ASSUME m = <<s, r>>, l = <<>>
      PROVE  c = IF transit = "none" THEN <<s, r>> ELSE <<t, s, r>>
  BY <1>2, <1>4, <1>5, <1>6, <1>9
<1>10. ASSUME m = <<s, r>>, l = <<s>>
       PROVE  c = IF transit = "none" THEN <<s, r, s>> ELSE <<t, s, r, s>>
  <2>1. c = start \o <<s, r>> \o <<s>>
    BY <1>2, <1>10
  <2>2. CASE transit = "none"
    BY <1>4, <1>5, <2>1, <2>2, <1>6
  <2>3. CASE transit # "none"
    <3>1. c = <<t, s, r>> \o <<s>>
      <4>1. start = <<t>>
        BY <1>4, <2>3
      <4>2. <<t>> \o <<s, r>> = <<t, s, r>>
        BY <1>6, Zenon
      <4> QED BY <2>1, <4>1, <4>2
    <3>2. c = <<t, s, r, s>>
      BY <3>1, <1>6
    <3> QED BY <2>3, <3>2, Zenon
  <2> QED BY <2>2, <2>3
<1> QED BY <1>1, <1>3, <1>7, <1>8, <1>9, <1>10

\* Every chunk the receiver sends is cut well, and leaves a sentence in transit
\* exactly if it ends in a start.
LEMMA ChunkCut ==
  ASSUME LineInv, NEW c \in Chunks
  PROVE  /\ WellCut(c) /\ TransitAfter(c) \in REPORTS \cup {"none"}
         /\ Open(c[Len(c)]) = IF TransitAfter(c) = "none" THEN 0 ELSE 1
<1> DEFINE t == Rest(transit)
           s == Start(receiver)
           r == Rest(receiver)
           Goal == /\ WellCut(c) /\ TransitAfter(c) \in REPORTS \cup {"none"}
                   /\ Open(c[Len(c)]) = IF TransitAfter(c) = "none" THEN 0 ELSE 1
<1>1. c \in ChunkForms(t, s, r)
  BY ChunkForm
<1>2. /\ IsPiece(s) /\ IsPiece(r) /\ IsPiece(t)
      /\ ~s.end /\ r.end /\ t.end
      /\ s.text = "start" /\ s.of = receiver /\ r.text = "rest" /\ t.text = "rest"
  BY DEF LineInv, IsPiece, Start, Rest, Piece
<1>3. receiver # "none" /\ receiver \in REPORTS
  BY GpsAssumption DEF LineInv
<1> HIDE DEF t, s, r
<1>4. ASSUME c = <<s>>, transit = "none" PROVE Goal
  BY <1>2, <1>3, <1>4 DEF WellCut, TransitAfter, Last, Open
<1>5. ASSUME c = <<s, r>>, transit = "none" PROVE Goal
  BY <1>2, <1>3, <1>5 DEF WellCut, TransitAfter, Last, Open
<1>6. ASSUME c = <<s, r, s>>, transit = "none" PROVE Goal
  BY <1>2, <1>3, <1>6 DEF WellCut, TransitAfter, Last, Open
<1>7. ASSUME c = <<t>> PROVE Goal
  BY <1>2, <1>3, <1>7 DEF WellCut, TransitAfter, Last, Open
<1>8. ASSUME c = <<t, s>> PROVE Goal
  BY <1>2, <1>3, <1>8 DEF WellCut, TransitAfter, Last, Open
<1>9. ASSUME c = <<t, s, r>> PROVE Goal
  BY <1>2, <1>3, <1>9 DEF WellCut, TransitAfter, Last, Open
<1>10. ASSUME c = <<t, s, r, s>> PROVE Goal
  BY <1>2, <1>3, <1>10 DEF WellCut, TransitAfter, Last, Open
<1> QED BY <1>1, <1>4, <1>5, <1>6, <1>7, <1>8, <1>9, <1>10 DEF ChunkForms

\* Damage leaves the order of starts and ends as it was sent.
LEMMA DamagedCut ==
  ASSUME LineInv, NEW c \in Chunks, Len(c) = 1, NEW d \in Damaged(c)
  PROVE  WellCut(d) /\ Len(d) = 1 /\ Open(d[1]) = Open(c[1])
<1>1. WellCut(c) /\ DOMAIN c = {1}
  BY ChunkCut DEF WellCut
<1>2. PICK nl \in BOOLEAN : d = [c EXCEPT ![1] = Junk(c[1], nl)]
  BY <1>1 DEF Damaged
<1>3. DOMAIN d = 1 .. 1 /\ d[1] = Junk(c[1], nl)
  BY <1>1, <1>2
<1>4. d[1].end = c[1].end /\ IsPiece(d[1])
  BY <1>1, <1>3 DEF WellCut, Junk, Piece, IsPiece
<1>5. Len(d) = 1
  BY <1>3
<1> QED BY <1>1, <1>3, <1>4, <1>5 DEF WellCut, Open

\* A chunk that is not UTF-8 is dropped and leaves the buffer as long as it was.
LEMMA DroppedKeeps ==
  ASSUME LineInv, NEW c \in Chunks, Len(c) = 1, PollDropped(c)
  PROVE  LineInv'
<1>1. WellCut(c) /\ c[1].end \in BOOLEAN
  BY ChunkCut DEF WellCut, IsPiece
<1>2. transit' \in REPORTS \cup {"none"} /\ InTransit' = Open(c[1])
  BY ChunkCut DEF PollDropped, InTransit
<1>3. UNCHANGED receiver /\ receiver \in REPORTS
  BY DEF PollDropped, LineInv
<1>4. /\ lost \in Nat /\ line_buf \in Seq(Texts) /\ Len(line_buf) <= (2 * lost) + InTransit
  BY DEF LineInv, Within, Unread
<1>5. line_buf' \in Seq(Texts) /\ Len(line_buf') = Len(line_buf)
  BY <1>4, BrokenLen DEF PollDropped
<1>6. lost' = lost + (IF c[1].end THEN 1 ELSE 0)
  <2>1. DOMAIN c = {1}
    BY <1>1 DEF WellCut
  <2>2. CASE c[1].end
    <3>1. {i \in DOMAIN c : c[i].end} = {1}
      BY <2>1, <2>2
    <3> QED BY <2>2, <3>1, FS_Singleton DEF PollDropped
  <2>3. CASE ~c[1].end
    <3>1. {i \in DOMAIN c : c[i].end} = {}
      BY <2>1, <2>3
    <3> QED BY <1>4, <2>3, <3>1, FS_EmptySet DEF PollDropped
  <2> QED BY <2>2, <2>3
<1>7. Len(line_buf') <= (2 * lost') + InTransit'
  BY <1>2, <1>4, <1>5, <1>6 DEF Open, InTransit
<1>8. lost' \in Nat
  BY <1>4, <1>6
<1> QED BY <1>2, <1>3, <1>5, <1>7, <1>8 DEF LineInv, Within, Unread

\* One poll, on the chunk that was sent or on a damaged one (GpsUart::poll).
LEMMA ReadKeeps ==
  ASSUME LineInv, NEW sent \in Chunks, NEW received, WellCut(received),
         Open(received[Len(received)]) = Open(sent[Len(sent)]), Poll(sent, received)
  PROVE  LineInv'
<1>1. transit' \in REPORTS \cup {"none"} /\ InTransit' = Open(sent[Len(sent)])
  BY ChunkCut DEF Poll, InTransit
<1>2. UNCHANGED receiver /\ receiver \in REPORTS
  BY DEF Poll, LineInv
<1>3. Within(Scan(received), InTransit')
  BY <1>1, ScanWithin
<1>4. line_buf' = Scan(received).line /\ lost' = Scan(received).lost
  BY DEF Poll
<1>5. line_buf' \in Seq(Texts) /\ lost' \in Nat /\ Len(line_buf') <= 2 * lost' + InTransit'
  BY <1>3, <1>4 DEF Within
<1> QED BY <1>1, <1>2, <1>5 DEF LineInv, Within, Unread

\* The UART's own variables decide LineInv.
LEMMA LineFrame ==
  ASSUME LineInv, UNCHANGED uartVars
  PROVE  LineInv'
BY DEF LineInv, uartVars, Within, Unread, InTransit

\* Every step keeps the buffer within its bound.
LEMMA LineStep ==
  ASSUME LineInv, [Next]_vars
  PROVE  LineInv'
<1>1. CASE GpsRead
  <2>1. PICK chunk \in Chunks : Poll(chunk, chunk)
    BY <1>1 DEF GpsRead
  <2> QED BY <2>1, ChunkCut, ReadKeeps
<1>2. CASE NoisyRead
  <2>1. PICK chunk \in Chunks :
          /\ Len(chunk) = 1
          /\ PollDropped(chunk) \/ \E received \in Damaged(chunk) : Poll(chunk, received)
    BY <1>2 DEF NoisyRead
  <2>2. ASSUME NEW received \in Damaged(chunk), Poll(chunk, received) PROVE LineInv'
    BY <2>1, <2>2, DamagedCut, ReadKeeps
  <2> QED BY <2>1, <2>2, DroppedKeeps
<1>3. CASE Fetch
  BY <1>3, LineFrame DEF Fetch, WorkerTakes, WorkerSends, MeteoAnswers, MeteoNamesNone,
     GeonamesAnswers, AnswersInvalid, FetchFails, gpsVars
<1>4. CASE Apply
  <2>1. UNCHANGED uartVars
    BY <1>4 DEF Apply, ResultFails, ResultNamesZone, PersistNvs, PersistSd, gpsVars
  <2> QED BY <2>1, LineFrame
<1>5. ASSUME NEW erase, NEW store, NEW card, Restart(erase, store, card) PROVE LineInv'
  <2>1. /\ UNCHANGED receiver /\ transit' \in {"none", receiver}
        /\ line_buf' = <<>> /\ lost' = 0
    BY <1>5 DEF Restart, GpsBoot
  <2>2. <<>> \in Seq(Texts) /\ Len(<<>>) = 0
    OBVIOUS
  <2> QED BY <2>1, <2>2 DEF LineInv, Within, Unread, InTransit
<1>6. CASE Tick \/ UNCHANGED vars
  BY <1>6, LineFrame DEF Tick, vars, gpsVars
<1>7. CASE Turns
  <2>1. receiver' \in REPORTS /\ UNCHANGED <<transit, lost, line_buf>>
    BY <1>7 DEF Turns, ReceiverTurns
  <2> QED BY <2>1 DEF LineInv, Within, Unread, InTransit
<1> QED BY <1>1, <1>2, <1>3, <1>4, <1>5, <1>6, <1>7 DEF Next

\* Every step of the program keeps the UART's invariant (GpsUart::poll).
LEMMA LineInvHolds == Spec => []LineInv
<1>1. Init => LineInv
  <2>1. <<>> \in Seq(Texts) /\ Len(<<>>) = 0
    OBVIOUS
  <2> QED BY <2>1 DEF Init, GpsInit, LineInv, Within, Unread, InTransit
<1> QED BY <1>1, LineStep, PTL DEF Spec

\* line_buf holds nothing from before the last newline that came through, for
\* any number of newlines lost and however the chunks are cut (GpsUart::poll).
THEOREM LineBufBoundedHolds == Spec => []LineBufBounded
<1>1. LineInv => LineBufBounded
  BY DEF LineInv, Within, Unread, InTransit, LineBufBounded
<1> QED BY <1>1, LineInvHolds, PTL

(***************************************************************************)
(* What noise leaves behind, and a lost fix.                               *)
(***************************************************************************)

\* The buffer holds the start of the sentence in transit and nothing else.
Clean == line_buf = IF transit = "none" THEN <<>> ELSE <<transit>>

IsScan(st) == DOMAIN st = {"line", "lost", "snap", "fixed"}

\* A start goes into an empty buffer.
LEMMA PushStart ==
  ASSUME NEW x, NEW st, IsScan(st)
  PROVE  /\ IsScan(Push(st, Start(x))) /\ Push(st, Start(x)).snap = st.snap
         /\ st.line = <<>> => Push(st, Start(x)).line = <<x>>
BY DEF Push, Start, Piece, IsScan

\* The newline of a rest empties the buffer; with its start before it and
\* nothing else, the sentence is parsed.
LEMMA PushRest ==
  ASSUME NEW x \in REPORTS, NEW st, IsScan(st)
  PROVE  /\ IsScan(Push(st, Rest(x))) /\ Push(st, Rest(x)).line = <<>>
         /\ Push(st, Rest(x)).snap
              = IF st.line = <<x>> THEN ParseRmc(x, st.snap) ELSE st.snap
<1>1. x # "none"
  BY GpsAssumption
<1>2. /\ Rest(x).nl /\ Rest(x).text = "rest" /\ Rest(x).of = x
  BY DEF Rest, Piece
<1>3. SentenceOf(st.line, Rest(x)) = IF st.line = <<x>> THEN x ELSE "none"
  BY <1>2 DEF SentenceOf
<1> QED BY <1>1, <1>2, <1>3 DEF Push, IsScan

\* The snapshot after the sentence in transit, and after the receiver's.
AfterRest  == IF transit = "none" THEN snapshot ELSE ParseRmc(transit, snapshot)
AfterWhole == ParseRmc(receiver, AfterRest)

\* What an undamaged poll makes of the buffer and of the snapshot.
LEMMA ReadIs ==
  ASSUME LineInv, NEW c \in Chunks
  PROVE  LET line == Scan(c).line
             snap == Scan(c).snap
             left == TransitAfter(c)
         IN  /\ Clean \/ transit # "none" \/ left = "none"
                  => line = IF left = "none" THEN <<>> ELSE <<left>>
             /\ Clean => /\ snap \in {AfterRest, AfterWhole}
                         /\ transit = "none" /\ left = "none" => snap = AfterWhole
<1> DEFINE t == Rest(transit)
           s == Start(receiver)
           r == Rest(receiver)
           left == TransitAfter(c)
           Emptied == Scan(c).line = IF left = "none" THEN <<>> ELSE <<left>>
           Goal == /\ Clean \/ transit # "none" \/ left = "none" => Emptied
                   /\ Clean => /\ Scan(c).snap \in {AfterRest, AfterWhole}
                               /\ transit = "none" /\ left = "none"
                                    => Scan(c).snap = AfterWhole
<1>1. /\ receiver \in REPORTS /\ receiver # "none"
      /\ transit # "none" => transit \in REPORTS
  BY GpsAssumption DEF LineInv
<1>2. /\ s.text = "start" /\ s.of = receiver /\ r.text = "rest" /\ t.text = "rest"
  BY DEF Start, Rest, Piece
<1>3. IsScan(Unread) /\ Unread.line = line_buf /\ Unread.snap = snapshot
  BY DEF IsScan, Unread
<1>4. ASSUME NEW st, IsScan(st)
      PROVE  /\ IsScan(Push(st, s)) /\ Push(st, s).snap = st.snap
             /\ st.line = <<>> => Push(st, s).line = <<receiver>>
             /\ IsScan(Push(st, r)) /\ Push(st, r).line = <<>>
             /\ Push(st, r).snap
                  = IF st.line = <<receiver>> THEN ParseRmc(receiver, st.snap) ELSE st.snap
             /\ transit # "none" => /\ IsScan(Push(st, t)) /\ Push(st, t).line = <<>>
                                    /\ st.line = <<transit>>
                                         => Push(st, t).snap = ParseRmc(transit, st.snap)
  BY <1>1, <1>4, PushStart, PushRest
<1>5. c \in ChunkForms(t, s, r)
  BY ChunkForm
<1>6. ASSUME NEW n \in Nat, DOMAIN c = 1 .. n
      PROVE  \E st : /\ st[0] = Unread
                     /\ \A k \in 1 .. n : st[k] = Push(st[k - 1], c[k])
                     /\ Scan(c) = st[n]
  BY <1>6, ScanSteps
<1> HIDE DEF t, s, r
<1>7. CASE transit = "none"
  <2>1. CASE c = <<s>>
    <3>1. Scan(c) = Push(Unread, s)
      <4>1. DOMAIN c = 1 .. 1 /\ c[1] = s
        BY <2>1
      <4>2. PICK st : /\ st[0] = Unread
                      /\ \A k \in 1 .. 1 : st[k] = Push(st[k - 1], c[k])
                      /\ Scan(c) = st[1]
        BY <1>6, <4>1
      <4> QED BY <4>1, <4>2
    <3>2. left = receiver
      BY <1>2, <2>1 DEF TransitAfter, Last
    <3> QED BY <1>1, <1>3, <1>4, <1>7, <3>1, <3>2 DEF Clean, AfterRest
  <2>2. CASE c = <<s, r>>
    <3>1. Scan(c) = Push(Push(Unread, s), r)
      <4>1. DOMAIN c = 1 .. 2 /\ c[1] = s /\ c[2] = r
        BY <2>2
      <4>2. PICK st : /\ st[0] = Unread
                      /\ \A k \in 1 .. 2 : st[k] = Push(st[k - 1], c[k])
                      /\ Scan(c) = st[2]
        BY <1>6, <4>1
      <4> QED BY <4>1, <4>2
    <3>2. left = "none"
      BY <1>2, <2>2 DEF TransitAfter, Last
    <3> QED BY <1>1, <1>3, <1>4, <1>7, <3>1, <3>2 DEF Clean, AfterRest, AfterWhole
  <2>3. CASE c = <<s, r, s>>
    <3>1. Scan(c) = Push(Push(Push(Unread, s), r), s)
      <4>1. DOMAIN c = 1 .. 3 /\ c[1] = s /\ c[2] = r /\ c[3] = s
        BY <2>3
      <4>2. PICK st : /\ st[0] = Unread
                      /\ \A k \in 1 .. 3 : st[k] = Push(st[k - 1], c[k])
                      /\ Scan(c) = st[3]
        BY <1>6, <4>1
      <4> QED BY <4>1, <4>2
    <3>2. left = receiver
      BY <1>2, <2>3 DEF TransitAfter, Last
    <3> QED BY <1>1, <1>3, <1>4, <1>7, <3>1, <3>2 DEF Clean, AfterRest, AfterWhole
  <2> QED BY <1>5, <1>7, <2>1, <2>2, <2>3 DEF ChunkForms
<1>8. CASE transit # "none"
  <2> DEFINE one == Push(Unread, t)
  <2>1. /\ IsScan(one) /\ one.line = <<>>
        /\ Clean => one.snap = AfterRest
    BY <1>3, <1>4, <1>8 DEF Clean, AfterRest
  <2> HIDE DEF one
  <2>2. ASSUME NEW n \in Nat, DOMAIN c = 1 .. n, c[1] = t, n >= 1
        PROVE  \E st : /\ st[1] = one
                       /\ \A k \in 2 .. n : st[k] = Push(st[k - 1], c[k])
                       /\ Scan(c) = st[n]
    <3>1. PICK st : /\ st[0] = Unread
                    /\ \A k \in 1 .. n : st[k] = Push(st[k - 1], c[k])
                    /\ Scan(c) = st[n]
      BY <2>2, ScanSteps
    <3>2. st[1] = one
      BY <2>2, <3>1 DEF one
    <3> QED BY <3>1, <3>2
  <2>3. CASE c = <<t>>
    <3>1. DOMAIN c = 1 .. 1 /\ c[1] = t
      BY <2>3
    <3>2. Scan(c) = one
      BY <2>2, <3>1
    <3>3. left = "none"
      BY <1>2, <2>3 DEF TransitAfter, Last
    <3> QED BY <1>8, <2>1, <3>2, <3>3
  <2>4. CASE c = <<t, s>>
    <3>1. DOMAIN c = 1 .. 2 /\ c[1] = t /\ c[2] = s
      BY <2>4
    <3>2. Scan(c) = Push(one, s)
      BY <2>2, <3>1
    <3>3. left = receiver
      BY <1>2, <2>4 DEF TransitAfter, Last
    <3> QED BY <1>1, <1>4, <1>8, <2>1, <3>2, <3>3
  <2>5. CASE c = <<t, s, r>>
    <3>1. DOMAIN c = 1 .. 3 /\ c[1] = t /\ c[2] = s /\ c[3] = r
      BY <2>5
    <3>2. Scan(c) = Push(Push(one, s), r)
      BY <2>2, <3>1
    <3>3. left = "none"
      BY <1>2, <2>5 DEF TransitAfter, Last
    <3> QED BY <1>1, <1>4, <1>8, <2>1, <3>2, <3>3 DEF AfterWhole
  <2>6. CASE c = <<t, s, r, s>>
    <3>1. DOMAIN c = 1 .. 4 /\ c[1] = t /\ c[2] = s /\ c[3] = r /\ c[4] = s
      BY <2>6
    <3>2. Scan(c) = Push(Push(Push(one, s), r), s)
      BY <2>2, <3>1
    <3>3. left = receiver
      BY <1>2, <2>6 DEF TransitAfter, Last
    <3> QED BY <1>1, <1>4, <1>8, <2>1, <3>2, <3>3 DEF AfterWhole
  <2> QED BY <1>5, <1>8, <2>3, <2>4, <2>5, <2>6 DEF ChunkForms
<1> QED BY <1>7, <1>8

\* Whatever damaged lines have left in the buffer is gone with the next newline:
\* after an undamaged read it holds the start of the sentence in transit alone,
\* unless the read brought a mere start.  The read after such a one has the
\* newline, so two undamaged reads suffice (GpsUart::poll).
NoiseForgotten ==
  [][GpsRead /\ (Clean \/ transit # "none" \/ transit' = "none") => Clean']_vars

THEOREM NoiseForgottenHolds == Spec => NoiseForgotten
<1>1. LineInv /\ GpsRead /\ (Clean \/ transit # "none" \/ transit' = "none") => Clean'
  <2> SUFFICES ASSUME LineInv, GpsRead, Clean \/ transit # "none" \/ transit' = "none"
               PROVE  Clean'
    OBVIOUS
  <2>1. PICK chunk \in Chunks : Poll(chunk, chunk)
    BY DEF GpsRead
  <2>2. transit' = TransitAfter(chunk) /\ line_buf' = Scan(chunk).line
    BY <2>1 DEF Poll
  <2> QED BY <2>2, ReadIs DEF Clean
<1>2. LineInv /\ [Next]_vars
        => [GpsRead /\ (Clean \/ transit # "none" \/ transit' = "none") => Clean']_vars
  BY <1>1
<1> QED BY <1>2, LineInvHolds, PTL DEF Spec, NoiseForgotten

\* And then no sentence is passed over: a report that the fix is lost, read to
\* its end, takes the fix out of the snapshot at once (GpsUart::poll, parse_rmc).
LostFixReported ==
  [][/\ GpsRead /\ Clean
     /\ receiver = "void" /\ transit \in {"none", "void"}
     /\ transit = "void" \/ transit' = "none"
     => ~snapshot'.fix]_vars

THEOREM LostFixReportedHolds == Spec => LostFixReported
<1> DEFINE Read == /\ GpsRead /\ Clean
                   /\ receiver = "void" /\ transit \in {"none", "void"}
                   /\ transit = "void" \/ transit' = "none"
<1>1. LineInv /\ Read => ~snapshot'.fix
  <2> SUFFICES ASSUME LineInv, Read PROVE ~snapshot'.fix
    OBVIOUS
  <2>1. PICK chunk \in Chunks : Poll(chunk, chunk)
    BY DEF GpsRead
  <2>2. transit' = TransitAfter(chunk) /\ snapshot' = Scan(chunk).snap
    BY <2>1 DEF Poll
  <2>3. /\ snapshot' \in {AfterRest, AfterWhole}
        /\ transit = "none" /\ transit' = "none" => snapshot' = AfterWhole
    BY <2>2, ReadIs
  <2>4. \A snap : ~ParseRmc("void", snap).fix
    BY DEF ParseRmc, HasTime
  <2>5. ~AfterWhole.fix /\ (transit = "void" => ~AfterRest.fix)
    BY <2>4 DEF AfterWhole, AfterRest
  <2> QED BY <2>3, <2>5
<1>2. LineInv /\ [Next]_vars => [Read => ~snapshot'.fix]_vars
  BY <1>1
<1> QED BY <1>2, LineInvHolds, PTL DEF Spec, LostFixReported

(***************************************************************************)
(* Types.                                                                  *)
(***************************************************************************)

Snapshots == [fix : BOOLEAN, utc : BOOLEAN, offset : MaybeZone]

\* The rest of the state.
PlaceInv ==
  /\ snapshot \in Snapshots /\ lost <= MAX_LOST
  /\ noisy \in BOOLEAN /\ tz_initialized \in BOOLEAN
  /\ sd \in MaybeZone \cup {Empty}
  /\ lookup_age \in Never .. LOOKUP_REFRESH
  /\ worker \in {"idle", "meteo", "geonames"}
  /\ restarts \in 0 .. MAX_RESTARTS

\* A sentence leaves a snapshot, whatever it says.
LEMMA ParseType ==
  ASSUME NEW x, NEW snap \in Snapshots, zone \in MaybeZone
  PROVE  ParseRmc(x, snap) \in Snapshots
BY DEF ParseRmc, HasTime, Snapshots, MaybeZone

\* A scan leaves a snapshot, and no newline more is missing than before unless
\* one is missing in the chunk.
LEMMA ScanType ==
  ASSUME NEW c, NEW n \in Nat, DOMAIN c = 1 .. n,
         snapshot \in Snapshots, zone \in MaybeZone
  PROVE  /\ Scan(c).snap \in Snapshots
         /\ (\A i \in 1 .. n : c[i].end => c[i].nl) => Scan(c).lost \in {0, lost}
<1>1. PICK st : /\ st[0] = Unread
                /\ \A k \in 1 .. n : st[k] = Push(st[k - 1], c[k])
                /\ Scan(c) = st[n]
  BY ScanSteps
<1> DEFINE Whole == \A i \in 1 .. n : c[i].end => c[i].nl
           Typed(k) == /\ IsScan(st[k]) /\ st[k].snap \in Snapshots
                       /\ Whole => st[k].lost \in {0, lost}
           S == {k \in Nat : k <= n => Typed(k)}
<1>2. 0 \in S
  BY <1>1 DEF IsScan, Unread
<1>3. ASSUME NEW k \in Nat, k \in S PROVE k + 1 \in S
  <2> SUFFICES ASSUME k + 1 <= n PROVE Typed(k + 1)
    OBVIOUS
  <2> DEFINE p == c[k + 1]
             s == SentenceOf(st[k].line, p)
             line == IF p.text = "start" /\ st[k].line = <<>> THEN <<p.of>>
                     ELSE Broken(Append(st[k].line, p.text))
  <2>1. k + 1 \in 1 .. n /\ (k + 1) - 1 = k
    OBVIOUS
  <2>2. st[k + 1] = Push(st[k], p)
    BY <1>1, <2>1
  <2>3. Typed(k)
    BY <1>3
  <2>4. Whole => (p.end => p.nl)
    BY <2>1
  <2> HIDE DEF p
  <2>5. CASE ~p.nl
    <3>1. st[k + 1] = [st[k] EXCEPT !.line = line, !.lost = IF p.end THEN @ + 1 ELSE @]
      BY <2>2, <2>5 DEF Push
    <3> HIDE DEF line, Whole
    <3>2. /\ DOMAIN st[k + 1] = DOMAIN st[k] /\ st[k + 1].snap = st[k].snap
          /\ Whole => st[k + 1].lost = st[k].lost
      BY <2>3, <2>4, <2>5, <3>1 DEF IsScan
    <3> QED BY <2>3, <3>2 DEF IsScan
  <2>6. CASE p.nl
    <3>1. /\ IsScan(st[k + 1]) /\ st[k + 1].lost = 0
          /\ st[k + 1].snap = IF s # "none" THEN ParseRmc(s, st[k].snap) ELSE st[k].snap
      BY <2>2, <2>6 DEF Push, IsScan
    <3> HIDE DEF s, Whole
    <3> QED BY <2>3, <3>1, ParseType
  <2> QED BY <2>5, <2>6
<1>4. n \in S
  <2> HIDE DEF S
  <2> QED BY <1>2, <1>3, Induction
<1> QED BY <1>1, <1>4

\* What the loop does with a fix and how time passes.
LEMMA AgeType ==
  ASSUME lookup_age \in Never .. LOOKUP_REFRESH
  PROVE  /\ \A fixed : Schedule(fixed) => lookup_age' \in Never .. LOOKUP_REFRESH
         /\ Tick => lookup_age' \in Never .. LOOKUP_REFRESH
BY LookupAssumption DEF Schedule, Tick, Never

\* A boot is within the bounds.
LEMMA BootTypes ==
  /\ 0 <= MAX_LOST /\ Never \in Never .. LOOKUP_REFRESH /\ 0 \in 0 .. MAX_RESTARTS
  /\ FALSE \in BOOLEAN
<1>1. MAX_LOST \in Nat /\ LOOKUP_REFRESH \in Nat /\ MAX_RESTARTS \in Nat
  BY GpsAssumption, LookupAssumption
<1> QED BY <1>1 DEF Never

\* The offset is taken from a zone, or none.
LEMMA OffsetType ==
  ASSUME snapshot \in Snapshots, NEW z \in MaybeZone, OffsetFrom(z)
  PROVE  snapshot' \in Snapshots
BY DEF OffsetFrom, Snapshots

\* An undamaged chunk has every newline.
LEMMA ChunkWhole ==
  ASSUME NEW c \in Chunks
  PROVE  \A i \in DOMAIN c : c[i].end => c[i].nl
<1> DEFINE t == Rest(transit)
           s == Start(receiver)
           r == Rest(receiver)
<1>1. /\ s.end => s.nl
      /\ t.end => t.nl
      /\ r.end => r.nl
  BY DEF Start, Rest, Piece
<1>2. c \in ChunkForms(t, s, r)
  BY ChunkForm
<1> HIDE DEF t, s, r
<1>3. \A i \in DOMAIN c : c[i] \in {t, s, r}
  BY <1>2 DEF ChunkForms
<1> QED BY <1>1, <1>3

\* A read keeps the types (GpsUart::poll).
LEMMA ReadTypes ==
  ASSUME LineInv, PlaceInv, zone \in MaybeZone, GpsRead \/ NoisyRead
  PROVE  PlaceInv'
<1>1. /\ noisy' \in BOOLEAN
      /\ UNCHANGED <<tz_initialized, worker, sd, restarts>>
  BY DEF GpsRead, NoisyRead, cacheVars
<1>2. lookup_age' \in Never .. LOOKUP_REFRESH
  BY AgeType DEF GpsRead, NoisyRead, PlaceInv
<1>3. ASSUME NEW sent \in Chunks, NEW received, WellCut(received), Poll(sent, received)
      PROVE  /\ snapshot' \in Snapshots
             /\ (\A i \in DOMAIN received : received[i].end => received[i].nl)
                  => lost' \in {0, lost}
  <2>1. snapshot' = Scan(received).snap /\ lost' = Scan(received).lost
    BY <1>3 DEF Poll
  <2>2. Len(received) \in Nat /\ DOMAIN received = 1 .. Len(received)
    BY <1>3 DEF WellCut
  <2> QED BY <2>1, <2>2, ScanType DEF PlaceInv
<1>4. CASE GpsRead
  <2>1. PICK chunk \in Chunks : Poll(chunk, chunk)
    BY <1>4 DEF GpsRead
  <2>2. snapshot' \in Snapshots /\ lost' \in {0, lost}
    BY <1>3, <2>1, ChunkCut, ChunkWhole
  <2>3. lost' <= MAX_LOST
    BY <2>2, GpsAssumption DEF PlaceInv
  <2> QED BY <1>1, <1>2, <2>2, <2>3 DEF PlaceInv
<1>5. CASE NoisyRead
  <2>1. PICK chunk \in Chunks :
          /\ Len(chunk) = 1
          /\ PollDropped(chunk) \/ \E received \in Damaged(chunk) : Poll(chunk, received)
    BY <1>5 DEF NoisyRead
  <2>2. snapshot' \in Snapshots
    <3>1. CASE PollDropped(chunk)
      BY <3>1 DEF PollDropped, PlaceInv
    <3>2. ASSUME NEW received \in Damaged(chunk), Poll(chunk, received)
          PROVE  snapshot' \in Snapshots
      BY <1>3, <2>1, <3>2, DamagedCut
    <3> QED BY <2>1, <3>1, <3>2
  <2>3. lost' <= MAX_LOST
    BY <1>5 DEF NoisyRead
  <2> QED BY <1>1, <1>2, <2>2, <2>3 DEF PlaceInv
<1> QED BY <1>4, <1>5

\* Every step keeps the types.
LEMMA PlaceStep ==
  ASSUME LineInv, KeptInv, LookupInv, PlaceInv, [Next]_vars
  PROVE  PlaceInv'
<1>1. zone \in MaybeZone /\ current \in MaybeZone
  BY DEF KeptInv
<1>2. CASE GpsRead \/ NoisyRead
  BY <1>1, <1>2, ReadTypes
<1>3. CASE Fetch
  BY <1>3 DEF Fetch, WorkerTakes, WorkerSends, MeteoAnswers, MeteoNamesNone,
     GeonamesAnswers, AnswersInvalid, FetchFails, gpsVars, uartVars, loopVars, cacheVars,
     PlaceInv
<1>4. CASE ResultFails
  <2>1. snapshot' \in Snapshots
    BY <1>1, <1>4, OffsetType DEF ResultFails, PlaceInv
  <2> QED BY <1>4, <2>1 DEF ResultFails, uartVars, cacheVars, PlaceInv
<1>5. CASE ResultNamesZone
  <2>1. result \in MaybeZone
    BY <1>5 DEF ResultNamesZone, MaybeZone
  <2>2. snapshot' \in Snapshots
    BY <1>5, <2>1, OffsetType DEF ResultNamesZone, PlaceInv
  <2> QED BY <1>5, <2>2 DEF ResultNamesZone, uartVars, PlaceInv
<1>6. ASSUME NEW ok \in BOOLEAN, PersistNvs(ok)
      PROVE  PlaceInv'
  BY <1>6 DEF PersistNvs, gpsVars, uartVars, loopVars, workerVars, PlaceInv
<1>7. ASSUME NEW ok \in BOOLEAN, PersistSd(ok)
      PROVE  PlaceInv'
  <2>1. snapshot' \in Snapshots
    BY <1>1, <1>7, OffsetType DEF PersistSd, PlaceInv
  <2>2. sd' \in MaybeZone \cup {Empty}
    BY <1>1, <1>7 DEF PersistSd, PlaceInv
  <2> QED BY <1>7, <2>1, <2>2 DEF PersistSd, uartVars, loopVars, workerVars, PlaceInv
<1>8. ASSUME NEW erase \in BOOLEAN, NEW store \in BOOLEAN, NEW card \in BOOLEAN,
             Restart(erase, store, card)
      PROVE  PlaceInv'
  <2>1. KeptInv'
    BY KeptStep
  <2>2. zone' \in MaybeZone /\ zone' = current'
    BY <1>8, <2>1 DEF KeptInv, Restart, GpsBoot
  <2>3. snapshot' \in Snapshots
    <3>1. snapshot' \in [fix : {FALSE}, utc : {FALSE}, offset : {zone', NoZone}]
      BY <1>8, <2>2 DEF Restart, GpsBoot
    <3> QED BY <2>2, <3>1 DEF Snapshots, MaybeZone
  <2>4. sd' \in MaybeZone \cup {Empty}
    BY <1>1, <1>8 DEF Restart, PlaceInv
  <2>5. restarts' \in 0 .. MAX_RESTARTS
    BY <1>8, LookupAssumption DEF Restart, PlaceInv
  <2>6. /\ lost' = 0 /\ noisy' = FALSE /\ worker' = "idle" /\ lookup_age' = Never
        /\ tz_initialized' \in BOOLEAN
    BY <1>8 DEF Restart, GpsBoot
  <2> QED
    BY <2>3, <2>4, <2>5, <2>6, BootTypes DEF PlaceInv
<1>9. CASE Tick
  BY <1>9, AgeType DEF Tick, gpsVars, uartVars, workerVars, cacheVars, PlaceInv
<1>10. CASE Turns \/ UNCHANGED vars
  BY <1>10 DEF Turns, ReceiverTurns, vars, gpsVars, uartVars, loopVars, workerVars,
     cacheVars, PlaceInv
<1> QED
  BY <1>2, <1>3, <1>4, <1>5, <1>6, <1>7, <1>8, <1>9, <1>10 DEF Next, Apply

\* Every variable of the lookup and of the UART keeps its type, whatever chunks,
\* answers and restarts there are (TimezoneWorker, GpsUart, TimezoneStore).
THEOREM TypeOKHolds == Spec => []TypeOK
<1>1. Init => LookupInv /\ KeptInv /\ PlaceInv
  <2> SUFFICES ASSUME Init PROVE LookupInv /\ KeptInv /\ PlaceInv
    OBVIOUS
  <2>1. LookupInv
    BY DEF Init, LookupInv, MaybeZone
  <2>2. KeptInv
    BY InitKept
  <2>3. snapshot \in Snapshots /\ sd \in MaybeZone \cup {Empty}
    BY <2>2, LookupAssumption DEF Init, GpsInit, KeptInv, Snapshots, MaybeZone
  <2>4. tz_initialized \in BOOLEAN
    BY DEF Init
  <2>5. /\ lost = 0 /\ noisy = FALSE /\ lookup_age = Never /\ worker = "idle"
        /\ restarts = 0
    BY DEF Init, GpsInit
  <2> QED
    BY <2>1, <2>2, <2>3, <2>4, <2>5, BootTypes DEF PlaceInv
<1>2. LineInv /\ LookupInv /\ KeptInv /\ PlaceInv /\ [Next]_vars
        => LookupInv' /\ KeptInv' /\ PlaceInv'
  BY LookupStep, KeptStep, PlaceStep
<1>3. LineInv /\ LookupInv /\ KeptInv /\ PlaceInv => TypeOK
  <2> SUFFICES ASSUME LineInv, LookupInv, KeptInv, PlaceInv PROVE TypeOK
    OBVIOUS
  <2>1. lost \in 0 .. MAX_LOST
    BY GpsAssumption DEF LineInv, Within, Unread, PlaceInv
  <2>2. line_buf \in Seq(REPORTS \cup {"junk"})
    BY DEF LineInv, Within, Unread, Texts
  <2> QED
    BY <2>1, <2>2
       DEF LineInv, LookupInv, KeptInv, PlaceInv, TypeOK, Snapshots, MaybeZone
<1> QED BY <1>1, <1>2, <1>3, LineInvHolds, PTL DEF Spec

=============================================================================
