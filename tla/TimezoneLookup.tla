-------------------------- MODULE TimezoneLookup --------------------------
(***************************************************************************)
(* src/timezone.rs with its callers in src/app.rs and src/board.rs: the    *)
(* main loop asks for the zone of a fix, a worker thread asks the online   *)
(* providers, and the loop applies the answer and stores it in NVS and on  *)
(* the card for the next boot.  The fixes come from GpsUart; a network     *)
(* that is down is a failing fetch.  The program may be restarted at any   *)
(* step.                                                                   *)
(***************************************************************************)
EXTENDS GpsUart

CONSTANTS
    LOOKUP_RETRY,    \* in ticks; 5 minutes and 6 hours in the code
    LOOKUP_REFRESH,
    HERE,            \* zone the device is in; it is carried about while it is off
    LEFT,            \* what earlier zones may have left in NVS and on the card
    MAX_RESTARTS     \* bound on restarts

Empty == "empty"         \* the file after open with truncate
Failures == {"nothing", "invalid", "error"}

ASSUME LookupAssumption ==
    /\ (ZONES \cup {NoZone}) \cap (Failures \cup {Empty}) = {}
    /\ LOOKUP_RETRY \in Nat \ {0} /\ LOOKUP_REFRESH \in Nat
    /\ LOOKUP_RETRY <= LOOKUP_REFRESH
    /\ HERE \in ZONES /\ LEFT \subseteq ZONES \cup {NoZone} /\ MAX_RESTARTS \in Nat

VARIABLES
    tz_initialized, current,   \* of app::run
    lookup_age, \* time since last_tz_lookup_us, or Never
    pending,    \* TimezoneWorker.pending
    request, job, worker, result,  \* channel, coordinates, worker, channel
    persist,    \* where the main loop is in persist_cached, or "no"
    saved,      \* the last change of zone reached NVS or the card
    nvs, sd,    \* key local_tz; file local_tz
    restarts

loopVars == <<tz_initialized, current, lookup_age, pending>>
workerVars == <<request, job, worker, result>>
cacheVars == <<persist, saved, nvs, sd>>
vars == <<gpsVars, loopVars, workerVars, cacheVars, restarts>>

Never == -1

(***************************************************************************)
(* Scheduling: GpsDispatch::on_fix.                                        *)
(***************************************************************************)
LookupInterval == IF tz_initialized THEN LOOKUP_REFRESH ELSE LOOKUP_RETRY

\* Mutant: the interval alone decides, whatever is still out.
MayLookUpAgain == lookup_age = Never \/ lookup_age >= LookupInterval

MayLookUp ==
    /\ lookup_age = Never \/ lookup_age >= LookupInterval
    /\ ~pending

\* maybe_schedule_timezone_lookup and try_request
Schedule(fixed) ==
    IF fixed /\ MayLookUp
    THEN /\ request' = HERE
         /\ pending' = TRUE
         /\ lookup_age' = 0
    ELSE UNCHANGED <<request, pending, lookup_age>>

\* GpsUart::poll with its consumer
GpsRead ==
    /\ persist = "no"
    /\ noisy' = FALSE
    /\ UNCHANGED <<tz_initialized, current, job, worker, result, cacheVars, restarts>>
    /\ \E chunk \in Chunks :
           Poll(chunk, chunk) /\ Schedule(Scan(chunk).fixed)

\* A damaged chunk of several pieces is like its pieces read one by one.
NoisyRead ==
    /\ persist = "no"
    /\ noisy' = TRUE
    /\ UNCHANGED <<tz_initialized, current, job, worker, result, cacheVars, restarts>>
    /\ \E chunk \in Chunks :
           /\ Len(chunk) = 1
           /\ \/ PollDropped(chunk) /\ UNCHANGED <<request, pending, lookup_age>>
              \/ \E received \in Damaged(chunk) :
                     Poll(chunk, received) /\ Schedule(Scan(received).fixed)
    /\ lost' <= MAX_LOST

(***************************************************************************)
(* The worker thread: Open-Meteo first, GeoNames when that names no zone.  *)
(* Its requests end in an error at the latest when they time out.          *)
(***************************************************************************)
WorkerTakes ==
    /\ worker = "idle" /\ request # NoZone
    /\ job' = request /\ request' = NoZone
    /\ worker' = "meteo"
    /\ UNCHANGED <<gpsVars, loopVars, result, cacheVars, restarts>>

WorkerSends(r) ==
    /\ worker' = "idle" /\ job' = NoZone
    /\ result' = r
    /\ UNCHANGED <<gpsVars, loopVars, request, cacheVars, restarts>>

MeteoAnswers == worker = "meteo" /\ WorkerSends(job)

\* A body without a timezone field.
MeteoNamesNone ==
    /\ worker = "meteo"
    /\ worker' = "geonames"
    /\ UNCHANGED <<gpsVars, loopVars, request, job, result, cacheVars, restarts>>

GeonamesAnswers ==
    /\ worker = "geonames"
    /\ \E r \in {job, "nothing"} : WorkerSends(r)

\* A name that is no timezone of chrono_tz.
AnswersInvalid == worker # "idle" /\ WorkerSends("invalid")

FetchFails == worker # "idle" /\ WorkerSends("error")

(***************************************************************************)
(* The main loop's step after the GPS poll.                                *)
(***************************************************************************)

\* tz_offset_hours_at_unix of the snapshot's time, else of the RTC's if it has
\* one.
OffsetFrom(z) ==
    \/ snapshot' = [snapshot EXCEPT !.offset = z]
    \/ ~snapshot.utc /\ UNCHANGED snapshot

\* Mutant: a failed lookup stays pending.
LookupEndsOnSuccess == pending' = (result \in Failures)

\* TimezoneWorker::poll
LookupEnds == pending' = FALSE

ResultFails ==
    /\ persist = "no" /\ result \in Failures
    /\ LookupEnds
    /\ result' = NoZone
    /\ IF tz_initialized THEN OffsetFrom(zone) ELSE UNCHANGED snapshot
    /\ UNCHANGED <<uartVars, zone, tz_initialized, current, lookup_age, request, job, worker,
                   cacheVars, restarts>>

\* Mutant: only the first zone found is stored.
ZoneChangedFirst == current = NoZone

ZoneChanged == result # current

ResultNamesZone ==
    /\ persist = "no" /\ result \in ZONES
    /\ LookupEnds
    /\ zone' = result
    /\ tz_initialized' = TRUE
    /\ result' = NoZone
    /\ current' = result
    /\ IF ZoneChanged
       THEN persist' = "nvs" /\ saved' = FALSE /\ UNCHANGED snapshot
       ELSE UNCHANGED <<persist, saved>> /\ OffsetFrom(result)
    /\ UNCHANGED <<uartVars, lookup_age, request, job, worker, nvs, sd, restarts>>

\* TimezoneStore::save; there may be no store, and the write may fail.
PersistNvs(ok) ==
    /\ persist = "nvs"
    /\ persist' = "sd"
    /\ nvs' = IF ok THEN zone ELSE nvs
    /\ saved' = ok
    /\ UNCHANGED <<gpsVars, loopVars, workerVars, sd, restarts>>

\* save_cached_sd; the card may be missing, and the file be left empty.
PersistSd(ok) ==
    /\ persist = "sd"
    /\ persist' = "no"
    /\ sd' \in IF ok THEN {zone} ELSE {sd, Empty}
    /\ saved' = (saved \/ ok)
    /\ OffsetFrom(zone)
    /\ UNCHANGED <<uartVars, zone, loopVars, workerVars, nvs, restarts>>

(***************************************************************************)
(* Restart and boot: load_timezone_boot.                                   *)
(***************************************************************************)

\* Mutant: the card's copy comes first.
CachedSdFirst(store, card) ==
    IF card /\ sd' \in ZONES THEN sd'
    ELSE IF store THEN nvs' ELSE NoZone

Cached(store, card) ==
    IF store /\ nvs' # NoZone THEN nvs'
    ELSE IF card /\ sd' \in ZONES THEN sd' ELSE NoZone

\* A restart inside persist_cached leaves either copy old, new or, on the card,
\* empty; flashing may erase NVS.
Restart(erase, store, card) ==
    /\ restarts < MAX_RESTARTS
    /\ restarts' = restarts + 1
    /\ nvs' \in IF erase THEN {NoZone} ELSE {nvs} \cup (IF persist = "nvs" THEN {zone} ELSE {})
    /\ sd' \in {sd} \cup (IF persist = "sd" THEN {zone, Empty} ELSE {})
    /\ current' = Cached(store, card)
    /\ GpsBoot(current')
    /\ tz_initialized' = (current' # NoZone)
    /\ lookup_age' = Never /\ pending' = FALSE
    /\ request' = NoZone /\ job' = NoZone /\ worker' = "idle" /\ result' = NoZone
    /\ persist' = "no" /\ saved' = TRUE

Tick ==
    /\ lookup_age' = IF lookup_age \in {Never, LOOKUP_REFRESH} THEN lookup_age ELSE lookup_age + 1
    /\ UNCHANGED <<gpsVars, tz_initialized, current, pending, workerVars, cacheVars, restarts>>

Turns == ReceiverTurns /\ UNCHANGED <<loopVars, workerVars, cacheVars, restarts>>

\* The first boot of the model finds what earlier ones have left.
Init ==
    /\ nvs \in LEFT /\ sd \in LEFT
    /\ current = IF nvs # NoZone THEN nvs ELSE sd
    /\ GpsInit(current)
    /\ tz_initialized = (current # NoZone)
    /\ lookup_age = Never /\ pending = FALSE
    /\ request = NoZone /\ job = NoZone /\ worker = "idle" /\ result = NoZone
    /\ persist = "no" /\ saved = TRUE
    /\ restarts = 0

Fetch ==
    \/ WorkerTakes \/ MeteoAnswers \/ MeteoNamesNone \/ GeonamesAnswers
    \/ AnswersInvalid \/ FetchFails

Apply ==
    \/ ResultFails \/ ResultNamesZone
    \/ \E ok \in BOOLEAN : PersistNvs(ok) \/ PersistSd(ok)

Next ==
    \/ GpsRead \/ NoisyRead \/ Fetch \/ Apply
    \/ \E erase, store, card \in BOOLEAN : Restart(erase, store, card)
    \/ Tick \/ Turns

(***************************************************************************)
(* Sentences keep coming, the loop and the worker go on, and a provider    *)
(* that is asked again and again answers some time.                        *)
(***************************************************************************)
Fairness ==
    /\ WF_vars(GpsRead) /\ WF_vars(Fetch \/ Apply) /\ WF_vars(Tick)
    /\ SF_vars(MeteoAnswers)

Spec == Init /\ [][Next]_vars /\ Fairness
----------------------------------------------------------------------------
(* Properties. *)

\* Type invariant.
TypeOK ==
    /\ receiver \in REPORTS /\ transit \in REPORTS \cup {"none"} /\ lost \in 0 .. MAX_LOST
    /\ line_buf \in Seq(REPORTS \cup {"junk"})
    /\ snapshot \in [fix : BOOLEAN, utc : BOOLEAN, offset : ZONES \cup {NoZone}]
    /\ {zone, current, request, job, nvs} \subseteq ZONES \cup {NoZone}
    /\ result \in ZONES \cup Failures \cup {NoZone} /\ sd \in ZONES \cup {NoZone, Empty}
    /\ {noisy, tz_initialized, pending, saved} \subseteq BOOLEAN
    /\ lookup_age \in Never .. LOOKUP_REFRESH
    /\ worker \in {"idle", "meteo", "geonames"} /\ persist \in {"no", "nvs", "sd"}
    /\ restarts \in 0 .. MAX_RESTARTS

\* line_buf holds nothing from before the last newline that came through,
\* however the chunks are cut (GpsUart::poll).
LineBufBounded == Len(line_buf) <= 2 * lost + 1

\* The snapshot gives up a fix that the receiver keeps reporting as lost,
\* unless noise never ends: no remains of damaged lines keep the report out
\* (GpsUart::poll, parse_rmc).
FixGivenUp == []<>noisy \/ []<>(receiver # "void") \/ <>[](~snapshot.fix)

\* pending says exactly whether a lookup is out, and there is one at most,
\* in the channels or with the worker (TimezoneWorker).
OneLookup ==
    LET out == {p \in {"request", "worker", "result"} :
                  \/ p = "request" /\ request # NoZone
                  \/ p = "worker" /\ worker # "idle"
                  \/ p = "result" /\ result # NoZone}
    IN  pending = (out # {}) /\ \A p, q \in out : p = q

\* The zone in force has a copy to boot from, unless neither copy could be
\* written (apply_timezone_lookup_result, persist_cached).
ZoneIsKept == persist = "no" /\ current # NoZone /\ saved => nvs = current \/ sd = current

\* A restart comes back with the zone it had, unless a copy could not be
\* written, read or outlived a newer one in NVS (load_timezone_boot).
RestartKeepsZone ==
    [][Restart(FALSE, TRUE, TRUE) /\ persist = "no" /\ current # NoZone /\ saved
         => current' = current \/ nvs \notin {current, NoZone}]_vars

\* A device that stays where it is, with a fix and a network, comes to know
\* its zone, after failed lookups, restarts and an older zone
\* (maybe_schedule_timezone_lookup, TimezoneWorker).
ZoneFound ==
    []<>(noisy \/ receiver # "active") \/ <>[](current = HERE)
============================================================================
