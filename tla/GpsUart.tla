------------------------------ MODULE GpsUart ------------------------------
(***************************************************************************)
(* src/gps.rs: the NMEA bytes of the receiver arrive at GpsUart::poll in   *)
(* chunks that are cut anywhere and may be damaged; complete lines are     *)
(* taken out of line_buf and parsed into the snapshot.                     *)
(*                                                                         *)
(* A sentence is sent as two pieces, a start and the rest with the newline,*)
(* and a chunk may end after either.  The checksum of a line holds for the *)
(* two pieces of one sentence and nothing else: a damaged piece is junk,   *)
(* and so is a start whose rest can no longer come.  The GGA sentences and *)
(* whatever else the receiver sends are cut and taken out alike and change *)
(* nothing that is kept here.                                              *)
(***************************************************************************)
EXTENDS Integers, Sequences, SequencesExt

CONSTANTS
    REPORTS,    \* RMC sentences of the receiver
    ZONES,      \* timezones
    NoZone,
    MAX_LOST    \* bound: newlines lost one after another

(* "active" and "void" carry a time and a date; in "undated" they are no    *)
(* calendar time (23:59:60); "blank" is void without them.                  *)
ASSUME GpsAssumption ==
    /\ REPORTS # {} /\ REPORTS \subseteq {"active", "void", "undated", "blank"}
    /\ NoZone \notin ZONES /\ MAX_LOST \in Nat

VARIABLES
    receiver,   \* the RMC sentence the receiver sends at present
    transit,    \* sentence whose start has been read, or "none"
    noisy,      \* the last chunk was damaged
    lost,       \* newlines lost since the last one that came through
    line_buf,   \* the start of a sentence, or so many pieces of "junk"
    snapshot,   \* fix, whether utc_unix_seconds is set, zone of tz_offset_hours
    zone        \* RUNTIME_TZ

uartVars == <<receiver, transit, noisy, lost, line_buf>>
gpsVars == <<uartVars, snapshot, zone>>

Piece(text, of, nl, end) == [text |-> text, of |-> of, nl |-> nl, end |-> end]

Start(s) == Piece("start", s, FALSE, FALSE)
Rest(s)  == Piece("rest", s, TRUE, TRUE)

\* A damaged piece; its newline may be gone, or a new one have come about.
Junk(p, nl) == Piece("junk", "none", nl, p.end)

(***************************************************************************)
(* Parsing.                                                                *)
(***************************************************************************)

\* What can no longer become a sentence.
Broken(line) == [i \in DOMAIN line |-> "junk"]

\* nmea_checksum_valid and the tests on the beginning of a line
SentenceOf(line, p) == IF p.text = "rest" /\ line = <<p.of>> THEN p.of ELSE "none"

\* Mutant: a sentence without a position is given up before its status.
HasTimeAndPosition(s) == s \in {"active", "undated"}

HasTime(s) == s \in {"active", "void", "undated"}

\* parse_rmc; position is left out.
ParseRmc(s, snap) ==
    IF ~HasTime(s) THEN snap
    ELSE [fix |-> s # "void",
          utc |-> s # "undated",
          offset |-> IF s # "undated" THEN zone ELSE NoZone]

\* GpsConsumer::on_fix is called
CallsOnFix(s) == HasTime(s) /\ s # "void"

\* One piece of a chunk.
Push(st, p) ==
    LET s == SentenceOf(st.line, p)
    IN  IF ~p.nl
        THEN [st EXCEPT !.line = IF p.text = "start" /\ @ = <<>> THEN <<p.of>>
                                 ELSE Broken(Append(@, p.text)),
                        !.lost = IF p.end THEN @ + 1 ELSE @]
        ELSE [line |-> <<>>, lost |-> 0,
              snap |-> IF s # "none" THEN ParseRmc(s, st.snap) ELSE st.snap,
              fixed |-> st.fixed \/ CallsOnFix(s)]

Unread == [line |-> line_buf, lost |-> lost, snap |-> snapshot, fixed |-> FALSE]

\* Mutant: one line is taken out of the buffer per poll.
ScanOneLine(chunk) ==
    LET ends == {i \in DOMAIN chunk : chunk[i].nl}
        n == IF ends = {} THEN Len(chunk) ELSE CHOOSE i \in ends : \A j \in ends : i <= j
        st == FoldLeft(Push, Unread, SubSeq(chunk, 1, n))
    IN  [st EXCEPT !.line = Broken(@ \o SubSeq(chunk, n + 1, Len(chunk)))]

Scan(chunk) == FoldLeft(Push, Unread, chunk)

(***************************************************************************)
(* What a read returns: the rest of the sentence in transit, at most one   *)
(* whole sentence, at most one more start.                                 *)
(***************************************************************************)
Chunks ==
    LET first  == IF transit = "none" THEN <<>> ELSE <<Rest(transit)>>
        middle == {<<>>, <<Start(receiver), Rest(receiver)>>}
        last   == {<<>>, <<Start(receiver)>>}
    IN  {first \o m \o l : m \in middle, l \in last} \ {<<>>}

\* One piece of the chunk is damaged and the whole still UTF-8.
Damaged(chunk) ==
    {[chunk EXCEPT ![i] = Junk(@, nl)] : i \in DOMAIN chunk, nl \in BOOLEAN}

TransitAfter(chunk) == IF Last(chunk).text = "start" THEN Last(chunk).of ELSE "none"

\* poll on what the read returned
Poll(sent, received) ==
    LET st == Scan(received)
    IN  /\ transit' = TransitAfter(sent)
        /\ line_buf' = st.line /\ snapshot' = st.snap /\ lost' = st.lost
        /\ UNCHANGED <<receiver, zone>>

\* poll on bytes that are not UTF-8: no rest completes what is in the buffer.
PollDropped(sent) ==
    /\ transit' = TransitAfter(sent)
    /\ lost' = lost + Cardinality({i \in DOMAIN sent : sent[i].end})
    /\ line_buf' = Broken(line_buf)
    /\ UNCHANGED <<receiver, snapshot, zone>>

ReceiverTurns ==
    /\ receiver' \in REPORTS \ {receiver}
    /\ UNCHANGED <<transit, noisy, lost, line_buf, snapshot, zone>>

\* Board bring-up: load_timezone_boot has found a zone or none, the RTC gives
\* a time to take its offset at or not, and discard_backlog empties the buffer.
GpsBoot(cached) ==
    /\ zone' = cached
    /\ snapshot' \in [fix : {FALSE}, utc : {FALSE}, offset : {cached, NoZone}]
    /\ transit' \in {"none", receiver}
    /\ line_buf' = <<>> /\ lost' = 0 /\ noisy' = FALSE
    /\ UNCHANGED receiver

GpsInit(cached) ==
    /\ receiver \in REPORTS
    /\ transit = "none" /\ noisy = FALSE /\ lost = 0 /\ line_buf = <<>>
    /\ snapshot = [fix |-> FALSE, utc |-> FALSE, offset |-> cached]
    /\ zone = cached
============================================================================
