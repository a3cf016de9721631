------------------------------ MODULE UiPanel ------------------------------
(***************************************************************************)
(* src/ui_task.rs: the button task (GPIO0, backlight, blanking, watchdog)  *)
(* and the panel task (frames, sensors), which share three atomics and a   *)
(* heartbeat.  A step is one access of a task to what the other can change *)
(* at that moment.                                                         *)
(*                                                                         *)
(* Timestamps are only ever subtracted from the present and compared with  *)
(* a limit, so each is kept as an age that stops at its limit.  render_req,*)
(* the panel's sample of it and last_drawn are only compared for equality: *)
(* stale is render_req # last_drawn, moved is render_req # req.            *)
(***************************************************************************)
EXTENDS Integers

CONSTANTS
    PAGES,               \* number of pages
    BUTTON_DEBOUNCE,     \* limits, in ticks
    BUTTON_HELD_RECOVER,
    PULLUP_REFRESH,
    SCREEN_BLANK,
    DRAW_INTERVAL,
    PANEL_LOOP_STALL,
    LAP_MAX,             \* ticks a lap of a panel loop that does not hang may last
    QUEUE_MAX,           \* age of a queued RTC time that QueuedTimeInTime allows
    MAX_MUX              \* bound on the IO-mux resets a USB charger causes

ASSUME UiAssumption ==
    /\ PAGES \in Nat \ {0}
    /\ BUTTON_DEBOUNCE \in Nat /\ BUTTON_DEBOUNCE > 1
    /\ BUTTON_HELD_RECOVER \in Nat \ {0} /\ PULLUP_REFRESH \in Nat \ {0}
    /\ SCREEN_BLANK \in Nat \ {0} /\ DRAW_INTERVAL \in Nat \ {0}
    /\ LAP_MAX \in Nat \ {0} /\ PANEL_LOOP_STALL \in Nat
    /\ LAP_MAX < PANEL_LOOP_STALL
    /\ QUEUE_MAX \in Nat /\ QUEUE_MAX < SCREEN_BLANK /\ MAX_MUX \in Nat

Pages == 0 .. PAGES - 1

NoPage == -1

VARIABLES
    page, screen_on, stale,  \* UiControl, with last_drawn folded into stale
    moved, drawing,          \* the panel's samples of render_req and page
    shown,                   \* page of the last finished frame
    panel_pc, hung,          \* panel task; hung in an SPI wait that never ends
    queued,                  \* rtc_write_pending # 0
    button_pc, edge_press, last_level,     \* button task
    edges, armed,            \* BUTTON_EDGES # last_edges; interrupt enabled
    pressed, mux, mux_lost,  \* the finger; IO-mux resets so far; pin mode lost
    age,                     \* time since each remembered instant
    ran,                     \* the button task has lapped since the last tick
    acted                    \* the latest fall of the line was acted upon

uiVars == <<page, screen_on, stale, moved, drawing, shown, panel_pc, hung, queued>>
buttonVars == <<button_pc, edge_press, last_level, edges, armed, ran, acted>>
lineVars == <<pressed, mux, mux_lost>>
vars == <<uiVars, buttonVars, lineVars, age>>

Limit == [action |-> BUTTON_DEBOUNCE, interaction |-> SCREEN_BLANK,
          redraw |-> DRAW_INTERVAL, low |-> BUTTON_HELD_RECOVER,
          recover |-> PULLUP_REFRESH, panel |-> PANEL_LOOP_STALL, lap |-> LAP_MAX,
          queue |-> QUEUE_MAX + 1]

Timers == DOMAIN Limit

Expired(t) == age[t] >= Limit[t]

Restarted(ts) == [t \in Timers |-> IF t \in ts THEN 0 ELSE age[t]]

NextPage(p) == (p + 1) % PAGES

LineLow == pressed \/ mux_lost

(***************************************************************************)
(* UiTaskHandle::spawn, then the tops of both tasks.  The timestamps that  *)
(* start at zero lie far back.                                             *)
(***************************************************************************)
SpawnAge == [t \in Timers |-> IF t \in {"action", "recover"} THEN Limit[t] ELSE 0]

Init ==
    /\ page = 0 /\ screen_on = TRUE /\ stale = TRUE
    /\ moved = FALSE /\ drawing = NoPage /\ shown = NoPage
    /\ panel_pc = "top" /\ hung = FALSE /\ queued = FALSE
    /\ button_pc = "idle" /\ edge_press = FALSE /\ last_level = FALSE
    /\ edges = FALSE /\ armed = TRUE /\ ran = TRUE /\ acted = TRUE
    /\ pressed = FALSE /\ mux = 0 /\ mux_lost = FALSE
    /\ age = SpawnAge

(***************************************************************************)
(* The line and time.  An interrupt is disabled as it fires.  The button   *)
(* task outranks all but the main loop and laps at least once per tick;    *)
(* a panel lap that does not hang ends within LAP_MAX.                     *)
(***************************************************************************)
Fall ==
    /\ edges' = (edges \/ armed)
    /\ armed' = FALSE
    /\ acted' = FALSE

Press ==
    /\ ~pressed
    /\ pressed' = TRUE
    /\ IF mux_lost THEN UNCHANGED <<edges, armed, acted>> ELSE Fall
    /\ UNCHANGED <<uiVars, button_pc, edge_press, last_level, ran, mux, mux_lost, age>>

Release ==
    /\ pressed
    /\ pressed' = FALSE
    /\ UNCHANGED <<uiVars, buttonVars, mux, mux_lost, age>>

UsbMuxReset ==
    /\ mux < MAX_MUX
    /\ ~mux_lost
    /\ mux' = mux + 1
    /\ mux_lost' = TRUE
    /\ IF pressed THEN UNCHANGED <<edges, armed, acted>> ELSE Fall
    /\ UNCHANGED <<uiVars, button_pc, edge_press, last_level, ran, pressed, age>>

Tick ==
    /\ button_pc = "idle" /\ ran
    /\ hung \/ ~Expired("lap")
    /\ ran' = FALSE
    /\ age' = [t \in Timers |-> IF Expired(t) \/ (t = "queue" /\ ~queued) THEN age[t] ELSE age[t] + 1]
    /\ UNCHANGED <<uiVars, button_pc, edge_press, last_level, edges, armed, acted, lineVars>>

(***************************************************************************)
(* Button task.                                                            *)
(***************************************************************************)
ButtonEdges ==
    /\ button_pc = "idle"
    /\ button_pc' = "level"
    /\ edge_press' = edges
    /\ edges' = FALSE
    /\ armed' = (armed \/ edges)
    /\ UNCHANGED <<uiVars, last_level, ran, acted, lineVars, age>>

RecoverDue == LineLow /\ last_level /\ Expired("low") /\ Expired("recover")

\* restore_button_input: the edge it may post is consumed, and leaves the
\* interrupt disabled.
RestoreButtonInput ==
    IF RecoverDue
    THEN mux_lost' = FALSE /\ edges' = FALSE /\ armed' \in BOOLEAN
    ELSE UNCHANGED <<mux_lost, edges, armed>>

\* Mutant: no debounce.
PressDueAlways == edge_press \/ (LineLow /\ ~last_level)

PressDue == (edge_press \/ (LineLow /\ ~last_level)) /\ Expired("action")

ButtonLevel ==
    /\ button_pc = "level"
    /\ RestoreButtonInput
    /\ last_level' = LineLow
    /\ edge_press' = FALSE
    /\ age' = Restarted(   (IF LineLow /\ last_level THEN {} ELSE {"low"})
                      \cup (IF RecoverDue THEN {"recover"} ELSE {})
                      \cup (IF PressDue THEN {"action", "interaction", "redraw"} ELSE {}))
    /\ IF PressDue
       THEN /\ screen_on' = TRUE
            /\ page' = IF screen_on THEN NextPage(page) ELSE page
            /\ acted' = TRUE
            /\ button_pc' = "request"
       ELSE /\ UNCHANGED <<screen_on, page, acted>>
            /\ button_pc' = "rest"
    /\ UNCHANGED <<stale, moved, drawing, shown, panel_pc, hung, queued, ran, pressed, mux>>

\* render_req.fetch_add
RenderRequest == stale' = TRUE /\ moved' = TRUE

ButtonRequest ==
    /\ button_pc = "request"
    /\ button_pc' = "rest"
    /\ RenderRequest
    /\ UNCHANGED <<page, screen_on, drawing, shown, panel_pc, hung, queued, edge_press, last_level, edges,
                   armed, ran, acted, lineVars, age>>

Blanks == screen_on /\ Expired("interaction")

RedrawDue == screen_on /\ ~Blanks /\ Expired("redraw")

\* Mutant: a blanked screen cancels the deadline.
PanelStalledLit == screen_on /\ Expired("panel")

PanelStalled == Expired("panel")

ButtonRest ==
    /\ button_pc = "rest"
    /\ ~PanelStalled \/ LineLow
    /\ button_pc' = "idle"
    /\ ran' = TRUE
    /\ screen_on' = (screen_on /\ ~Blanks)
    /\ IF RedrawDue
       THEN RenderRequest /\ age' = Restarted({"redraw"})
       ELSE UNCHANGED <<stale, moved, age>>
    /\ UNCHANGED <<page, drawing, shown, panel_pc, hung, queued, edge_press, last_level, edges, armed,
                   acted, lineVars>>

\* esp_restart, boot and spawn
RestartStalledPanel ==
    /\ button_pc = "rest"
    /\ PanelStalled /\ ~LineLow
    /\ page' = 0 /\ screen_on' = TRUE /\ stale' = TRUE
    /\ moved' = FALSE /\ drawing' = NoPage /\ shown' = NoPage
    /\ panel_pc' = "top" /\ hung' = FALSE /\ queued' = FALSE
    /\ button_pc' = "idle" /\ edge_press' = FALSE /\ last_level' = FALSE
    /\ edges' = FALSE /\ armed' = TRUE /\ ran' = TRUE /\ acted' = TRUE
    /\ age' = SpawnAge
    /\ UNCHANGED lineVars

(***************************************************************************)
(* Panel task.                                                             *)
(***************************************************************************)
\* Mutant: the heartbeat is stored with a frame only.
PanelTopWithFrame ==
    /\ panel_pc = "top"
    /\ age' = Restarted(IF screen_on /\ stale THEN {"panel", "lap"} ELSE {"lap"})
    /\ moved' = FALSE
    /\ panel_pc' = IF screen_on /\ stale THEN "page" ELSE "sense"
    /\ UNCHANGED <<page, screen_on, stale, drawing, shown, hung, queued, buttonVars, lineVars>>

\* Mutant: the request number is sampled once, before the loop.
PanelTopSampledOnce ==
    /\ panel_pc = "top"
    /\ age' = Restarted({"panel", "lap"})
    /\ panel_pc' = IF screen_on /\ stale THEN "page" ELSE "sense"
    /\ UNCHANGED <<page, screen_on, stale, moved, drawing, shown, hung, queued, buttonVars, lineVars>>

PanelTop ==
    /\ panel_pc = "top"
    /\ age' = Restarted({"panel", "lap"})
    /\ moved' = FALSE
    /\ panel_pc' = IF screen_on /\ stale THEN "page" ELSE "sense"
    /\ UNCHANGED <<page, screen_on, stale, drawing, shown, hung, queued, buttonVars, lineVars>>

PanelPage ==
    /\ panel_pc = "page"
    /\ panel_pc' = "draw"
    /\ drawing' = page
    /\ UNCHANGED <<page, screen_on, stale, moved, shown, hung, queued, buttonVars, lineVars, age>>

DrawPage ==
    /\ panel_pc = "draw" /\ ~hung
    /\ panel_pc' = "check"
    /\ shown' = drawing
    /\ UNCHANGED <<page, screen_on, stale, moved, drawing, hung, queued, buttonVars, lineVars, age>>

DrawHangs ==
    /\ panel_pc = "draw" /\ ~hung
    /\ hung' = TRUE
    /\ UNCHANGED <<page, screen_on, stale, moved, drawing, shown, panel_pc, queued, buttonVars, lineVars,
                   age>>

\* Mutant: the newest request is taken for drawn.
PanelCheckNewest ==
    /\ panel_pc = "check"
    /\ panel_pc' = "sense"
    /\ stale' = FALSE
    /\ drawing' = NoPage
    /\ UNCHANGED <<page, screen_on, moved, shown, hung, queued, buttonVars, lineVars, age>>

PanelCheck ==
    /\ panel_pc = "check"
    /\ panel_pc' = "sense"
    /\ stale' = (stale /\ (page # drawing \/ moved))
    /\ drawing' = NoPage
    /\ UNCHANGED <<page, screen_on, moved, shown, hung, queued, buttonVars, lineVars, age>>

\* Mutant: the sensors wait for the backlight to go off.
FramePendingLit == screen_on

FramePending == screen_on /\ stale

PanelSense ==
    /\ panel_pc = "sense"
    /\ panel_pc' = "top"
    /\ IF FramePending
       THEN UNCHANGED <<queued, age>>
       ELSE queued' = FALSE /\ age' = Restarted({"queue"})
    /\ UNCHANGED <<page, screen_on, stale, moved, drawing, shown, hung, buttonVars, lineVars>>

\* The main loop's request_rtc_write.
RequestRtcWrite ==
    /\ ~queued
    /\ queued' = TRUE
    /\ UNCHANGED <<page, screen_on, stale, moved, drawing, shown, panel_pc, hung, buttonVars, lineVars,
                   age>>

ButtonTask == ButtonEdges \/ ButtonLevel \/ ButtonRequest \/ ButtonRest \/ RestartStalledPanel

PanelTask == PanelTop \/ PanelPage \/ DrawPage \/ PanelCheck \/ PanelSense

Next ==
    \/ Press \/ Release \/ UsbMuxReset \/ Tick
    \/ ButtonTask \/ PanelTask \/ DrawHangs \/ RequestRtcWrite

Spec == Init /\ [][Next]_vars /\ SF_vars(Tick) /\ WF_vars(ButtonTask) /\ WF_vars(PanelTask)
----------------------------------------------------------------------------
(* Properties. *)

\* Type invariant.
TypeOK ==
    /\ page \in Pages /\ drawing \in Pages \cup {NoPage} /\ shown \in Pages \cup {NoPage}
    /\ {screen_on, stale, moved, hung, queued, edge_press, last_level, edges, armed, ran, acted, pressed,
        mux_lost} \subseteq BOOLEAN
    /\ panel_pc \in {"top", "page", "draw", "check", "sense"}
    /\ button_pc \in {"idle", "level", "request", "rest"}
    /\ mux \in 0 .. MAX_MUX
    /\ age \in [Timers -> Nat] /\ \A t \in Timers : age[t] <= Limit[t]

\* When the panel has nothing left to draw, the frame on the glass is the
\* page the button selected, whenever the press came (ui_task.rs:520-526).
FrameCurrent == ~stale /\ button_pc # "request" => shown = page

\* The watchdog never takes a panel for dead that still laps, blanked or
\* not, drawing or idle (ui_task.rs:443-456).
OnlyHungRestarts == [][RestartStalledPanel => hung]_vars

\* One press turns at most one page or wakes the screen once, although the
\* interrupt and the level both report it and a pin repair posts edges
\* (ui_task.rs:364-424).
OneActionPerPress ==
    [][ButtonLevel /\ button_pc' = "request" => ~acted]_vars

\* A hung panel is restarted once the finger is off the button for good,
\* with the backlight off and with a pin that a charger holds low, too.
StallEnds == []<>pressed \/ (hung ~> ~hung)

\* A frame on a lit screen is drawn within two laps of the last request for
\* it: a press during a draw costs one more draw, and no request is missed
\* (panel_task_main).
FrameInTime == FramePending /\ ~hung => age["redraw"] <= 2 * LAP_MAX

\* A time queued for the RTC is at most QUEUE_MAX old when it is written,
\* counted from the last press: frames put the sensors off only while
\* presses keep coming (panel_task_main, sample_sensors).
QueuedTimeInTime == queued /\ ~hung => age["queue"] <= QUEUE_MAX \/ age["interaction"] <= QUEUE_MAX
============================================================================
