---------------------------- MODULE UiPanel_proofs ----------------------------
(***************************************************************************)
(* Proofs about UiPanel, for every number of pages and every limit of the  *)
(* code's order: the frame on the glass, how late it can be, and whom the  *)
(* watchdog restarts.                                                      *)
(***************************************************************************)
EXTENDS UiPanel, TLAPS

AllTimers == {"action", "interaction", "redraw", "low", "recover", "panel", "lap", "queue"}

(* The limits of ui_task.rs are natural numbers. *)
LEMMA TimerFacts ==
  /\ Timers = AllTimers
  /\ Limit \in [AllTimers -> Nat]
  /\ Limit["redraw"] = DRAW_INTERVAL
  /\ Limit["lap"] = LAP_MAX /\ Limit["panel"] = PANEL_LOOP_STALL
BY UiAssumption DEF Timers, Limit, AllTimers

Ages == [AllTimers -> Nat]

AgesOK(a) == a \in Ages /\ \A t \in AllTimers : a[t] <= Limit[t]

(* Restarting timers keeps the ages within their limits. *)
LEMMA RestartedOK ==
  ASSUME AgesOK(age), NEW ts
  PROVE  /\ AgesOK(Restarted(ts))
         /\ \A t \in AllTimers : Restarted(ts)[t] = IF t \in ts THEN 0 ELSE age[t]
<1>1. Restarted(ts) = [t \in AllTimers |-> IF t \in ts THEN 0 ELSE age[t]]
  BY TimerFacts DEF Restarted
<1>2. \A t \in AllTimers : age[t] \in Nat /\ Limit[t] \in Nat
  BY TimerFacts DEF AgesOK, Ages
<1> QED BY <1>1, <1>2 DEF AgesOK, Ages

(* The ages after UiTaskHandle::spawn. *)
LEMMA SpawnOK ==
  /\ AgesOK(SpawnAge)
  /\ SpawnAge["redraw"] = 0 /\ SpawnAge["panel"] = 0 /\ SpawnAge["lap"] = 0
<1>1. SpawnAge = [t \in AllTimers |-> IF t \in {"action", "recover"} THEN Limit[t] ELSE 0]
  BY TimerFacts DEF SpawnAge
<1>2. \A t \in AllTimers : Limit[t] \in Nat
  BY TimerFacts
<1> QED BY <1>1, <1>2 DEF AgesOK, Ages, AllTimers

(* A tick ages what has not run out. *)
LEMMA TickOK ==
  ASSUME AgesOK(age), Tick
  PROVE  /\ AgesOK(age')
         /\ \A t \in AllTimers \ {"queue"} :
              age'[t] = IF age[t] >= Limit[t] THEN age[t] ELSE age[t] + 1
<1>1. age' = [t \in AllTimers |-> IF age[t] >= Limit[t] \/ (t = "queue" /\ ~queued)
                                  THEN age[t] ELSE age[t] + 1]
  BY TimerFacts DEF Tick, Expired
<1>2. \A t \in AllTimers : age[t] \in Nat /\ Limit[t] \in Nat /\ age[t] <= Limit[t]
  BY TimerFacts DEF AgesOK, Ages
<1>3. age' \in Ages /\ \A t \in AllTimers : age'[t] <= Limit[t]
  BY <1>1, <1>2 DEF Ages
<1>4. \A t \in AllTimers \ {"queue"} :
        age'[t] = IF age[t] >= Limit[t] THEN age[t] ELSE age[t] + 1
  BY <1>1
<1> QED BY <1>3, <1>4 DEF AgesOK

Booleans ==
  /\ screen_on \in BOOLEAN /\ stale \in BOOLEAN /\ moved \in BOOLEAN /\ hung \in BOOLEAN
  /\ queued \in BOOLEAN /\ edge_press \in BOOLEAN /\ last_level \in BOOLEAN
  /\ edges \in BOOLEAN /\ armed \in BOOLEAN /\ ran \in BOOLEAN /\ acted \in BOOLEAN
  /\ pressed \in BOOLEAN /\ mux_lost \in BOOLEAN

Places ==
  /\ page \in Pages /\ drawing \in Pages \cup {NoPage} /\ shown \in Pages \cup {NoPage}
  /\ panel_pc \in {"top", "page", "draw", "check", "sense"}
  /\ button_pc \in {"idle", "level", "request", "rest"}
  /\ mux \in 0 .. MAX_MUX

(* The parts together are the type invariant. *)
LEMMA TypeParts == TypeOK <=> Booleans /\ Places /\ AgesOK(age)
<1>1. AgesOK(age) <=> age \in [Timers -> Nat] /\ \A t \in Timers : age[t] <= Limit[t]
  BY TimerFacts DEF Ages, AgesOK
<1>2. Booleans <=>
        {screen_on, stale, moved, hung, queued, edge_press, last_level, edges, armed, ran, acted,
         pressed, mux_lost} \subseteq BOOLEAN
  BY Zenon DEF Booleans
<1> QED BY <1>1, <1>2 DEF TypeOK, Places

(* The flags stay flags. *)
LEMMA BooleansStep ==
  ASSUME Booleans, [Next]_vars
  PROVE  Booleans'
<1> USE DEF Booleans, uiVars, buttonVars, lineVars
<1>1. CASE Press
  BY <1>1 DEF Press, Fall, LineLow
<1>2. CASE Release
  BY <1>2 DEF Release
<1>3. CASE UsbMuxReset
  BY <1>3 DEF UsbMuxReset, Fall
<1>4. CASE Tick
  BY <1>4 DEF Tick
<1>5. CASE ButtonEdges
  BY <1>5 DEF ButtonEdges
<1>6. CASE ButtonLevel
  BY <1>6 DEF ButtonLevel, RestoreButtonInput, LineLow
<1>7. CASE ButtonRequest
  BY <1>7 DEF ButtonRequest, RenderRequest
<1>8. CASE ButtonRest
  BY <1>8 DEF ButtonRest, RenderRequest, Blanks
<1>9. CASE RestartStalledPanel
  BY <1>9 DEF RestartStalledPanel
<1>10. CASE PanelTop
  BY <1>10 DEF PanelTop
<1>11. CASE PanelPage
  BY <1>11 DEF PanelPage
<1>12. CASE DrawPage
  BY <1>12 DEF DrawPage
<1>13. CASE PanelCheck
  BY <1>13 DEF PanelCheck
<1>14. CASE PanelSense
  BY <1>14 DEF PanelSense
<1>15. CASE DrawHangs
  BY <1>15 DEF DrawHangs
<1>16. CASE RequestRtcWrite
  BY <1>16 DEF RequestRtcWrite
<1>17. CASE UNCHANGED vars
  BY <1>17 DEF vars
<1> QED
  BY <1>1, <1>2, <1>3, <1>4, <1>5, <1>6, <1>7, <1>8, <1>9, <1>10, <1>11, <1>12, <1>13, <1>14, <1>15, <1>16, <1>17
     DEF Next, ButtonTask, PanelTask

(* The next page is a page. *)
LEMMA NextPageOK == ASSUME NEW p \in Pages PROVE NextPage(p) \in Pages
BY UiAssumption DEF Pages, NextPage

(* Pages and program counters stay in range. *)
LEMMA PlacesStep ==
  ASSUME Places, [Next]_vars
  PROVE  Places'
<1> USE DEF Places, uiVars, buttonVars, lineVars
<1>0. 0 \in Pages
  BY UiAssumption DEF Pages
<1>1. CASE Press
  BY <1>1 DEF Press
<1>2. CASE Release
  BY <1>2 DEF Release
<1>3. CASE UsbMuxReset
  BY <1>3, UiAssumption DEF UsbMuxReset
<1>4. CASE Tick
  BY <1>4 DEF Tick
<1>5. CASE ButtonEdges
  BY <1>5 DEF ButtonEdges
<1>6. CASE ButtonLevel
  BY <1>6, NextPageOK DEF ButtonLevel, RestoreButtonInput
<1>7. CASE ButtonRequest
  BY <1>7 DEF ButtonRequest
<1>8. CASE ButtonRest
  BY <1>8 DEF ButtonRest
<1>9. CASE RestartStalledPanel
  BY <1>9, <1>0 DEF RestartStalledPanel
<1>10. CASE PanelTop
  BY <1>10 DEF PanelTop
<1>11. CASE PanelPage
  BY <1>11 DEF PanelPage
<1>12. CASE DrawPage
  BY <1>12 DEF DrawPage
<1>13. CASE PanelCheck
  BY <1>13 DEF PanelCheck
<1>14. CASE PanelSense
  BY <1>14 DEF PanelSense
<1>15. CASE DrawHangs
  BY <1>15 DEF DrawHangs
<1>16. CASE RequestRtcWrite
  BY <1>16 DEF RequestRtcWrite
<1>17. CASE UNCHANGED vars
  BY <1>17 DEF vars
<1> QED
  BY <1>1, <1>2, <1>3, <1>4, <1>5, <1>6, <1>7, <1>8, <1>9, <1>10, <1>11, <1>12, <1>13, <1>14, <1>15, <1>16, <1>17
     DEF Next, ButtonTask, PanelTask

(* The ages stay within their limits. *)
LEMMA AgesStep ==
  ASSUME AgesOK(age), [Next]_vars
  PROVE  AgesOK(age')
<1>1. CASE UNCHANGED age
  BY <1>1
<1>2. CASE \E ts \in SUBSET AllTimers : age' = Restarted(ts)
  BY <1>2, RestartedOK
<1>3. CASE Tick
  BY <1>3, TickOK
<1>4. CASE RestartStalledPanel
  BY <1>4, SpawnOK DEF RestartStalledPanel
<1>5. CASE ButtonLevel
  <2>1. \E ts : age' = Restarted(ts)
    BY <1>5 DEF ButtonLevel
  <2> QED BY <2>1, RestartedOK
<1>6. CASE ButtonRest \/ PanelTop \/ PanelSense
  BY <1>6, <1>1, <1>2 DEF ButtonRest, PanelTop, PanelSense, AllTimers
<1>7. CASE Press \/ Release \/ UsbMuxReset
  BY <1>7, <1>1 DEF Press, Release, UsbMuxReset
<1>8. CASE ButtonEdges \/ ButtonRequest
  BY <1>8, <1>1 DEF ButtonEdges, ButtonRequest
<1>9. CASE PanelPage \/ DrawPage \/ PanelCheck \/ DrawHangs \/ RequestRtcWrite
  BY <1>9, <1>1 DEF PanelPage, DrawPage, PanelCheck, DrawHangs, RequestRtcWrite
<1>10. CASE UNCHANGED vars
  BY <1>10, <1>1 DEF vars
<1> QED
  BY <1>3, <1>4, <1>5, <1>6, <1>7, <1>8, <1>9, <1>10 DEF Next, ButtonTask, PanelTask

(* Type correctness of both tasks. *)
THEOREM TypeHolds == Spec => []TypeOK
<1> DEFINE T == Booleans /\ Places /\ AgesOK(age)
<1>1. Init => T
  <2>1. ASSUME Init PROVE Booleans
    BY <2>1, Zenon DEF Init, Booleans
  <2>2. 0 \in Pages /\ 0 \in 0 .. MAX_MUX
    BY UiAssumption DEF Pages
  <2>3. ASSUME Init PROVE Places
    BY <2>2, <2>3, Zenon DEF Init, Places
  <2>4. ASSUME Init PROVE AgesOK(age)
    BY <2>4, SpawnOK DEF Init
  <2> QED BY <2>1, <2>3, <2>4
<1>2. T /\ [Next]_vars => T'
  <2> SUFFICES ASSUME T, [Next]_vars PROVE T'
    OBVIOUS
  <2>1. Booleans' /\ Places' /\ AgesOK(age')
    BY BooleansStep, PlacesStep, AgesStep
  <2>2. AgesOK(age') <=> AgesOK(age)'
    BY DEF AgesOK, Ages, Limit
  <2> QED BY <2>1, <2>2
<1>3. T => TypeOK
  BY TypeParts
<1> QED BY <1>1, <1>2, <1>3, PTL DEF Spec

(* What is drawn is asked for, and a drawn frame is the page it was drawn   *)
(* for, until the panel has compared it with what is wanted.                *)
FrameInv ==
  /\ panel_pc \in {"page", "draw", "check"} => stale
  /\ panel_pc = "check" => shown = drawing
  /\ FrameCurrent

(* Every step keeps the frame invariant. *)
LEMMA FrameStep ==
  ASSUME Booleans, FrameInv, [Next]_vars
  PROVE  FrameInv'
<1> USE DEF FrameInv, FrameCurrent, Booleans, uiVars
<1>1. CASE Press \/ Release \/ UsbMuxReset \/ Tick
  BY <1>1 DEF Press, Release, UsbMuxReset, Tick, buttonVars
<1>2. CASE ButtonEdges
  BY <1>2 DEF ButtonEdges
<1>3. CASE ButtonLevel
  BY <1>3 DEF ButtonLevel
<1>4. CASE ButtonRequest
  BY <1>4 DEF ButtonRequest, RenderRequest
<1>5. CASE ButtonRest
  BY <1>5 DEF ButtonRest, RenderRequest
<1>6. CASE RestartStalledPanel
  BY <1>6 DEF RestartStalledPanel
<1>7. CASE PanelTop
  BY <1>7 DEF PanelTop, buttonVars
<1>8. CASE PanelPage \/ DrawPage \/ DrawHangs
  BY <1>8 DEF PanelPage, DrawPage, DrawHangs, buttonVars
<1>9. CASE PanelCheck
  BY <1>9 DEF PanelCheck, buttonVars
<1>10. CASE PanelSense \/ RequestRtcWrite
  BY <1>10 DEF PanelSense, RequestRtcWrite, buttonVars
<1>11. CASE UNCHANGED vars
  BY <1>11 DEF vars, buttonVars
<1> QED
  BY <1>1, <1>2, <1>3, <1>4, <1>5, <1>6, <1>7, <1>8, <1>9, <1>10, <1>11
     DEF Next, ButtonTask, PanelTask

(* When the panel has nothing left to draw, the frame on the glass is the   *)
(* page the button selected, whenever the press came (panel_task_main).     *)
THEOREM FrameCurrentHolds == Spec => []FrameCurrent
<1>1. Init => FrameInv
  BY DEF Init, FrameInv, FrameCurrent
<1>2. Booleans /\ FrameInv /\ [Next]_vars => FrameInv'
  BY FrameStep
<1>3. FrameInv => FrameCurrent
  BY DEF FrameInv
<1>4. TypeOK => Booleans
  BY TypeParts
<1> QED BY <1>1, <1>2, <1>3, <1>4, TypeHolds, PTL DEF Spec

(* A panel that does not hang has lapped within LAP_MAX: its heartbeat is   *)
(* no older than its lap.                                                   *)
LapInv == hung \/ (age["panel"] <= age["lap"] /\ age["lap"] <= LAP_MAX)

(* Every step keeps the heartbeat within the lap. *)
LEMMA LapStep ==
  ASSUME AgesOK(age), LapInv, [Next]_vars
  PROVE  LapInv'
<1> USE DEF LapInv
<1>0. age["panel"] \in Nat /\ age["lap"] \in Nat /\ {"panel", "lap"} \subseteq AllTimers
  BY DEF AgesOK, Ages, AllTimers
<1>1. CASE UNCHANGED <<age, hung>>
  BY <1>1
<1>2. CASE Tick
  <2>1. UNCHANGED hung
    BY <1>2 DEF Tick, uiVars
  <2>2. hung \/ age["lap"] < LAP_MAX
    BY <1>0, <1>2, TimerFacts, UiAssumption DEF Tick, Expired
  <2>3. CASE age["lap"] < LAP_MAX /\ ~hung
    <3>1. age'["lap"] = age["lap"] + 1 /\ age'["panel"] = age["panel"] + 1
      BY <1>0, <1>2, <2>3, TickOK, TimerFacts, UiAssumption
    <3> QED BY <1>0, <2>1, <2>3, <3>1, UiAssumption
  <2> QED BY <2>1, <2>2, <2>3
<1>3. CASE ButtonLevel
  <2>1. PICK ts : age' = Restarted(ts) /\ "panel" \notin ts /\ "lap" \notin ts
    BY <1>3 DEF ButtonLevel
  <2>2. UNCHANGED hung
    BY <1>3 DEF ButtonLevel
  <2> QED BY <1>0, <2>1, <2>2, RestartedOK
<1>4. CASE ButtonRest
  BY <1>0, <1>1, <1>4, RestartedOK DEF ButtonRest
<1>5. CASE RestartStalledPanel
  BY <1>5, SpawnOK, UiAssumption DEF RestartStalledPanel
<1>6. CASE PanelTop
  BY <1>0, <1>6, RestartedOK, UiAssumption DEF PanelTop
<1>7. CASE PanelSense
  BY <1>0, <1>1, <1>7, RestartedOK DEF PanelSense
<1>8. CASE DrawHangs
  BY <1>8 DEF DrawHangs
<1>9. CASE Press \/ Release \/ UsbMuxReset
  BY <1>9, <1>1 DEF Press, Release, UsbMuxReset, uiVars
<1>10. CASE ButtonEdges \/ ButtonRequest
  BY <1>10, <1>1 DEF ButtonEdges, ButtonRequest, uiVars
<1>11. CASE PanelPage \/ DrawPage \/ PanelCheck \/ RequestRtcWrite
  BY <1>11, <1>1 DEF PanelPage, DrawPage, PanelCheck, RequestRtcWrite
<1>12. CASE UNCHANGED vars
  BY <1>12, <1>1 DEF vars, uiVars
<1> QED
  BY <1>2, <1>3, <1>4, <1>5, <1>6, <1>7, <1>8, <1>9, <1>10, <1>11, <1>12
     DEF Next, ButtonTask, PanelTask

(* Only a hanging panel can be taken for stalled. *)
LEMMA StalledHangs ==
  ASSUME AgesOK(age), LapInv, PanelStalled
  PROVE  hung
<1>1. age["panel"] \in Nat /\ age["lap"] \in Nat
  BY DEF AgesOK, Ages, AllTimers
<1> QED BY <1>1, TimerFacts, UiAssumption DEF LapInv, PanelStalled, Expired

(* A lap younger than the limit at every instant. *)
LEMMA LapHolds == Spec => []LapInv
<1>1. Init => LapInv
  BY SpawnOK, UiAssumption DEF Init, LapInv
<1>2. AgesOK(age) /\ LapInv /\ [Next]_vars => LapInv'
  BY LapStep
<1>3. TypeOK => AgesOK(age)
  BY TypeParts
<1> QED BY <1>1, <1>2, <1>3, TypeHolds, PTL DEF Spec

(* The watchdog never takes a panel for dead that still laps, blanked or    *)
(* not, drawing or idle (the stall check of button_task_main).              *)
THEOREM OnlyHungRestartsHolds == Spec => OnlyHungRestarts
<1>1. AgesOK(age) /\ LapInv /\ [Next]_vars => [RestartStalledPanel => hung]_vars
  <2> SUFFICES ASSUME AgesOK(age), LapInv, RestartStalledPanel PROVE hung
    OBVIOUS
  <2> QED BY StalledHangs DEF RestartStalledPanel
<1>2. TypeOK => AgesOK(age)
  BY TypeParts
<1> QED BY <1>1, <1>2, TypeHolds, LapHolds, PTL DEF Spec, OnlyHungRestarts

(* Where the panel is with the frame it is drawing, and how old the last    *)
(* request is then: it came in this lap, or the frame being drawn is for it *)
(* and it came in the lap before.                                           *)
Drawing == panel_pc \in {"page", "draw", "check"} /\ ~moved

LateInv ==
  /\ button_pc = "request" => age["redraw"] = 0
  /\ panel_pc \in {"draw", "check"} /\ page # drawing => moved \/ button_pc = "request"
  /\ FramePending /\ ~hung =>
       \/ age["redraw"] <= age["lap"]
       \/ Drawing /\ age["redraw"] <= LAP_MAX + age["lap"]

(* Every step keeps the age of the last request within a lap or two. *)
LEMMA LateStep ==
  ASSUME AgesOK(age), Booleans, LapInv, LateInv, [Next]_vars
  PROVE  LateInv'
<1> USE DEF LateInv, Drawing, FramePending, Booleans
<1>0. /\ age["redraw"] \in Nat /\ age["lap"] \in Nat
      /\ {"redraw", "lap"} \subseteq AllTimers
  BY DEF AgesOK, Ages, AllTimers
<1>1. CASE UNCHANGED <<uiVars, button_pc, age>>
  BY <1>1 DEF uiVars
<1>2. CASE Tick
  <2>1. UNCHANGED uiVars /\ UNCHANGED button_pc /\ button_pc = "idle"
    BY <1>2 DEF Tick
  <2>2. hung \/ age["lap"] < LAP_MAX
    BY <1>0, <1>2, TimerFacts, UiAssumption DEF Tick, Expired
  <2>3. hung \/ age'["lap"] = age["lap"] + 1
    BY <1>0, <1>2, <2>2, TickOK, TimerFacts, UiAssumption
  <2>4. age'["redraw"] \in Nat /\ age'["redraw"] <= age["redraw"] + 1
    BY <1>0, <1>2, TickOK
  <2> QED BY <1>0, <2>1, <2>3, <2>4, UiAssumption DEF uiVars
<1>3. CASE ButtonEdges
  BY <1>3 DEF ButtonEdges, uiVars
<1>4. CASE ButtonLevel
  <2>1. CASE PressDue
    <3>1. PICK ts : age' = Restarted(ts) /\ "redraw" \in ts /\ "lap" \notin ts
      BY <1>4, <2>1 DEF ButtonLevel
    <3>2. age'["redraw"] = 0 /\ age'["lap"] = age["lap"]
      BY <1>0, <3>1, RestartedOK
    <3> QED BY <1>0, <1>4, <2>1, <3>2 DEF ButtonLevel
  <2>2. CASE ~PressDue
    <3>1. PICK ts : age' = Restarted(ts) /\ "redraw" \notin ts /\ "lap" \notin ts
      BY <1>4, <2>2 DEF ButtonLevel
    <3>2. age'["redraw"] = age["redraw"] /\ age'["lap"] = age["lap"]
      BY <1>0, <3>1, RestartedOK
    <3> QED BY <1>4, <2>2, <3>2 DEF ButtonLevel
  <2> QED BY <2>1, <2>2
<1>5. CASE ButtonRequest
  BY <1>0, <1>5 DEF ButtonRequest, RenderRequest
<1>6. CASE ButtonRest
  <2>1. CASE RedrawDue
    <3>1. age'["redraw"] = 0 /\ age'["lap"] = age["lap"]
      BY <1>0, <1>6, <2>1, RestartedOK DEF ButtonRest
    <3> QED BY <1>0, <1>6, <2>1, <3>1 DEF ButtonRest, RenderRequest
  <2>2. CASE ~RedrawDue
    BY <1>6, <2>2 DEF ButtonRest
  <2> QED BY <2>1, <2>2
<1>7. CASE RestartStalledPanel
  BY <1>7, SpawnOK DEF RestartStalledPanel
<1>8. CASE PanelTop
  <2>1. age'["redraw"] = age["redraw"] /\ age'["lap"] = 0
    BY <1>0, <1>8, RestartedOK DEF PanelTop
  <2> QED BY <1>0, <1>8, <2>1, UiAssumption DEF PanelTop, LapInv, buttonVars
<1>9. CASE PanelPage \/ DrawPage \/ DrawHangs
  BY <1>9 DEF PanelPage, DrawPage, DrawHangs, buttonVars
<1>10. CASE PanelCheck
  BY <1>0, <1>10 DEF PanelCheck, buttonVars
<1>11. CASE PanelSense
  <2>1. age'["redraw"] = age["redraw"] /\ age'["lap"] = age["lap"]
    BY <1>0, <1>11, RestartedOK DEF PanelSense
  <2> QED BY <1>11, <2>1 DEF PanelSense, buttonVars
<1>12. CASE Press \/ Release \/ UsbMuxReset
  BY <1>12, <1>1 DEF Press, Release, UsbMuxReset, buttonVars
<1>13. CASE RequestRtcWrite
  BY <1>13 DEF RequestRtcWrite, buttonVars
<1>14. CASE UNCHANGED vars
  BY <1>14, <1>1 DEF vars, buttonVars
<1> QED
  BY <1>2, <1>3, <1>4, <1>5, <1>6, <1>7, <1>8, <1>9, <1>10, <1>11, <1>12, <1>13, <1>14
     DEF Next, ButtonTask, PanelTask

(* A frame on a lit screen is drawn within two laps of the last request for *)
(* it, whenever presses and redraws fall (panel_task_main).                 *)
THEOREM FrameInTimeHolds == Spec => []FrameInTime
<1>1. Init => LateInv
  BY SpawnOK DEF Init, LateInv, FramePending, Drawing
<1>2. AgesOK(age) /\ Booleans /\ LapInv /\ LateInv /\ [Next]_vars => LateInv'
  BY LateStep
<1>3. AgesOK(age) /\ LapInv /\ LateInv => FrameInTime
  <2> SUFFICES ASSUME AgesOK(age), LapInv, LateInv, FramePending, ~hung
               PROVE  age["redraw"] <= 2 * LAP_MAX
    BY DEF FrameInTime
  <2>1. age["redraw"] \in Nat /\ age["lap"] \in Nat /\ LAP_MAX \in Nat
    BY UiAssumption DEF AgesOK, Ages, AllTimers
  <2> QED BY <2>1 DEF LapInv, LateInv
<1>4. TypeOK => AgesOK(age) /\ Booleans
  BY TypeParts
<1> QED BY <1>1, <1>2, <1>3, <1>4, TypeHolds, LapHolds, PTL DEF Spec

(* While the latest fall has been acted upon, no report of it is left that  *)
(* could be acted upon again: the level has been seen low, and an edge that *)
(* came before the action reaches the next lap within the debounce.         *)
ActedInv ==
  /\ button_pc # "level" => ~edge_press
  /\ acted => (LineLow => last_level)
  /\ acted /\ edge_press => age["action"] <= 1
  /\ acted /\ edges =>
       /\ button_pc # "level"
       /\ age["action"] = 0 \/ (age["action"] = 1 /\ button_pc = "idle" /\ ~ran)

(* A press that is due has not been acted upon. *)
LEMMA DueIsNew ==
  ASSUME AgesOK(age), Booleans, ActedInv, PressDue
  PROVE  ~acted
<1>1. age["action"] \in Nat /\ Limit["action"] = BUTTON_DEBOUNCE
  BY DEF AgesOK, Ages, AllTimers, Limit
<1>2. age["action"] > 1
  BY <1>1, UiAssumption DEF PressDue, Expired
<1> QED BY <1>1, <1>2 DEF ActedInv, PressDue, Booleans

(* Every step keeps what is known of the latest fall. *)
LEMMA ActedStep ==
  ASSUME AgesOK(age), Booleans, ActedInv, [Next]_vars
  PROVE  ActedInv'
<1> USE DEF ActedInv, LineLow, Booleans
<1>0. age["action"] \in Nat /\ "action" \in AllTimers
  BY DEF AgesOK, Ages, AllTimers
<1>1. CASE Press
  BY <1>1 DEF Press, Fall
<1>2. CASE Release
  BY <1>2 DEF Release, buttonVars
<1>3. CASE UsbMuxReset
  BY <1>3 DEF UsbMuxReset, Fall
<1>4. CASE Tick
  <2>1. age'["action"] \in Nat /\ age'["action"] <= age["action"] + 1
    BY <1>0, <1>4, TickOK
  <2> QED BY <1>0, <1>4, <2>1 DEF Tick, lineVars
<1>5. CASE ButtonEdges
  BY <1>0, <1>5 DEF ButtonEdges, lineVars
<1>6. CASE ButtonLevel
  <2>1. CASE PressDue
    <3>1. PICK ts : age' = Restarted(ts) /\ "action" \in ts
      BY <1>6, <2>1 DEF ButtonLevel
    <3>2. age'["action"] = 0
      BY <1>0, <3>1, RestartedOK
    <3> QED BY <1>6, <2>1, <3>2 DEF ButtonLevel, RestoreButtonInput
  <2>2. CASE ~PressDue
    <3>1. PICK ts : age' = Restarted(ts) /\ "action" \notin ts
      BY <1>6, <2>2 DEF ButtonLevel
    <3>2. age'["action"] = age["action"]
      BY <1>0, <3>1, RestartedOK
    <3> QED BY <1>6, <2>2, <3>2 DEF ButtonLevel, RestoreButtonInput
  <2> QED BY <2>1, <2>2
<1>7. CASE ButtonRequest
  BY <1>7 DEF ButtonRequest, lineVars
<1>8. CASE ButtonRest
  <2>1. age'["action"] = age["action"]
    BY <1>0, <1>8, RestartedOK DEF ButtonRest
  <2> QED BY <1>8, <2>1 DEF ButtonRest, lineVars
<1>9. CASE RestartStalledPanel
  BY <1>9 DEF RestartStalledPanel, lineVars
<1>10. CASE PanelTop \/ PanelSense
  <2>1. age'["action"] = age["action"]
    BY <1>0, <1>10, RestartedOK DEF PanelTop, PanelSense
  <2> QED BY <1>10, <2>1 DEF PanelTop, PanelSense, buttonVars, lineVars
<1>11. CASE PanelPage \/ DrawPage \/ PanelCheck \/ DrawHangs \/ RequestRtcWrite
  BY <1>11 DEF PanelPage, DrawPage, PanelCheck, DrawHangs, RequestRtcWrite, buttonVars, lineVars
<1>12. CASE UNCHANGED vars
  BY <1>12 DEF vars, buttonVars, lineVars
<1> QED
  BY <1>1, <1>2, <1>3, <1>4, <1>5, <1>6, <1>7, <1>8, <1>9, <1>10, <1>11, <1>12
     DEF Next, ButtonTask, PanelTask

(* One press turns at most one page or wakes the screen once, although the  *)
(* interrupt and the level both report it and a pin repair posts edges      *)
(* (button_task_main).                                                      *)
THEOREM OneActionHolds == Spec => OneActionPerPress
<1>1. Init => ActedInv
  BY DEF Init, ActedInv, LineLow
<1>2. AgesOK(age) /\ Booleans /\ ActedInv /\ [Next]_vars => ActedInv'
  BY ActedStep
<1>3. AgesOK(age) /\ Booleans /\ ActedInv /\ [Next]_vars
        => [ButtonLevel /\ button_pc' = "request" => ~acted]_vars
  <2> SUFFICES ASSUME AgesOK(age), Booleans, ActedInv, ButtonLevel, button_pc' = "request"
               PROVE  ~acted
    OBVIOUS
  <2>1. PressDue
    BY DEF ButtonLevel
  <2> QED BY <2>1, DueIsNew
<1>4. TypeOK => AgesOK(age) /\ Booleans
  BY TypeParts
<1> QED BY <1>1, <1>2, <1>3, <1>4, TypeHolds, PTL DEF Spec, OneActionPerPress
(* The later of the queueing of an RTC time and the last press is at most b *)
(* ticks ago.                                                               *)
Within(b) == age["queue"] <= b \/ age["interaction"] <= b

(* No frame will be pending when this lap comes to the sensors, but for one *)
(* asked for from now on.                                                   *)
Settled ==
  \/ panel_pc = "page" /\ ~moved
  \/ panel_pc \in {"draw", "check"} /\ ~moved /\ page = drawing
  \/ panel_pc = "sense" /\ ~FramePending

(* What keeps a queued time waiting: it or a press came in this lap; or in  *)
(* the one before, and if this lap passed the sensors by, a redraw fell     *)
(* into it; or that was in the lap before, and the next redraw is not due   *)
(* before this one ends.                                                    *)
QueueInv ==
  /\ button_pc = "request" => age["interaction"] = 0
  /\ ~queued => age["queue"] = 0
  /\ queued /\ ~hung =>
       \/ Within(age["lap"])
       \/ /\ Within(LAP_MAX + age["lap"])
          /\ panel_pc = "top" => age["redraw"] <= age["lap"]
       \/ /\ Within(2 * LAP_MAX + age["lap"])
          /\ Settled /\ age["redraw"] <= LAP_MAX + age["lap"]

(* Every step keeps the wait of a queued time within three laps. *)
LEMMA QueueStep ==
  ASSUME 2 * LAP_MAX < DRAW_INTERVAL,
         AgesOK(age), Booleans, LapInv, LateInv, QueueInv, [Next]_vars
  PROVE  QueueInv'
<1> USE DEF QueueInv, Within, Settled, FramePending, Booleans
<1>0. /\ age["redraw"] \in Nat /\ age["lap"] \in Nat /\ age["queue"] \in Nat
      /\ age["interaction"] \in Nat
      /\ {"redraw", "lap", "queue", "interaction"} \subseteq AllTimers
      /\ LAP_MAX \in Nat /\ DRAW_INTERVAL \in Nat
      /\ hung \/ age["lap"] <= LAP_MAX
  BY UiAssumption DEF AgesOK, Ages, AllTimers, LapInv
<1>1. CASE UNCHANGED <<uiVars, button_pc, age>>
  BY <1>1 DEF uiVars
<1>2. CASE Tick
  <2>1. UNCHANGED uiVars /\ UNCHANGED button_pc /\ button_pc = "idle"
    BY <1>2 DEF Tick
  <2>2. hung \/ age["lap"] < LAP_MAX
    BY <1>0, <1>2, TimerFacts, UiAssumption DEF Tick, Expired
  <2>3. hung \/ age'["lap"] = age["lap"] + 1
    BY <1>0, <1>2, <2>2, TickOK, TimerFacts, UiAssumption
  <2>4. /\ age'["redraw"] \in Nat /\ age'["redraw"] <= age["redraw"] + 1
        /\ age'["interaction"] \in Nat /\ age'["interaction"] <= age["interaction"] + 1
    BY <1>0, <1>2, TickOK
  <2>5. /\ age'["queue"] \in {age["queue"], age["queue"] + 1}
        /\ ~queued => age'["queue"] = age["queue"]
    BY <1>0, <1>2, TimerFacts DEF Tick
  <2> QED BY <1>0, <2>1, <2>3, <2>4, <2>5 DEF uiVars
<1>3. CASE ButtonEdges
  BY <1>3 DEF ButtonEdges, uiVars
<1>4. CASE ButtonLevel
  <2>1. CASE PressDue
    <3>1. PICK ts : age' = Restarted(ts) /\ "interaction" \in ts
                    /\ "lap" \notin ts /\ "queue" \notin ts
      BY <1>4, <2>1 DEF ButtonLevel
    <3>2. age'["interaction"] = 0 /\ age'["lap"] = age["lap"] /\ age'["queue"] = age["queue"]
      BY <1>0, <3>1, RestartedOK
    <3> QED BY <1>0, <1>4, <2>1, <3>2 DEF ButtonLevel
  <2>2. CASE ~PressDue
    <3>1. PICK ts : age' = Restarted(ts) /\ "interaction" \notin ts /\ "redraw" \notin ts
                    /\ "lap" \notin ts /\ "queue" \notin ts
      BY <1>4, <2>2 DEF ButtonLevel
    <3>2. /\ age'["interaction"] = age["interaction"] /\ age'["redraw"] = age["redraw"]
          /\ age'["lap"] = age["lap"] /\ age'["queue"] = age["queue"]
      BY <1>0, <3>1, RestartedOK
    <3> QED BY <1>4, <2>2, <3>2 DEF ButtonLevel
  <2> QED BY <2>1, <2>2
<1>5. CASE ButtonRequest
  BY <1>0, <1>5 DEF ButtonRequest
<1>6. CASE ButtonRest
  <2>1. CASE RedrawDue
    <3>1. /\ age'["redraw"] = 0 /\ age'["lap"] = age["lap"]
          /\ age'["queue"] = age["queue"] /\ age'["interaction"] = age["interaction"]
      BY <1>0, <1>6, <2>1, RestartedOK DEF ButtonRest
    <3>2. age["redraw"] >= DRAW_INTERVAL
      BY <2>1, TimerFacts DEF RedrawDue, Expired
    <3> QED BY <1>0, <1>6, <2>1, <3>1, <3>2 DEF ButtonRest
  <2>2. CASE ~RedrawDue
    BY <1>6, <2>2 DEF ButtonRest
  <2> QED BY <2>1, <2>2
<1>7. CASE RestartStalledPanel
  <2>1. SpawnAge["queue"] = 0
    BY TimerFacts DEF SpawnAge, AllTimers
  <2> QED BY <1>7, <2>1 DEF RestartStalledPanel
<1>8. CASE PanelTop
  <2>1. /\ age'["redraw"] = age["redraw"] /\ age'["lap"] = 0
        /\ age'["queue"] = age["queue"] /\ age'["interaction"] = age["interaction"]
    BY <1>0, <1>8, RestartedOK DEF PanelTop
  <2>2. panel_pc = "top" /\ panel_pc' # "top" /\ Settled'
    BY <1>8 DEF PanelTop
  <2>3. UNCHANGED <<queued, hung, button_pc>>
    BY <1>8 DEF PanelTop, buttonVars
  <2> QED BY <1>0, <2>1, <2>2, <2>3
<1>9. CASE PanelPage \/ DrawPage \/ DrawHangs
  BY <1>9 DEF PanelPage, DrawPage, DrawHangs, buttonVars
<1>10. CASE PanelCheck
  BY <1>10 DEF PanelCheck, buttonVars
<1>11. CASE PanelSense
  <2>1. CASE FramePending
    BY <1>0, <1>11, <2>1 DEF PanelSense, LateInv, Drawing, buttonVars
  <2>2. CASE ~FramePending
    <3>1. age'["queue"] = 0 /\ age'["interaction"] = age["interaction"]
      BY <1>0, <1>11, <2>2, RestartedOK DEF PanelSense
    <3> QED BY <1>11, <2>2, <3>1 DEF PanelSense, buttonVars
  <2> QED BY <2>1, <2>2
<1>12. CASE Press \/ Release \/ UsbMuxReset
  BY <1>12, <1>1 DEF Press, Release, UsbMuxReset, buttonVars
<1>13. CASE RequestRtcWrite
  BY <1>0, <1>13 DEF RequestRtcWrite, buttonVars
<1>14. CASE UNCHANGED vars
  BY <1>14, <1>1 DEF vars, buttonVars
<1> QED
  BY <1>2, <1>3, <1>4, <1>5, <1>6, <1>7, <1>8, <1>9, <1>10, <1>11, <1>12, <1>13, <1>14
     DEF Next, ButtonTask, PanelTask

(* A time queued for the RTC reaches the chip within three laps of its      *)
(* queueing or of the last press, although frames put the sensors off: one  *)
(* redraw can, two cannot when they lie two laps apart (panel_task_main,    *)
(* sample_sensors).                                                         *)
THEOREM QueuedTimeHolds ==
  ASSUME 2 * LAP_MAX < DRAW_INTERVAL, 3 * LAP_MAX <= QUEUE_MAX
  PROVE  Spec => []QueuedTimeInTime
<1>1. Init => LateInv /\ QueueInv
  <2>1. SpawnAge["queue"] = 0 /\ SpawnAge["interaction"] = 0
    BY TimerFacts DEF SpawnAge, AllTimers
  <2> QED BY <2>1, SpawnOK DEF Init, LateInv, FramePending, Drawing, QueueInv
<1>2. /\ AgesOK(age) /\ Booleans /\ LapInv /\ LateInv /\ [Next]_vars => LateInv'
      /\ AgesOK(age) /\ Booleans /\ LapInv /\ LateInv /\ QueueInv /\ [Next]_vars => QueueInv'
  BY LateStep, QueueStep
<1>3. AgesOK(age) /\ LapInv /\ QueueInv => QueuedTimeInTime
  <2> SUFFICES ASSUME AgesOK(age), LapInv, QueueInv, queued, ~hung
               PROVE  age["queue"] <= QUEUE_MAX \/ age["interaction"] <= QUEUE_MAX
    BY DEF QueuedTimeInTime
  <2>1. /\ age["lap"] \in Nat /\ age["queue"] \in Nat /\ age["interaction"] \in Nat
        /\ LAP_MAX \in Nat /\ QUEUE_MAX \in Nat /\ age["lap"] <= LAP_MAX
    BY UiAssumption DEF AgesOK, Ages, AllTimers, LapInv
  <2> QED BY <2>1 DEF QueueInv, Within
<1>4. TypeOK => AgesOK(age) /\ Booleans
  BY TypeParts
<1> QED BY <1>1, <1>2, <1>3, <1>4, TypeHolds, LapHolds, PTL DEF Spec

=============================================================================
