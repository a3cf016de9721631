\* The limits keep the order of the code's: debounce <= held, recover < redraw <=
\* stall < blank; a lap of the panel loop is shorter than the stall limit.
CONSTANTS
    PAGES = 2
    BUTTON_DEBOUNCE = 2
    BUTTON_HELD_RECOVER = 2
    PULLUP_REFRESH = 2
    SCREEN_BLANK = 5
    DRAW_INTERVAL = 3
    PANEL_LOOP_STALL = 3
    LAP_MAX = 1
    QUEUE_MAX = 3
    MAX_MUX = 1
SPECIFICATION Spec
INVARIANTS FrameCurrent FrameInTime QueuedTimeInTime
PROPERTIES OnlyHungRestarts OneActionPerPress StallEnds
