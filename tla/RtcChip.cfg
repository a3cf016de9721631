\* Failing transfers, restarts and power losses at every step.
CONSTANTS
    MAX_LAG = 3
    MAX_RESTARTS = 3
SPECIFICATION Spec
INVARIANTS CodecRoundTrip StopHasCause
PROPERTY ClockRepaired
