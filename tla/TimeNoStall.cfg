\* The loop never blocks; edges may be missing or displaced, sentences lost
\* or void, the module silent for up to 750 s in all.  Five faults are an edge
\* that is displaced twice running (an absent and a stray edge each time), which
\* leaves a wrong frequency estimate on a late anchor, and a silence after it.
CONSTANTS
  NONE = NONE
  SEC = 1000
  NMEA_PPS_FUDGE_S = 1
  COUNT_MAX = 3
  OFFSETS = {0, 40, 120, 500}
  NMEA_AT = 500
  LATE = {40, 120}
  STALLS = {"boot"}
  OUTAGES = {150}
  LEAPS = {0}
  RTC_KINDS = {"absent", "unset", "set"}
  RTC_ERR = 5
  UART_CAP = 2
  MAX_SECONDS = 4
  MAX_FAULTS = 5
  CALM_MAX = 1
SPECIFICATION Spec
INVARIANTS SecondRight DispersionCoversError RtcRequestIsGpsTime Stratum1Disciplined ServedNotBeforeReference
