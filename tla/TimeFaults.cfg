\* The loop may block at any step; stray edges, a leap second, long silences.
CONSTANTS
  NONE = NONE
  SEC = 1000
  NMEA_PPS_FUDGE_S = 1
  COUNT_MAX = 3
  OFFSETS = {0, 600, 700}
  NMEA_AT = 700
  LATE = {600}
  STALLS = {"gps", "rtc", "pps", "check"}
  OUTAGES = {2007, 4295}
  LEAPS = {0, 4}
  RTC_KINDS = {"set"}
  RTC_ERR = 5
  UART_CAP = 2
  MAX_SECONDS = 8
  MAX_FAULTS = 3
  CALM_MAX = 4
SPECIFICATION Spec
INVARIANTS RecoversInFour HoldoverEndsOnTime
