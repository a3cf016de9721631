\* A silence of the module whose length exceeds the 2^32 us of an interval.
CONSTANTS
  NONE = NONE
  SEC = 1000
  NMEA_PPS_FUDGE_S = 1
  COUNT_MAX = 3
  OFFSETS = {0, 600, 700}
  NMEA_AT = 700
  LATE = {}
  STALLS = {"boot"}
  OUTAGES = {100, 4295}
  LEAPS = {0}
  RTC_KINDS = {"set"}
  RTC_ERR = 5
  UART_CAP = 2
  MAX_SECONDS = 8
  MAX_FAULTS = 1
  CALM_MAX = 4
SPECIFICATION Spec
PROPERTY AcceptedIntervalValid
