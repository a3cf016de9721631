\* What the count of dropped lines says after a flush that failed.
CONSTANTS
  NONE = NONE
  CALLERS = {"sd_log", "http"}
  QUEUE_MAX_BYTES = 2
  ROTATE_AT_BYTES = 1
  HTTP_CHUNK_BYTES = 1
  MAX_LINES = 5
  MAX_REQUESTS = 2
  MAX_FAULTS = 1
SPECIFICATION Spec
INVARIANT DroppedSinceSuccess
