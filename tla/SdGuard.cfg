\* Mount, jobs, nested calls and free-space reads; any of them may hang.
CONSTANTS
  NONE = NONE
  CALLERS = {c1, c2}
  SD_CALL_TIMEOUT = 2
  MAX_TIME = 5
SPECIFICATION GuardSpec
INVARIANTS OneHolder WatchesWhatRuns OverdueIsCaught
PROPERTIES ImplementsService CallReturns UsageAnswered
