\* Edges that disable the interrupt and, harder for the seqlock, edges that do
\* not; re-enables that fail; timestamps that wrap.
CONSTANTS
  WRAP = 4
  ONE_SHOT = FALSE
  MAX_TIME = 7
  MAX_EDGES = 4
SPECIFICATION FairSpec
INVARIANT InterruptComesBack
PROPERTIES EveryCaptureReported AtomicRegister
