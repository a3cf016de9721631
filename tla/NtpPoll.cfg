\* Two slots and clients enough to crowd them; a send or a receive that fails.
CONSTANTS
  NONE = NONE
  CLIENTS <- Clients
  V6_SOURCES = {v6}
  NTP_ACL_CIDRS <- Cidrs
  RATE_TABLE_SIZE = 2
  MIN_POLL_INTERVAL = 2
  MAX_TIME = 2
  MAX_PACKETS = 4
  MAX_BACKLOG = 2
  MAX_ERRORS = 1
SPECIFICATION Spec
INVARIANTS AllAccounted TableExact
PROPERTIES AllHandled SpacingUnlessCrowded AclExact
