\* The retry is shorter than the refresh, and one tick of refresh is left after
\* a retry; two zones, as the device is either where it was or elsewhere.
CONSTANTS
    REPORTS = {"active", "void"}
    ZONES = {z1, z2}
    NoZone = NoZone
    MAX_LOST = 1
    LOOKUP_RETRY = 1
    LOOKUP_REFRESH = 2
    HERE = z1
    LEFT = {NoZone, z2}
    MAX_RESTARTS = 1
SPECIFICATION Spec
INVARIANTS LineBufBounded OneLookup ZoneIsKept
PROPERTIES FixGivenUp RestartKeepsZone ZoneFound
