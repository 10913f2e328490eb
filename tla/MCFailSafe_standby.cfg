\* Does the marker mean that the inverter is released?
SPECIFICATION Spec
CONSTANTS
    STALE_MIN = 3
    REPEAT_MIN = 2
    BOOT_TRIES = 2
INVARIANTS
    StandbyMeansReleased
