\* A gateway with a Modbus inverter; short periods of different length.
SPECIFICATION FairSpec
CONSTANTS
    STALE_MIN = 3
    REPEAT_MIN = 2
    BOOT_TRIES = 2
INVARIANTS
    MarkerHidesOnlyFaults
    StandingWindowBounded
PROPERTIES
    ImplementsOwnership
    SwitchingCompletes
    OutageIsCleared
