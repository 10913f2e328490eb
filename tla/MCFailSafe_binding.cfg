\* Does the timer take over from a dead binding?
SPECIFICATION FairSpec
CONSTANTS
    STALE_MIN = 2
    REPEAT_MIN = 2
    BOOT_TRIES = 2
PROPERTIES
    DeadBindingIsCleared
