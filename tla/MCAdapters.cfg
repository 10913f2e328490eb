\* The four Modbus profiles: two slots stand for six, three powers, any write lost.
SPECIFICATION Spec
CONSTANTS
    ADAPTERS = {"sunspec", "deye", "sigenergy", "victron"}
    RATED_W = 2350
    MAX_ACTIVE_W = 4700
    SHOWN_ACTIVE_W = 4700
    SLOTS = 2
    WATTS <- MCWatts
    REMEMBERED <- MCRemembered
    READINGS <- MCReadings
    LEFTOVER <- MCLeftover
INVARIANTS
    CycleEndsAsTold
    NoDetour
    WindowTakesHold
