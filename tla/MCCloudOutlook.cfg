\* From the morning of one day to the evening of the next.
SPECIFICATION CloudSpec
CONSTANTS
    RADIATION <- MCRadiation
    CLOUDS = {0, 1}
    LAST_HOUR = 41
    MAX_OUTAGES = 2
INVARIANTS
    YieldOfTheCloudsDay
CHECK_DEADLOCK FALSE
