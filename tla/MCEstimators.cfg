\* A battery of 3 kWh and powers that move its charge by 0 to 8 points a cycle.
SPECIFICATION LearnSpec
CONSTANTS
    TOPICS = {"capacity", "rise", "load", "rate", "sun"}
    CAPACITY_WH = 3000
    POWERS = {0, 600, 1200}
    EXTRA_WH = {0, 30}
    STEP_GAPS = {6, 60}
    MAX_COUNT = 2
    MAX_MINUTES = 30
    MIN_NIGHT_MIN = 20
    PEAK_W = 3000
    READINGS_W = {1000, 3000, 5000}
    SAMPLE_GAPS = {10, 2880, 11520}
    KEEP = 4
    HOURS = {3, 12}
    PROFILE_DAYS = 2
    MIN_READINGS = 2
    MAX_DAY = 3
INVARIANTS
    NotOverrated
    LearnedIsTrue
