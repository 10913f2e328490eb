\* The eight chains, each at the bounds its own module names.
SPECIFICATION ChainsSpec
CONSTANTS
    DAYS <- MCDays
    SCENES <- MCScenes
    HOURS = {4, 8, 20}
    MAX_CUTS = 1
    RADIATION <- MCRadiation
    CLOUDS = {0, 1}
    LAST_HOUR = 41
    MAX_OUTAGES = 2
    DAYS_BACK = 3
    MAX_AGE_DAYS = 3
    UNIT = 10
    MAX_DUTY = 9
    DUTIES <- MCDuties
    HYST_ON = 20
    HYST_OFF = 10
    DEBT_MAX = 60
    BLOCK = 3
    MAX_GAP = 12
    GAPS <- MCGaps
    MONDAY = 3
    LAST_DAY = 4
    MAX_FED = 2
    MAX_RESETS = 1
    rel1 = rel1
    rel2 = rel2
    REQUESTS = {op1, op2}
    RELEASES = {rel1, rel2}
    MAX_CODES = 2
    MAX_CRASHES = 1
    op1 = op1
    op2 = op2
    visit = visit
    app1 = app1
    app2 = app2
    OPERATORS = {op1, op2}
    REVIEWERS = {visit}
    APPS = {app1, app2}
    MAX_TOKENS = 2
    SESSIONS = {op1, op2}
    MAX_CARDS = 3
    MAX_BREAKS = 2
SYMMETRY MCAlike
INVARIANTS
    TimesOfOneAnswer
    LockLeavesEnoughSun
    NightFeedsTheCommunity
    NightOfOneDay
    YieldAsFreshAsClouds
    NoTimesOfLastSeason
    WeekIsWhatWasFed
    LockKeepsUp
    LockedRunBounded
    ImageAsShown
    WorthItOnce
    NewestLinkWorks
    ReportedKeyStands
    OneScriptAtATime
PROPERTIES
    CrossoverLeavesNoDebt
CHECK_DEADLOCK FALSE
