\* Four sites, nights with two outlooks and both kinds of times, days under right and wrong forecasts.
SPECIFICATION Spec
CONSTANTS
    SCENES <- MCScenes
    HEAVY_W = 4000
    MAX_HEAVY = 1
    MAX_CHANGES = 1
INVARIANTS
    ReachesMorning
    FeedInLasts
    FullByDeadline
    NotFullByNoon
