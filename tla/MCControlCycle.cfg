SPECIFICATION Spec
CONSTANTS
    SLOT = 5
    MAX_GAP = 12
    TRIGGER = 3
    GAPS <- MCGaps
    EXPIRES = FALSE
INVARIANTS
    GuardEngages
    SamplesPure
