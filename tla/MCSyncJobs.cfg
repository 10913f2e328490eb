SPECIFICATION FairSpec
CONSTANTS
    j1 = j1
    j2 = j2
    Jobs <- MCJobs
    HORIZON = 3
    CORRECTED <- MCCorrected
    OVERLAP = 1
    CHUNK_MAX = 2
    LATE = 1
INVARIANTS
    NothingOutOfReach
PROPERTIES
    DoneMeansImported
    JobsEnd
    EverythingArrives
