SPECIFICATION FairSpec
CONSTANT Requests = {r1, r2}
INVARIANTS
    CreatedMeansDelivered
PROPERTIES
    ResetArrives
