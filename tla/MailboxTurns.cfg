SPECIFICATION FairSpec
CONSTANTS
    Tasks = {1, 2}
    SoftLimit = 5
    HardLimit = 6
    MaxGrants = 1
    Outcomes <- MCOutcomes
    MaxMishaps = 1
    MaxInterventions = 1
INVARIANTS
    OneTurnAtATime
    ReportsTruthful
    StopsBetweenTurns
PROPERTIES
    WorkerKeepsPromise
    TaskSettles
