SPECIFICATION FairSpec
CONSTANTS
    Tasks = {1}
    SoftLimit = 60
    HardLimit = 64
    MaxGrants = 1
    Outcomes <- MCOutcomes
    MaxMishaps = 1
    MaxInterventions = 1
PROPERTY
    SavedResultDelivered
