CONSTANTS
    Apps = {"k8s"}
    Units <- MCUnits
    RelOrder <- MCRelOrder
    WorkloadValues <- MCWorkloadValuesJson
    JsonLoads <- MCJsonLoads
    ActiveMds = 1
    StandbyMds = None
    MaxMds = 1
    MaxFailures = 0
    UnitDepartures = FALSE
    Unrelations = TRUE
    None = None
    Comma = ","
    Semicolon = ";"
    Space = " "
    Words <- MCWords
    Lower <- MCLower
    Rbd <- MCRbd
    Cephfs <- MCCephfs
SPECIFICATION Spec
INVARIANT
    NoKeyAfterRelationRemoved
