CONSTANTS
    Apps = {"k8s", "k8s-b"}
    Units <- MCUnits
    RelOrder <- MCRelOrder
    WorkloadValues <- MCWorkloadValues
    JsonLoads <- MCJsonLoads
    ActiveMds = 1
    StandbyMds = None
    MaxMds = 1
    MaxFailures = 1
    UnitDepartures = TRUE
    Unrelations = TRUE
    None = None
    Comma = ","
    Semicolon = ";"
    Space = " "
    Words <- MCWords
    Lower <- MCLower
    Rbd <- MCRbd
    Cephfs <- MCCephfs
SPECIFICATION Spec
INVARIANT
    PublishedResourcesExist
