CONSTANTS
    Apps = {"k8s"}
    Units <- MCUnits
    RelOrder <- MCRelOrder
    WorkloadValues <- MCWorkloadValuesJson
    JsonLoads <- MCJsonLoads
    ActiveMds = 1
    StandbyMds = None
    MaxMds = 1
    MaxFailures = 1
    UnitDepartures = FALSE
    Unrelations = FALSE
    None = None
    Comma = ","
    Semicolon = ";"
    Space = " "
    Words <- MCWords
    Lower <- MCLower
    Rbd <- MCRbd
    Cephfs <- MCCephfs
    LifeMaxFailures = 1
    Stops = TRUE
SPECIFICATION CharmSpec
INVARIANT
    CharmTypeOK
    LeaderReadyAfterBootstrap
    StoppedUnitLeftCluster
PROPERTY
    LeaderEventuallyReady
    ServedEventually
