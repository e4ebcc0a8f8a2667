CONSTANTS
    Storages = {"osd-standalone/0"}
    StorageList <- MCStorageList
    Loc <- MCLoc
    HostDevs = {"vdd"}
    RemoteDevs = {}
    LoopDev = "loop0"
    DevName <- MCDevName
    Exprs = {"hdd"}
    NoExpr = ""
    Match <- MCMatch
    FlagInputs <- MCFlagInputsSmall
    MinOsds = 2
    MaxFailures = 1
    MaxLoops = 0
    OperatorRemovals = TRUE
    None = None
    Comma = ","
    Space = " "
    Words <- MCWords
    Lower <- MCLower
    WipeOsd = "wipe:osd"
    EncryptOsd = "encrypt:osd"
SPECIFICATION Spec
PROPERTY
    EventsHandled
