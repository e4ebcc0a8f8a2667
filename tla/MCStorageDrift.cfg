CONSTANTS
    Storages = {"osd-standalone/0", "osd-standalone/1"}
    StorageList <- MCStorageList
    Loc <- MCLoc
    HostDevs = {"vdd"}
    RemoteDevs = {}
    LoopDev = "loop0"
    DevName <- MCDevName
    Exprs = {"hdd"}
    NoExpr = ""
    Match <- MCMatch
    FlagInputs <- MCFlagInputs
    MinOsds = 2
    MaxFailures = 0
    MaxLoops = 1
    OperatorRemovals = TRUE
    None = None
    Comma = ","
    Space = " "
    Words <- MCWords
    Lower <- MCLower
    WipeOsd = "wipe:osd"
    EncryptOsd = "encrypt:osd"
SPECIFICATION Spec
INVARIANT
    IndexSound
