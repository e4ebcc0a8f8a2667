CONSTANTS
    Comma = ","
    Space = " "
    Words <- MCWords
    Lower <- MCLower
    WipeOsd = "wipe:osd"
    EncryptOsd = "encrypt:osd"
    MaxLen = 5
    V4Addrs = {"10.0.0.1", "10.0.0.2"}
    V6Addrs = {"fd00::1", "fd00::2"}
    MaxIfaces = 2
    Key = "AQB=="
    FsName = "k8s"
    PoolIds = {1, 2, 3}
    None = None
SPECIFICATION PureSpec
INVARIANT
    ParseMatchesReference
    AddressMatchesReference
    CephfsPoolsMatchReference
