CONSTANTS
    Sites = {"site-a", "site-b"}
    None = None
    SiteNameKey = SiteNameKey
    TokenKey = TokenKey
SPECIFICATION Spec
PROPERTY
    NoHookStuckInError
