SPECIFICATION Spec
CONSTANTS
    manager = manager
    Roles = {manager}
    RelayRole = RelayRole
    All = All
    Rights <- MCRights
    Standard <- MCStandard
    Callers <- MCCallers
    MaxDrifts = 3
    None = None
INVARIANTS
    TypeOK
    LeastPrivilege
    CanDeliver
    SessionHandedBack
PROPERTY
    OthersKeepAccess
