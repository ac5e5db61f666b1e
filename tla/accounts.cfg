SPECIFICATION Spec
CONSTANTS
    h1 = h1
    h2 = h2
    t1 = t1
    t2 = t2
    None = None
    Accounts = {a1, a2}
    Domains = {x1}
    Hosts = {h1, h2}
    SecureHosts = {h1}
    Tokens = {t1, t2}
    Nature <- MCNature
    Editors = {u1, u2}
    LinksWait = TRUE
    MaxWrites = 3
    MaxMoves = 2
SYMMETRY Swap
INVARIANTS
    TypeOK
    Provisioned
    KeyOfOne
    OneDefault
    TokenWorks
PROPERTIES
    StaysDeliverable
    KeyStays
    DefaultIsChosen
