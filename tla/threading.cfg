SPECIFICATION Spec
CONSTANTS
    MaxMessages = 4
    MaxIds = 1
    MaxRelinks = 1
    MaxCleared = 1
    Named = {2}
INVARIANTS
    TypeOK
    OwnIdTravels
PROPERTY
    LandsOnItsAnchor
