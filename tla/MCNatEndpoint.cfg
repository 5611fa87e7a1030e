\* One peer (they do not depend on each other), two moves.
SPECIFICATION FairSpec
CONSTANTS
    Peers = {"p1"}
    MaxAddr = 3
    MaxInbox = 1
INVARIANTS TypeOK OldHolesCleared EndpointCurrent
PROPERTY RegistriesFollow
