CONSTANTS
    p1 = p1
    p2 = p2
    Peers = {p1}
    PeerNodes <- OnePeer
    Lan = {}
    MaxNodes = 1
    MaxInFlight = 3
SPECIFICATION FairSpec
PROPERTY WillAsk
