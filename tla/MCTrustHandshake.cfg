\* One peer, which comes to the LAN and leaves it; two posts in the network.
CONSTANTS
    p1 = p1
    p2 = p2
    Peers = {p1}
    PeerNodes <- OnePeer
    Lan = {p1}
    MaxNodes = 2
    MaxInFlight = 2
SPECIFICATION FairSpec
INVARIANTS TypeOK AckIsHeld
PROPERTIES StopsRetry PickedUp GoneExpires
