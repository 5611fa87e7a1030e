\* Two LAN peers, which may offer certificates of two networks.
SPECIFICATION FairStoreSpec
CONSTANTS
    Peers = {"p1", "p2"}
    Roots = {"r1", "r2"}
    Ints = {"i1", "i2"}
    SignedBy <- TwoChains
    None = None
    Torn = Torn
    Mixed = Mixed
INVARIANTS StoreTypeOK OneChain CnsSaved
PROPERTY RootArrives
