CONSTANTS
    Peers = {p1}
    Calls = {h1}
    Approvals = {a1}
    Enrolled = {p2}
    Ack = Ack
    None = None
SPECIFICATION FairSpec
INVARIANTS TypeOK TrustGrounded ApprovalsSaved
PROPERTY ApprovalReachesRegistry
