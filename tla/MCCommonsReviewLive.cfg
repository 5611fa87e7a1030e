CONSTANTS
    Requests = {r1, r2}
    Consents = {c1}
    None = None
    TTL = 1
    MaxTime = 2
SPECIFICATION FairSpec
PROPERTIES ImplementsGate EveryReviewSettles EveryWaiterReplies
