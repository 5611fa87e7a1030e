CONSTANTS
    Requests = {r1, r2}
    Consents = {c1, c2}
    None = None
    TTL = 1
    MaxTime = 3
SPECIFICATION Spec
SYMMETRY Symmetry
INVARIANTS TypeOK ConsentRequired AtMostOnce Custody LostOnlyToLateConsent TimelyConsentHonoured
