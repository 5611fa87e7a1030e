\* Three servers, one of them lying, and an honest bootstrap; times up to 4.
SPECIFICATION FairSpec
CONSTANTS
    Servers = {"s1", "s2", "s3"}
    Bootstraps <- OneBootstrap
    Liars = {"s3"}
    BuildTime = 1
    MaxDrift = 1
    MaxBack = 2
    MaxTime = 4
INVARIANTS TypeOK VerdictSound SavedSound
PROPERTIES ServedOnTime Settles
