CONSTANTS
    Requests = {r1}
    MaxJobs = 4
SPECIFICATION SchedSpec
INVARIANTS NoOvertaking LedgerBalances
PROPERTIES ImplementsLanes EveryJobAnswered
CHECK_DEADLOCK FALSE
