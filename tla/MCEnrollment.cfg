\* Three commands on two nodes compete for two tokens; one restart.
CONSTANTS
    Tokens = {t1, t2}
    Nodes = {n1, n2}
    Attempts = {a1, a2, a3}
    Handlers = {h1}
    None = None
    Torn = Torn
    MaxRestarts = 1
SPECIFICATION Spec
SYMMETRY Symmetric
INVARIANTS TypeOK SingleUseUnlessCut IdentityWhole
CHECK_DEADLOCK FALSE
