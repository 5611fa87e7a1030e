CONSTANTS
    Tokens = {t1}
    Nodes = {n1, n2}
    Attempts = {a1, a2}
    Handlers = {h1, h2}
    None = None
    Torn = Torn
    MaxRestarts = 0
SPECIFICATION Spec
INVARIANT SingleUse
CHECK_DEADLOCK FALSE
