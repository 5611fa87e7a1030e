\* Two keys, two calls per window of two units, six units of time.
CONSTANTS
    Keys = {peer, host}
    Limit = 2
    Window = 2
    MaxTime = 5
SPECIFICATION Spec
INVARIANT AtMostLimit
PROPERTY ImplementsSlidingWindow
