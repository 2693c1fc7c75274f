SPECIFICATION HealthySpec
CONSTANTS
    p1 = p1
    p2 = p2
    w1 = w1
    w2 = w2
    Panes = {p1, p2}
    Watchers = {w1, w2}
    Depth = 1
    MaxChunk = 3
    FlushBytes = 2
    MaxFrame = 3
    High = 3
    Low = 1
    ScreenLen = 1
    Cases <- OnePane
CHECK_DEADLOCK FALSE
PROPERTIES
    TailIsShown
