SPECIFICATION Spec
CONSTANTS
    First = front
    Second = side
    SkewLimit = 1
    UncertaintyLimit = 0
    RequireCaptureId = TRUE
    Window = 2
    Strangers = {stranger}
    Captures = {c1, c2}
    Times = {0, 1, 3}
    Uncertainties = {0, 1}
    MaxFrames = 4
INVARIANTS PairsSound ConsumedOnce NoMatchLeftWaiting
PROPERTIES LostOnlyAsOldest ImplementsMatching
