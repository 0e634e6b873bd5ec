SPECIFICATION Spec
CONSTANTS
    PrefixLen = 16
    MaxHeader = 4
    MaxPayload <- MCMaxPayload
    Uint32Max = 1000
    ElementSize <- MCElementSize
    Required <- MCRequired
    MinLength = 1
    MaxSize = 25
    MaxPoints = 5
    Budget = 2
    MaxLandmarks = 4
    MaxColliders = 4
    MaxIdBytes = 8
    IdBytes <- MCIdBytes
    Default <- MCDefault
    MinSamples = 2
    MinSupport <- MCMinSupport
    FingerExtent = 3
    Reach = 6
    Views <- MCViews
    Reference = "front"
    Pairs <- MCPairs
    Profiles <- MCProfiles
    MinThickness = 12
    SeamOverlap = 1
    Shifts <- MCShifts
    MaxRefine = 2
    MaxRigs = 2
    MaxFrames = 2
INVARIANTS FusedWhereFitted OpposingViewsMeet ObservedMeansMeasured 
PROPERTIES SubjectNeverRegresses LearnedFromValidated
\* The model stops at MaxFrames.
CHECK_DEADLOCK FALSE
