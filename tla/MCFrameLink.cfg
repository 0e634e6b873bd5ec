SPECIFICATION LinkSpec
CONSTANTS
    PrefixLen = 2
    MaxHeader = 1
    MaxPayload <- MCMaxPayload
    Uint32Max = 9
    ElementSize <- MCElementSize
    MaxDim = 2
    Required <- MCRequired
    MinLength = 1
    MaxSize = 2
    MaxPoints = 2
    MaxLandmarks = 2
    MaxColliders = 2
    MaxIdBytes = 8
    IdBytes <- MCIdBytes
    RgbdMessages <- MCRgbdMessages
    CharacterMessages <- MCCharacterMessages
    Keep = 3
    MaxDelay = 4
    MaxJump = 5
    Clocks <- MCClocks
    Delays <- MCDelays
INVARIANTS AcceptedCaptureIsWhole   OffsetWithinUncertainty
\* A message is decoded once.
CHECK_DEADLOCK FALSE
