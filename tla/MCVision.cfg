SPECIFICATION VisionSpec
CONSTANTS
    Radius = 1
    MaxRadius = 2
    MinSupport = 3
    Discontinuity = 5
    DepthMin = 20
    DepthMax = 500
    FullSupport = 6
    FullSpread = 3
    MaskSource = "depth"
    MaxRange = 450
    PoseNames <- MCPoseNames
    HandNames <- MCHandNames
    HandName <- MCHandName
    PoseAnchors <- MCPoseAnchors
    HandAnchors <- MCHandAnchors
    MinAnchors = 4
    MinHandAnchors = 2
    Huber = 5
    MaxRms = 8
    MaxHandRms = 3
    Crossing <- MCCrossing
    MinAngle = 4
    MaxReprojection = 6
    MaxBehind = 35
    MaxInFront = 3
    MinVeto = 4
    MinQuality = 25
    Agreement = 6
    HeadBack = 7
    PoseGate = 10
    HandGate = 6
    MinMargin = 15
    DirectionWeight = 15
    HandednessWeight = 25
    Width = 5
    Height = 4
    Sources <- MCSources
    Origin <- MCOrigin
    Direction <- MCDirection
    Shots <- MCShots
    MinVisibility = 50
    CropFallback = TRUE
    Subject <- MCSubject
    Shifts <- MCShifts
INVARIANTS HandsUnambiguous  
