SPECIFICATION Spec
CONSTANTS
    MaxFrames = 3
    Digits <- Written
INVARIANTS
    FramesYieldedOnArrival
    CutFrameIsKnown
