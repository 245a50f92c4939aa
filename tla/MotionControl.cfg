SPECIFICATION OSpec
CONSTANTS
    Drags <- MCDrags
    Decel = 2
    Orientations <- OnTheDock
    MaxInFlight = 2
    Positions = {"LandscapeLeft", "LandscapeRight", "Portrait", "PortraitUpsideDown", "FaceUp"}
INVARIANTS OrientationInv
PROPERTIES Stops PictureGetsRight
