SPECIFICATION LSpec
CONSTANTS
    MaxPackets = 3
    MaxFrames = 5
    MaxTime = 5
    MaxPings = 3
INVARIANTS StaysClose LatencyInv
PROPERTIES EveryFrameSent
CHECK_DEADLOCK FALSE
