SPECIFICATION ASpec
CONSTANTS
    FrameSamples = 2
    MaxFramesPerPacket = 2
    CaptureSizes = {1, 3}
    MaxCaptures = 6
    MaxErrors = 2
    FrameBytes = 2
    PacketBytes = {0, 2, 3, 4}
    PlaybackSizes = {1, 3}
    Step = 4
    MaxReceived = 5
    MaxSilence = 3
INVARIANTS AudioCaptureInv PlaybackInv
PROPERTIES Drains
CHECK_DEADLOCK FALSE
