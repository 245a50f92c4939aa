SPECIFICATION Spec
CONSTANTS
    SeqMod = 16
    PacketBufferSize = 2
    PacketSequenceDiff = 4
    InitialSeq = 2
    MaxFragments = 2
    MaxPackets = 6
    MaxLifetime = 3
    MaxLosses = 2
    MaxInVain = 3
INVARIANTS RtpStreamInv WholeFrames
PROPERTIES InOrder
CHECK_DEADLOCK FALSE
