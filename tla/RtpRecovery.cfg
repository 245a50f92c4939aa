SPECIFICATION RecoverySpec
CONSTANTS
    SeqMod = 5
    PacketBufferSize = 1
    PacketSequenceDiff = 3
    FrameFragments = 2
    MaxInFlight = 2
    MaxBadInVain = 2
INVARIANTS RtpRecoveryInv
PROPERTIES Recovers
