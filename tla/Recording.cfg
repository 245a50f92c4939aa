SPECIFICATION RecordingSpec
CONSTANTS
    MaxTaps = 6
INVARIANTS DevicesAgree
PROPERTIES StopsInTheEnd
CHECK_DEADLOCK FALSE
