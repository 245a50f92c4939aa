SPECIFICATION SSpec
CONSTANTS
  Sources = {s1, s2, s3}
  Items <- MCItems
  ItemLength <- MCItemLength
  Interval <- MCInterval
  Period = 2
  CNameLength = 2
  AppData = 8
  MaxPacketSize = 84
  MaxCount = 1
  Tmin = 4
  Cost = 1
  Factors = {50, 120}
  ImmediateBelow = 3
  MaxMembers = 4
  MaxByes = 2
  MaxLag = 1
  MaxSilence = 3
SYMMETRY Perms
INVARIANTS RtcpReportsInv SchedulerInv
PROPERTY RoundsGetOn
