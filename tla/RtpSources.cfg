SPECIFICATION QSpec
CONSTANTS
  SSRCs = {x1, x2, x3}
  h1 = h1
  h2 = h2
  Addresses <- MCAddresses
  Local <- MCLocal
  Names = {n1}
  AcceptOwn = TRUE
  Probation = 2
  SeqMod = 8
  MaxProbationPackets = 3
  MaxGap = 2
  MaxLate = 1
  MaxArrivals = 6
  NoSSRC = NoSSRC
  Self = Self
  Unset = Unset
  NoName = NoName
SYMMETRY Perms
CHECK_DEADLOCK FALSE
INVARIANTS SourcesInv OneHostPerSource OwnSurvives
PROPERTIES NoTakeover
