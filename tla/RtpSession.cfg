SPECIFICATION PSpec
CONSTANTS
  SSRCs = {x1, x2, x3}
  h1 = h1
  Sizes = {1, 2, 3, 4, 5}  MinSize = 2  MaxSize = 4
  CSRCs = {x1, x2, x3}
  MaxCSRCs = 2
  PayloadTypes = {0, 72}  Reserved = {72, 73}
  Incs = {0, 1}  TsMod = 2  Numbers = 2
  PacketSizes = {6, 8}  DefaultMarks = {TRUE}  MaxBuilds = 3
  a = a  b = b  lo = lo
  IPs = {a, b, lo}  Loopback = lo
  HostNames = {1, 2, 3, 4}  Dotted = {2, 3}
  Interfaces <- MCInterfaces
  DNSs <- MCDNSs
  None = None
  Addresses <- MCAddresses
  Local <- MCLocal
  Names = {}
  AcceptOwn = FALSE
  Probation = 1
  RtpInputs <- MCRtpInputs
  RtcpItems <- MCRtcpItems
  NoSSRC = NoSSRC
  Self = Self
  Unset = Unset
  NoName = NoName
SYMMETRY Perms
INVARIANTS RtpSessionInv SendGoesOn SetupInv PacketsInv HostInv
PROPERTIES SilentAfterBYE OneAtATime
