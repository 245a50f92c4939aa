SPECIFICATION CallSpec
CONSTANTS
    Peer = {p1, p2, p3}
    NoPeer = NoPeer
INVARIANTS NoOrphanConnection CallIsOnScreen CallIsLinked
PROPERTIES AttemptResolves
