\* Two people, two requests in flight, any read and any step may fail.
SPECIFICATION SessionSpec
CONSTANTS
    Users = {ann, bob}
    Nobody = Nobody
    ReadsMayFail = TRUE
    MaxRequests = 2
    MaxDepth = 4
SYMMETRY Symmetry
INVARIANTS SessionTypeOK SignedInBehindTheDoor OneIdentity NoSelfChat
PROPERTIES FindableOnceInside
