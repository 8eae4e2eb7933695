SPECIFICATION SessionSpec
CONSTANTS
    Users = {ann, bob}
    Nobody = Nobody
    ReadsMayFail = FALSE
    MaxRequests = 1
    MaxDepth = 4
INVARIANTS PicturesAtHand
