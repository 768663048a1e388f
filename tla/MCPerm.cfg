SPECIFICATION Spec
CONSTANTS
    N = 8
    Widths = {6, 7}
    Lambda = 1
    Rounds = 3
    BlockBits = 3
    apply <- MCApply
    invert <- MCInvert
    shake <- MCShake
    enc <- MCEnc
    dec <- MCDec
    hash <- MCHash
    stream <- MCStream
    l <- MCL
    XoodooRows <- MCXoodooRows
INVARIANTS
    RoundTrip
    XoodooRoundTrip
    RoundsSeparated
