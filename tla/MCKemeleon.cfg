SPECIFICATION Spec
CONSTANTS
    Q = 5
    PolyLen = 2
    Half = 4
    Modes <- MCModes
    Keys <- MCKeys
INVARIANTS
    KeyRoundTrip
    NoiseDecodes
    CipherRoundTrip
