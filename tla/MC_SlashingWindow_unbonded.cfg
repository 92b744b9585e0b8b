CONSTANTS
    w1 = w1
    w2 = w2
    Validators <- MCValidators
    SignedBlocksWindow = 3
    MinSignedPerWindow = 2
    MaxEvidenceAge = 2
    DowntimeJailDuration = 2
    DoubleSignJailDuration = 4
    CensorshipJailDuration = 1
    UnbondingTime = 2
    ValidatorUpdateDelay = 1
    TimeSteps = {1}
    EvidenceHeights = {3, 4, 5}
    MaxHeight = 9

SYMMETRY Perms

SPECIFICATION Spec

PROPERTY
    DoubleSignWithinAgeSlashed
