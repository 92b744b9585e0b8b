CONSTANTS
    v1 = v1
    v2 = v2
    v3 = v3
    o1 = o1
    o2 = o2
    o3 = o3
    d1 = d1
    NoRecord = NoRecord
    Validators <- MCValidators
    Delegators <- MCDelegators
    Operator <- MCOperator
    InitCoins <- MCInitCoins
    SelfBond = 1
    Amounts = {1}
    MaxValidators = 1
    UnbondingTime = 2
    H001 = 4
    TimeSteps = {1, 2}
    MaxTime = 4

SPECIFICATION Spec

PROPERTIES
    EntriesEventuallyComplete
