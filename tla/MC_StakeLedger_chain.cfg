CONSTANTS
    v1 = v1
    v2 = v2
    v3 = v3
    o1 = o1
    o2 = o2
    o3 = o3
    d1 = d1
    NoRecord = NoRecord
    Validators <- MCValidators3
    Delegators <- MCDelegators3
    Operator <- MCOperator3
    InitCoins <- MCInitCoins3
    SelfBond = 1
    Amounts = {1}
    MaxValidators = 2
    UnbondingTime = 2
    H001 = 100
    TimeSteps = {1, 2}
    MaxTime = 4

SPECIFICATION Spec

INVARIANT
    NoTransitiveRedelegationChain
