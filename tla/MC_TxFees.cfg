\* Two accounts holding 7 coins, gas limits including 0 and one above the
\* int64 range of 4-bit gas, gas use past every limit, fees of 0 or 3 and a
\* threshold of 1 that governance may move to 2 (0 and 4 are invalid).
CONSTANTS
    a1 = a1
    a2 = a2
    none = none
    NoAddr = none
    Accounts <- MCAccounts
    InitBalance <- MCInitBalance
    Msgs <- MCMsgs
    GasBits = 4
    GasLimits = {0, 1, 2, 9}
    MaxGasUsed = 3
    Fees = {0, 3}
    ThresholdValues = {0, 1, 2, 4}
    MaximumGasPrice = 3
    InitThreshold = 1
SPECIFICATION Spec
INVARIANTS
    TypeOK
    SupplyConserved
    RefundBounded
    GasPriceFloor
    NoFreeGas
