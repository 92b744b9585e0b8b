\* Two validators with powers 1 or 2, fees of 0 or 1 coin per block,
\* Dec precision 1/10 and a commission rate of 0.3 so that every division
\* and commission rounds.
CONSTANTS
    u1 = u1
    u2 = u2
    Validators <- MCValidators
    InitPower <- MCInitPower
    PowerLevels = {1, 2}
    Fees = {0, 1}
    Scale = 10
    CommissionRate = 3
    MaxHeight = 4
SPECIFICATION Spec
INVARIANTS
    TypeOK
    AccumConserved
    RewardsConserved
    CurrentRewardsMatchWithdrawal
    ExportDrainsFeePool
