------------------------- MODULE MC_FeeDistribution -------------------------
EXTENDS FeeDistribution

CONSTANTS u1, u2

MCValidators == {u1, u2}
MCInitPower == [v \in MCValidators |-> 1]
=============================================================================
