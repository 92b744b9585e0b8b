-------------------------- MODULE FeeDistribution --------------------------
(***************************************************************************)
(* The lazy fee-pool accounting of modules/distribution: the global        *)
(* FeePool {TotalValAccum, ValPool, CommunityPool} and, per validator, the *)
(* ValidatorDistInfo {FeePoolWithdrawalHeight, DelPool, ValCommission}.    *)
(* A validator's accum is power * (height - FeePoolWithdrawalHeight); the  *)
(* total accum grows with the last total power and is cashed out by        *)
(* TakeFeePoolRewards.                                                     *)
(*                                                                         *)
(* Dec values are integers in units of 1/Scale with the rounding of        *)
(* sdk.Dec (half to even).  A DecCoins of one denomination is one Dec; an  *)
(* empty DecCoins is 0.  Each validator has at most one delegation, its    *)
(* operator's self-delegation, so the delegator's prorated share of        *)
(* DelPool (DelegationDistInfo, not in this tree) is all of DelPool.       *)
(***************************************************************************)
EXTENDS Integers, FiniteSets, FiniteSetsExt, Functions

CONSTANTS
    Validators,       \* operator addresses, each with its ValidatorDistInfo
    PowerLevels,      \* powers a validator with a delegation can have
    InitPower,        \* [Validators -> PowerLevels]: the genesis set
    Fees,             \* whole-coin fees collected in a block
    Scale,            \* 1 in Dec units (sdk.Dec precision, scaled down)
    CommissionRate,   \* validator commission rate in Dec units
    MaxHeight         \* last block height explored

ASSUME /\ Scale \in Nat \ {0}
       /\ CommissionRate \in 0..Scale
       /\ PowerLevels \subseteq Nat \ {0}
       /\ InitPower \in [Validators -> PowerLevels]

VARIABLES
    height,          \* ctx.BlockHeight()
    lastPower,       \* stake GetLastValidatorPower
    lastTotalPower,  \* stake GetLastTotalPower
    delegated,       \* the operator's self-delegation exists
    feePool,         \* [totalValAccum |-> [updateHeight, accum], valPool, communityPool]
    vdi,             \* ValidatorDistInfo per validator
    paid,            \* whole coins credited to each operator's account
    allocated        \* history: Dec units ever allocated to the fee pool

vars == <<height, lastPower, lastTotalPower, delegated, feePool, vdi, paid, allocated>>

(* The distribution store threaded through a sequence of keeper calls. *)
Dist == [fp |-> feePool, vdi |-> vdi, paid |-> paid]

-----------------------------------------------------------------------------
(* sdk.Dec arithmetic *)

\* chopPrecisionAndRound: n / d rounded half to even, for n >= 0
ChopPrecisionAndRound(n, d) ==
    LET q == n \div d
        r == n % d
    IN  IF 2 * r < d THEN q ELSE IF 2 * r > d THEN q + 1 ELSE q + (q % 2)

MulDec(x, y) == ChopPrecisionAndRound(x * y, Scale)
QuoDec(x, y) == ChopPrecisionAndRound((x * Scale * Scale) \div y, Scale)
NewDecFromInt(n) == n * Scale

(* TotalAccum (types/total_accum.go, not in this tree) *)
NewTotalAccum(h) == [updateHeight |-> h, accum |-> 0]
GetAccum(ta, h, power) == ta.accum + power * (h - ta.updateHeight)
UpdateForNewHeight(ta, h, power) == [updateHeight |-> h, accum |-> GetAccum(ta, h, power)]

-----------------------------------------------------------------------------
(* types/fee_pool.go *)

UpdateTotalValAccum(fp, h, totalBondedTokens) ==
    [fp EXCEPT !.totalValAccum = UpdateForNewHeight(@, h, totalBondedTokens)]

GetTotalValAccum(fp, h, totalBondedTokens) ==
    GetAccum(fp.totalValAccum, h, totalBondedTokens)

InitialFeePool == [totalValAccum |-> NewTotalAccum(0), valPool |-> 0, communityPool |-> 0]

(* types/validator_info.go *)

NewValidatorDistInfo(h) == [feePoolWithdrawalHeight |-> h, delPool |-> 0, valCommission |-> 0]

\* fault variant: counting the withdrawal block itself
GetValAccumInclusive(vi, h, valTokens) == valTokens * (h - vi.feePoolWithdrawalHeight + 1)

GetValAccum(vi, h, valTokens) == valTokens * (h - vi.feePoolWithdrawalHeight)

(* keeper.GetWithdrawContext (not in this tree): last powers from stake *)
WithdrawContext(fp, v) ==
    [feePool |-> fp, height |-> height, totalPower |-> NewDecFromInt(lastTotalPower),
     valPower |-> NewDecFromInt(lastPower[v]), commissionRate |-> CommissionRate]

\* fault variant: the total accum is reduced but its update height is not saved
TakeFeePoolRewardsStaleHeight(vi, wc) ==
    LET fp         == UpdateTotalValAccum(wc.feePool, wc.height, wc.totalPower)
        total      == fp.totalValAccum.accum
        accum      == GetValAccum(vi, wc.height, wc.valPower)
        withdrawal == QuoDec(MulDec(fp.valPool, accum), total)
        commission == MulDec(withdrawal, wc.commissionRate)
    IN  IF total = 0
        THEN [vi |-> [vi EXCEPT !.feePoolWithdrawalHeight = wc.height], fp |-> wc.feePool]
        ELSE [vi |-> [vi EXCEPT !.feePoolWithdrawalHeight = wc.height,
                                !.valCommission = @ + commission,
                                !.delPool = @ + (withdrawal - commission)],
              fp |-> [wc.feePool EXCEPT !.totalValAccum.accum = total - accum,
                                        !.valPool = @ - withdrawal]]

\* fault variant: the validator's accum is not taken out of the total
TakeFeePoolRewardsNoAccumSub(vi, wc) ==
    LET fp         == UpdateTotalValAccum(wc.feePool, wc.height, wc.totalPower)
        total      == fp.totalValAccum.accum
        accum      == GetValAccum(vi, wc.height, wc.valPower)
        withdrawal == QuoDec(MulDec(fp.valPool, accum), total)
        commission == MulDec(withdrawal, wc.commissionRate)
    IN  IF total = 0
        THEN [vi |-> [vi EXCEPT !.feePoolWithdrawalHeight = wc.height], fp |-> fp]
        ELSE [vi |-> [vi EXCEPT !.feePoolWithdrawalHeight = wc.height,
                                !.valCommission = @ + commission,
                                !.delPool = @ + (withdrawal - commission)],
              fp |-> [fp EXCEPT !.valPool = @ - withdrawal]]

TakeFeePoolRewards(vi, wc) ==
    LET fp         == UpdateTotalValAccum(wc.feePool, wc.height, wc.totalPower)
        total      == fp.totalValAccum.accum
        accum      == GetValAccum(vi, wc.height, wc.valPower)
        withdrawal == QuoDec(MulDec(fp.valPool, accum), total)
        commission == MulDec(withdrawal, wc.commissionRate)
    IN  IF total = 0
        THEN [vi |-> [vi EXCEPT !.feePoolWithdrawalHeight = wc.height], fp |-> fp]
        ELSE [vi |-> [vi EXCEPT !.feePoolWithdrawalHeight = wc.height,
                                !.valCommission = @ + commission,
                                !.delPool = @ + (withdrawal - commission)],
              fp |-> [fp EXCEPT !.totalValAccum.accum = total - accum,
                                !.valPool = @ - withdrawal]]

\* fault variant: the commission is paid but not zeroed
WithdrawCommissionNoReset(vi, wc) ==
    LET r == TakeFeePoolRewards(vi, wc)
    IN  [vi |-> r.vi, fp |-> r.fp, withdrawn |-> r.vi.valCommission]

WithdrawCommission(vi, wc) ==
    LET r == TakeFeePoolRewards(vi, wc)
    IN  [vi |-> [r.vi EXCEPT !.valCommission = 0], fp |-> r.fp,
         withdrawn |-> r.vi.valCommission]

\* fault variant: the projection forgets to charge the commission
CurrentPoolRewardsGross(vi, wc) ==
    LET total      == GetTotalValAccum(wc.feePool, wc.height, wc.totalPower)
        withdrawal == QuoDec(MulDec(wc.feePool.valPool, GetValAccum(vi, wc.height, wc.valPower)), total)
    IN  vi.delPool + withdrawal

CurrentPoolRewards(vi, wc) ==
    LET total      == GetTotalValAccum(wc.feePool, wc.height, wc.totalPower)
        withdrawal == QuoDec(MulDec(wc.feePool.valPool, GetValAccum(vi, wc.height, wc.valPower)), total)
    IN  vi.delPool + (withdrawal - MulDec(withdrawal, wc.commissionRate))

CurrentCommissionRewards(vi, wc) ==
    LET total      == GetTotalValAccum(wc.feePool, wc.height, wc.totalPower)
        withdrawal == QuoDec(MulDec(wc.feePool.valPool, GetValAccum(vi, wc.height, wc.valPower)), total)
    IN  vi.valCommission + MulDec(withdrawal, wc.commissionRate)

-----------------------------------------------------------------------------
(* keeper: the store threaded through the calls of one handler *)

(* keeper.WithdrawToDelegator (not in this tree): whole coins go to the    *)
(* account, the decimal change to the community pool, the pool is saved.   *)
WithdrawToDelegator(st, fp, v, amount) ==
    [st EXCEPT !.fp = [fp EXCEPT !.communityPool = @ + (amount % Scale)],
               !.paid[v] = @ + amount \div Scale]

(* keeper.withdrawDelegationReward (not in this tree) for the only         *)
(* delegation of v: the validator settles, the delegator takes DelPool.    *)
withdrawDelegationReward(st, v) ==
    LET r == TakeFeePoolRewards(st.vdi[v], WithdrawContext(st.fp, v))
    IN  [fp |-> r.fp, vi |-> [r.vi EXCEPT !.delPool = 0], withdraw |-> r.vi.delPool]

takeValidatorFeePoolRewards(st, v) ==
    LET st1 == IF delegated[v]
               THEN LET w == withdrawDelegationReward(st, v)
                    IN  WithdrawToDelegator([st EXCEPT !.vdi[v] = w.vi], w.fp, v, w.withdraw)
               ELSE [st EXCEPT !.vdi[v].feePoolWithdrawalHeight = height]
        r   == TakeFeePoolRewards(st1.vdi[v], WithdrawContext(st1.fp, v))
    IN  [st1 EXCEPT !.fp = r.fp, !.vdi[v] = r.vi]

withdrawValidatorCommission(st, v) ==
    LET c == WithdrawCommission(st.vdi[v], WithdrawContext(st.fp, v))
    IN  [st |-> [st EXCEPT !.vdi[v] = c.vi], fp |-> c.fp, commission |-> c.withdrawn]

WithdrawValidatorRewardsAll(st, v) ==
    LET w   == IF delegated[v] THEN withdrawDelegationReward(st, v)
               ELSE [fp |-> st.fp, vi |-> st.vdi[v], withdraw |-> 0]
        st1 == [st EXCEPT !.fp = w.fp, !.vdi[v] = w.vi]
        c   == withdrawValidatorCommission(st1, v)
    IN  WithdrawToDelegator(c.st, c.fp, v, w.withdraw + c.commission)

(* the query: whole coins of the delegation rewards plus the commission *)
CurrentValidatorRewardsAll(st, v) ==
    LET wc       == WithdrawContext(st.fp, v)
        withdraw == IF delegated[v] THEN CurrentPoolRewards(st.vdi[v], wc) ELSE 0
    IN  (withdraw + CurrentCommissionRewards(st.vdi[v], wc)) \div Scale

(* app/v0/export.go prepForZeroHeightGenesis, fee distribution part: every *)
(* validator withdraws everything, then each delegation withdraws.         *)
PrepForZeroHeightGenesis(st) ==
    LET afterVals == FoldSet(LAMBDA v, s : WithdrawValidatorRewardsAll(s, v), st, Validators)
        afterDels == FoldSet(LAMBDA v, s :
                                 LET w == withdrawDelegationReward(s, v)
                                 IN  WithdrawToDelegator([s EXCEPT !.vdi[v] = w.vi], w.fp, v, w.withdraw),
                             afterVals, {v \in Validators : delegated[v]})
    IN  afterDels

-----------------------------------------------------------------------------
(* Actions.  A handler's writes are kept only on success (cache context).  *)

Commit(st) == feePool' = st.fp /\ vdi' = st.vdi /\ paid' = st.paid

Init ==
    /\ height = 1
    /\ lastPower = InitPower
    /\ lastTotalPower = MapThenSumSet(LAMBDA v : InitPower[v], Validators)
    /\ delegated = [v \in Validators |-> TRUE]
    /\ feePool = InitialFeePool
    /\ vdi = [v \in Validators |-> NewValidatorDistInfo(0)]
    /\ paid = [v \in Validators |-> 0]
    /\ allocated = 0

(* MsgWithdrawValidatorRewardsAll *)
WithdrawValidatorRewardsAllTx(v) ==
    /\ Commit(WithdrawValidatorRewardsAll(Dist, v))
    /\ UNCHANGED <<height, lastPower, lastTotalPower, delegated, allocated>>

(* Delegate creating the self-delegation: the OnDelegationCreated hook     *)
(* settles the validator (onValidatorModified) before the shares change.   *)
DelegateTx(v) ==
    /\ ~delegated[v]
    /\ Commit(takeValidatorFeePoolRewards(Dist, v))
    /\ delegated' = [delegated EXCEPT ![v] = TRUE]
    /\ UNCHANGED <<height, lastPower, lastTotalPower, allocated>>

(* Undelegating all of it: OnDelegationSharesModified settles the          *)
(* validator and withdraws the delegation's rewards; then the delegation   *)
(* and its DelegationDistInfo are removed.                                 *)
UndelegateTx(v) ==
    /\ delegated[v]
    /\ LET st1 == takeValidatorFeePoolRewards(Dist, v)
           w   == withdrawDelegationReward(st1, v)
       IN  Commit(WithdrawToDelegator([st1 EXCEPT !.vdi[v] = w.vi], w.fp, v, w.withdraw))
    /\ delegated' = [delegated EXCEPT ![v] = FALSE]
    /\ UNCHANGED <<height, lastPower, lastTotalPower, allocated>>

(* EndBlock of this height: the set update sets the new last powers,       *)
(* calling OnValidatorPowerDidChange (onValidatorModified) on each changed *)
(* validator before SetLastValidatorPower, and the last total power; then  *)
(* BeginBlock of the next height allocates the collected fees to ValPool.  *)
(* Tendermint refuses an empty validator set.                              *)
NextBlock ==
    /\ height < MaxHeight
    /\ \E newPower \in [Validators -> {0} \cup PowerLevels], fee \in Fees :
          /\ \A v \in Validators : (newPower[v] > 0) = delegated[v]
          /\ LET changed == {v \in Validators : newPower[v] # lastPower[v]}
                 st      == FoldSet(LAMBDA v, s : takeValidatorFeePoolRewards(s, v), Dist, changed)
             IN  /\ feePool' = [st.fp EXCEPT !.valPool = @ + NewDecFromInt(fee)]
                 /\ vdi' = st.vdi
                 /\ paid' = st.paid
          /\ lastPower' = newPower
          /\ lastTotalPower' = MapThenSumSet(LAMBDA v : newPower[v], Validators)
          /\ lastTotalPower' > 0
          /\ allocated' = allocated + NewDecFromInt(fee)
    /\ height' = height + 1
    /\ UNCHANGED delegated

(* The explored chain ends at MaxHeight, or when no validator is left.     *)
Halted ==
    /\ height = MaxHeight \/ \A v \in Validators : ~delegated[v]
    /\ UNCHANGED vars

Next ==
    \/ \E v \in Validators :
          WithdrawValidatorRewardsAllTx(v) \/ DelegateTx(v) \/ UndelegateTx(v)
    \/ NextBlock
    \/ Halted

(* The accum a validator has at the current block without changing state: *)
(* its last power times the blocks since its FeePoolWithdrawalHeight.      *)
(* Every validator of the model has distribution info, so the              *)
(* ErrNoValidatorDistInfo branch is not reached.                           *)
GetValidatorAccum(v) == GetValAccum(vdi[v], height, NewDecFromInt(lastPower[v]))

Spec == Init /\ [][Next]_vars

-----------------------------------------------------------------------------
(* Properties *)

TotalAccumNow == GetTotalValAccum(feePool, height, NewDecFromInt(lastTotalPower))

TypeOK ==
    /\ height \in 1..MaxHeight
    /\ lastPower \in [Validators -> {0} \cup PowerLevels]
    /\ delegated \in [Validators -> BOOLEAN]
    /\ feePool.totalValAccum.accum \in Nat
    /\ feePool.totalValAccum.updateHeight \in 0..height
    /\ feePool.valPool \in Nat
    /\ feePool.communityPool \in Nat
    /\ \A v \in Validators :
          /\ vdi[v].feePoolWithdrawalHeight \in 0..height
          /\ vdi[v].delPool \in Nat
          /\ vdi[v].valCommission \in Nat
    /\ paid \in [Validators -> Nat]

(* The lazy accums stay in step: at every height the fee pool's total      *)
(* accum (TotalValAccum brought up to date with the last total power)      *)
(* equals the sum of the validators' accums (last power times the blocks   *)
(* since their FeePoolWithdrawalHeight).  This needs every power change to *)
(* be settled by TakeFeePoolRewards first, and implies that the panic      *)
(* "individual accum should never be greater than the total" never fires.  *)
AccumConserved ==
    TotalAccumNow = MapThenSumSet(GetValidatorAccum, Validators)

(* No fee is created or lost: everything allocated to the fee pool is in   *)
(* ValPool, the community pool (decimal change of withdrawals), a          *)
(* validator's DelPool or ValCommission, or was paid out as whole coins.   *)
RewardsConserved ==
    allocated = feePool.valPool + feePool.communityPool
                  + MapThenSumSet(LAMBDA v : vdi[v].delPool + vdi[v].valCommission, Validators)
                  + NewDecFromInt(MapThenSumSet(LAMBDA v : paid[v], Validators))

(* The query CurrentValidatorRewardsAll never divides a non-empty ValPool  *)
(* by a zero total accum, and returns exactly the coins that               *)
(* WithdrawValidatorRewardsAll would pay the operator in the same state.   *)
CurrentRewardsMatchWithdrawal ==
    /\ TotalAccumNow = 0 => feePool.valPool = 0
    /\ TotalAccumNow > 0 =>
          \A v \in Validators :
             CurrentValidatorRewardsAll(Dist, v)
                = WithdrawValidatorRewardsAll(Dist, v).paid[v] - paid[v]

(* Exporting for a zero-height genesis at any height passes its checks:    *)
(* after every validator and delegation has withdrawn, the fee pool holds  *)
(* no validator accum ("unexpected leftover validator accum") and no       *)
(* coins ("unexpected leftover validator pool coins").                     *)
ExportDrainsFeePool ==
    LET st == PrepForZeroHeightGenesis(Dist)
    IN  st.fp.totalValAccum.accum = 0 /\ st.fp.valPool = 0

=============================================================================
