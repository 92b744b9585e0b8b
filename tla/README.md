# TLA+ models of the npcchub state machine

This directory holds TLA+ specifications of the application-level state
machine in `src/` (a Cosmos-SDK-derived proof-of-stake chain). Each module
models one component from its Go source. MC modules and `.cfg` files
instantiate the modules for TLC. `PROJECT.json` lists:

- every component, and whether it is modelled;
- every TLC run, with its properties;
- the fault variant (mutant) behind each property;
- the source lines that each definition translates;
- the findings;
- the hazards the properties are aimed at.

## 1. The system

The chain applies ordered transactions within blocks. Each block ends with an
EndBlocker. Three subsystems interlock:

| part | source | state | operations |
|------|--------|-------|------------|
| Staking ledger | `modules/stake/keeper/delegation.go` | delegations `(del,val) -> shares`; unbonding delegations `(del,val) -> {creationHeight, minTime, balance, initialBalance}`; redelegations `(del,src,dst) -> {…, sharesSrc, sharesDst}`; two time-ordered queues `time -> [keys]` | `Delegate`, `unbond`, `getBeginInfo`, `BeginUnbonding`, `CompleteUnbonding`, `BeginRedelegation`, `CompleteRedelegation`, queue insert/dequeue |
| Stake pool | `modules/stake/types/pool.go` | bonded tokens; the bank's loose-token total | `loosenTokenToBonded`, `bondedTokenToLoosen` (panic on a non-integer amount) |
| Validator set / EndBlocker | not in `src/` (`val_state_change.go`); modelled from `spec.md` | validator status Bonded/Unbonding/Unbonded, tokens, shares, jailed, unbonding height/time | `ApplyAndReturnValidatorSetUpdates`, `UnbondAllMatureValidatorQueue`, draining the ubd/red queues |
| Slashing engine | `modules/slashing/keeper.go` | per validator: signing info `{StartHeight, IndexOffset, JailedUntil, MissedBlocksCounter}` and the missed-block bit array | `handleValidatorSignature` (sliding window, downtime jail and reset), `handleDoubleSign` (evidence age, jail), `handleProposerCensorship` |
| Distribution | `modules/distribution/keeper/validator.go`, `types/validator_info.go`, `types/fee_pool.go` | fee pool `{TotalValAccum, ValPool}`; per validator `{FeePoolWithdrawalHeight, DelAccum, DelPool, ValCommission}` | `TakeFeePoolRewards`, `WithdrawCommission`, `takeValidatorFeePoolRewards`, `WithdrawValidatorRewardsAll`, `CurrentPoolRewards` / `CurrentCommissionRewards` (read-only) |
| Fee authorisation | `modules/auth/feeauth.go`, `params.go` | account balances, collected fees, the `GasPriceThreshold` parameter | `feePreprocess` (gas limit and gas price checks), `NewFeeRefundHandler` (refund = fee·unused/wanted), `Params.Validate` of a threshold change |
| Bank messages | `modules/bank/msgs.go` | none of their own | `ValidateBasic` of `MsgSend`, `Input`/`Output` and `MsgBurn`; `GetSigners` |
| Zero-height export | `app/v0/export.go` | all of the above | `prepForZeroHeightGenesis`: withdraws everything, resets heights, panics on leftovers |

How the parts interact:

- A transaction runs in a cache context. Its writes are kept only when the
  handler returns no error. A failed handler is therefore a no-op, and every
  model action is the successful path of its handler, guarded by the
  handler's error checks.
- Staking hooks (`OnDelegationCreated`, `OnDelegationSharesModified`, …)
  settle distribution rewards before stake changes.
- Slashing reads validator status and calls stake `Slash` and `Jail`.
- At block end, stake recomputes the bonded set, moves pool tokens, matures
  validators and drains the two queues. Only then does the next block start.

Execution is single-threaded and deterministic. The "concurrency" that
matters is:

- the interleaving of transactions of different accounts between blocks;
- the order of the steps inside one handler;
- block time against the maturity times stored in entries.

These are what the models explore.

Why most of `src/` has no model. Of the about 8,300 non-test lines of
`src/`, about 4,800 are client, LCD, CLI, key-store, server-command and
simulation-helper code. That code formats requests, parses flags and writes
JSON; it holds no protocol state. The state machine proper (`modules/`,
`app/`) is about 3,000 lines, and the models cover about a third of it. The
rest of `modules/` is codecs, tags, error constructors, store getters and
iterators, and genesis copying. The central pieces of the spec that would
matter most are not in this tree at all: `keeper/slash.go`,
`types/validator.go`, `val_state_change.go`, the distribution hooks and the
bank keeper. They are modelled from `spec.md` where their behaviour is
determined by it. `Slash` is not modelled, because its rounding cannot be
recovered from `spec.md` or the tests (see section 4).

The parts that are not modelled are listed in `PROJECT.json` (components)
with the reason. They are:

- clients, CLI, LCD and keys;
- server commands;
- `MsgIssue` (registered in the codec, but no handler in this tree);
- the string and marshalling code of gov vote options;
- params subspaces;
- guardian/upgrade genesis;
- the transient store.

What is left of `modules/` and `app/` cannot be modelled faithfully from this
tree:

- **Validator removal in distribution.** `RemoveValidatorDistInfo`
  (`keeper/validator.go:37-50`) panics on a positive `DelAccum` or a non-zero
  `ValCommission`. Only the hook `onValidatorRemoved` calls it, and the hook
  is not in the tree. `spec.md` does not say whether the hook withdraws the
  commission first, so whether the panic can fire cannot be decided without
  inventing that code.
- **The stake and slashing part of `prepForZeroHeightGenesis`**
  (`app/v0/export.go:129-185`). It sets creation, bond and unbonding heights,
  slashing periods and signing-info `StartHeight` to 0. What these zeros
  mean depends on the genesis import of the restarted chain and on `Slash`,
  and neither is in the tree. The fee-distribution part is modelled.
- **Gov vote and deposit types** (`gov/depositsvotes.go`). These are value
  types with string and JSON conversions, and this tree has no gov keeper or
  handler that stores them. As read from the code: the JSON form of
  `OptionEmpty` is `""`, which `VoteOptionFromString` rejects; `UnmarshalJSON`
  returns nil on malformed JSON and leaves the option unchanged; `Unmarshal`
  of empty bytes indexes out of range. A unit test reaches each of these
  directly, so a model checker adds nothing.
- **Params keeper, subspaces and transient store.** These are wiring: maps
  from names to subspaces, and a store that `Commit` replaces with an empty
  one. No handler of the tree reads a parameter through them, except the auth
  `GasPriceThreshold`, which `TxFees` models as a variable.
- **Larger instances.** FeeDistribution at `MaxHeight = 5` has 217,307
  distinct states, against 36,912 at 4. StakeLedger with the liveness
  property checked under the safety configuration (`MaxTime = 6`) does not
  finish within five minutes. The bounds in section 3 are the largest for
  which every run, with its mutants, finishes.

## 2. Modules

### StakeLedger (`StakeLedger.tla`, `MC_StakeLedger.tla`)

**State.** The state is:

- `validator`: a record per validator, or `NoRecord` once deleted;
- `delegation`: shares, where 0 means absent;
- `ubd` and `red`: a record, or `NoRecord`;
- `ubdByValIndex`, `redByValSrcIndex` and `redByValDstIndex`: the keys of the
  store's secondary indexes. `SetUnbondingDelegation`, `SetRedelegation` and
  the two `Remove…` functions write them beside the record.
  `HasReceivingRedelegation` reads the destination index, as the code's
  prefix scan does;
- `ubdQueue` and `redQueue`: functions from block time to sequences of keys,
  like the store's timeslices;
- `bondedTokens`, `looseTokens` and account `balance`;
- `height` and `now`. These are kept apart, because entries store both.

`lastBonded` is a history variable. It holds the last block time at which a
validator was Bonded, and is used only by the unbonding-period property.

**Sequential calls.** A handler calls several keeper functions in a row. The
model follows the same order through pure operators over a record `Stake`:

- `Delegate`, `Unbond` and `getBeginInfo` take the state that the previous
  call produced.
- So `BeginUnbonding` (before H001) reads `getBeginInfo` *before* `Unbond`,
  while `BeginRedelegation` reads it *after* `Unbond` and `Delegate`, as the
  code does.

**Actions.**

- `DelegateTx`: `handleMsgDelegate` → `Delegate` with `subtractAccount`.
- `BeginUnbonding(d, v, shares)`: both branches of
  `version.H001_UNDELEGATE_PATCH`.
- `BeginRedelegation(d, src, dst, shares)`.
- `NextBlock`: the stake EndBlocker, in this order:
  1. the validator-set update;
  2. mature Unbonding validators become Unbonded, or are deleted if they have
     no shares;
  3. `DequeueAllMatureUnbondingQueue` + `CompleteUnbonding` for each key,
     skipping errors;
  4. `DequeueAllMatureRedelegationQueue` + `CompleteRedelegation`, which keeps
     an entry that is not yet mature;
  5. the next block starts, at a time `now + step` with `step ∈ TimeSteps`.

**Data abstraction.**

- Amounts are whole numbers. The exchange rate stays 1 without slashing, so
  the decimal arithmetic is exact.
- `Amounts` bounds the sizes of delegations.
- Ties in the power index are left nondeterministic. The code orders by
  power and address, and the model lets TLC choose any order.

**Not in this tree** (modelled from `spec.md`, marked `spec_modelled` in the
map):

- the validator type's share arithmetic;
- `AddValidatorTokensAndShares` and `RemoveValidatorTokensAndShares`;
- `ApplyAndReturnValidatorSetUpdates` and `UnbondAllMatureValidatorQueue`;
- the message handler and the EndBlocker.

**Bounds.** Transactions are accepted only while
`now + UnbondingTime + MaxStep - 1 <= MaxTime`, so every entry can mature
before the last block. Once `now > MaxTime` no more blocks start, and the
model stutters (`Halted`).

**Refinement** (`StakeAccounts.tla`). `StakeAccounts` is the ledger as a
delegator sees it: liquid coins, stake bonded to a validator, and unbonding
stake with a release time. Stake moves only in four ways:

- delegate;
- redelegate;
- undelegate, either at once or into an entry released at most one unbonding
  period from now;
- at the end of a block, every entry whose release time has come is paid, and
  no other.

`StakeLedger` maps its state onto it (`Accounts == INSTANCE StakeAccounts
WITH ...`):

- `liquid` is the bank balance;
- `bonded` is the delegation's shares (one token per share without slashing);
- `unbonding` is the unbonding delegation's balance and MinTime.

`ImplementsStakeAccounts` is checked as a temporal property.

### SlashingWindow (`SlashingWindow.tla`, `MC_SlashingWindow.tla`)

**State.**

- Per validator: status, jailed and unbonding time. Only the part of stake
  that the handlers read is kept.
- `signInfo`: `{StartHeight, IndexOffset, JailedUntil, MissedBlocksCounter}`.
- `missedBits`: the bit array.
- `setHist`: the validator set in force at each height.
- `phase`: the step within the block, one of BeginBlock, evidence, then
  transactions and EndBlock.
- `slashLog`: the `Slash` calls (kind and distribution height).

`sigSinceReset` and `sigSinceRejoin` are history variables, and hold the last
`SignedBlocksWindow` signatures.

**Validator-set pipeline.** This is Tendermint's behaviour, from `spec.md`:

- The set chosen by EndBlock(H) signs from block H+2 on.
- So the LastCommit handled in BeginBlock(H) is the set of block H−1.
- A validator jailed at H therefore still appears in two more LastCommits.

**Actions.**

- `BeginBlock`: `handleValidatorSignature` for every member of the
  LastCommit, with the signers chosen nondeterministically. This covers the
  ring index, the counter update, the downtime jail with its reset, and the
  distribution height `height − ValidatorUpdateDelay − 1`.
- `handleDoubleSign(v, h)` and `handleProposerCensorship(v, h)`: evidence for
  a block in `EvidenceHeights`, including the age limit, the Unbonded no-op
  and the unconditional `JailedUntil` overwrite.
- `Unjail(v)`: `handleMsgUnjail`, from `spec.md`. It requires being jailed
  and `JailedUntil <= now`.
- `EndBlock`: the new set is the unjailed validators. Statuses move through
  Bonded, Unbonding and Unbonded, then time advances.

No fairness is assumed: the runs check safety only.

### FeeDistribution (`FeeDistribution.tla`, `MC_FeeDistribution.tla`)

**State.**

- The fee pool: `{TotalValAccum {UpdateHeight, Accum}, ValPool,
  CommunityPool}`.
- Per validator, the `ValidatorDistInfo`: `{FeePoolWithdrawalHeight, DelPool,
  ValCommission}`.
- The last validator powers and the last total power, which are what
  `GetWithdrawContext` reads.
- Whether the operator's self-delegation exists.
- The whole coins paid to each operator.
- `allocated`: a history variable holding the fees ever allocated.

**Data abstraction.**

- `sdk.Dec` is an integer in units of 1/`Scale`, with `chopPrecisionAndRound`
  (half to even) in `MulDec` and `QuoDec`. The rounding of every withdrawal
  and commission therefore happens as in the code.
- A `DecCoins` of one denomination is one Dec.

**Calls.** The calls of one handler are threaded through a record, as in
StakeLedger:

- `TakeFeePoolRewards`, `WithdrawCommission` and `Current*` are translated
  from `validator_info.go`.
- `takeValidatorFeePoolRewards`, `WithdrawValidatorRewardsAll`,
  `withdrawValidatorCommission` and `CurrentValidatorRewardsAll` are
  translated from `keeper/validator.go`. This includes both branches of the
  self-delegation test, and the fee pool that is saved only by
  `WithdrawToDelegator`.
- `PrepForZeroHeightGenesis` is the fee-distribution part of
  `app/v0/export.go`. It is an operator evaluated in every reachable state:
  an export may be requested at any height.

**Not in this tree** (from `spec.md`):

- `TotalAccum`;
- `GetWithdrawContext`, `WithdrawToDelegator` and `withdrawDelegationReward`;
- the hooks;
- `AllocateTokens`.

Each validator has exactly one delegation, its operator's, so the
delegator's share of `DelPool` is all of it.

**Actions.**

- `WithdrawValidatorRewardsAllTx(v)`.
- `DelegateTx(v)`: the `OnDelegationCreated` hook settles the validator
  first.
- `UndelegateTx(v)`: the hook settles the validator and withdraws the
  delegation's rewards.
- `NextBlock`: the set update calls `OnValidatorPowerDidChange` on every
  validator whose power changes, before the new last powers are stored. Then
  the next block's BeginBlock allocates the fees to `ValPool`.
  Tendermint refuses an empty validator set, so a block needs a positive
  total power.

### TxFees (`TxFees.tla`, `MC_TxFees.tla`)

This module follows one transaction from its messages to the refund, in the
order of baseapp's `runTx`:

1. the messages' `ValidateBasic`;
2. the fee preprocess handler;
3. the ante handler, which deducts the whole fee from the first signer into
   the collected fees and records the signers' accounts in the context;
4. the messages, in a cache context that is discarded when they fail or run
   out of gas;
5. the fee refund handler.

**State.**

- Account balances.
- The collected fees, the fees handed to distribution, and the burned total.
- The `GasPriceThreshold` parameter.
- `result`: what the last transaction paid and why. It is a history
  variable for the properties.

**Data abstraction.**

- Coins are of the native denomination only, which is what
  `getNativeFeeToken` selects. A `Coins` value is therefore its amount.
- Gas is a `uint64` of `GasBits` bits. `ToUint` wraps the subtraction in the
  refund, and `Int64` reinterprets the top bit, as the two `int64(...)`
  conversions of the code do.
- `sdk.Int` division truncates toward zero (`IntQuo`).

**Translated from `src/`.**

- `feePreprocess`: a zero limit, or one that is negative as an int64, is
  `ErrInvalidGas`. A gas price `fee div limit` below the threshold is
  `ErrGasPriceTooLow`.
- `NewFeeRefundHandler`:
  - no signers (the ante handler failed) charges nothing;
  - `GasWanted <= GasUsed` returns early and keeps the whole fee;
  - otherwise the refund is `fee * int64(unused) / int64(wanted)`. The coins
    are re-read from the store, but the account object captured by the ante
    handler is what gets written back.
- `Params.Validate` for the threshold key, as the guard of a parameter
  change.
- `ValidateBasic` of `MsgSend` (with `Input`/`Output`) and `MsgBurn`.
- `GetSigners`.

**Not in this tree** (from `spec.md`, marked `spec_modelled`):

- the ante handler's deduction;
- the bank keeper's `InputOutputCoins` and burn;
- the out-of-gas check of the message run.

**Actions.**

- `RejectTx(m, fee, gas)`: a check before the ante handler fails. The refund
  handler then sees no signers.
- `DeliverTx(m, fee, gas)`: a transaction passes the checks. The gas used by
  its message ranges over `0..MaxGasUsed`, which is beyond the limit for
  small limits.
- `AllocateFees`: the next BeginBlock hands the collected fees to
  distribution.
- `ChangeThreshold(v)`: a parameter change that passes `Validate`.

## 3. Runs

| run | cfg | expect | what it shows |
|-----|-----|--------|---------------|
| stake_safety | `MC_StakeLedger.cfg` | pass | 2 validators, 1 bonded seat, 3 accounts, UnbondingTime 2, block-time steps 1 or 2, MaxTime 6, H001 = 4 (both branches of the patch occur): 180k distinct states; also checks the refinement of `StakeAccounts` |
| stake_liveness | `MC_StakeLedger_live.cfg` | pass | same with MaxTime 4, under weak fairness of `NextBlock` |
| stake_redelegation_chain | `MC_StakeLedger_chain.cfg` | violation | 3 validators, 2 bonded seats: a chain x→y→z of pending redelegations |
| stake_redelegation_from_unbonded | `MC_StakeLedger_redunbonded.cfg` | violation | pre-patch: a redelegation from an Unbonded validator is queued |
| slashing_window | `MC_SlashingWindow.cfg` | pass | 2 validators over 14 blocks, window 3, MinSigned 2, time step 1, symmetry: 550k states |
| slashing_evidence | `MC_SlashingWindow_evidence.cfg` | pass | the same over 8 blocks with double-sign and censorship evidence for block 3: 1.7M states |
| slashing_rebond | `MC_SlashingWindow_rebond.cfg` | violation | a validator jailed for downtime, unjailed and rebonded is jailed again at its first miss |
| slashing_cooldown | `MC_SlashingWindow_cooldown.cfg` | violation | censorship evidence after double-sign evidence shortens the double-sign jail |
| distribution | `MC_FeeDistribution.cfg` | pass | 2 validators with power 1 or 2, fees of 0 or 1 coin, Scale 10, commission 0.3, 4 blocks: 37k states |
| stake_unbonding_from_unbonded | `MC_StakeLedger_ubdunbonded.cfg` | violation | post-patch: an undelegation from an Unbonded validator is queued |
| slashing_unbonded | `MC_SlashingWindow_unbonded.cfg` | violation | a validator jailed for downtime reaches Unbonded two blocks later; double-sign evidence for a block it signed, still within `MaxEvidenceAge`, is then ignored |
| tx_fees | `MC_TxFees.cfg` | pass | 2 accounts (4 and 3 coins), 11 messages (valid and invalid sends and burns), fees 0 or 3, gas limits 0, 1, 2 and 9 (9 is negative as a 4-bit int64), gas used 0..3, threshold 1 changeable to 2: 27k states |

Properties of `stake_safety`:

- `PoolAccounting`:
  - the bonded pool equals the tokens of the Bonded validators;
  - the loose total equals the account balances + the tokens of non-bonded
    validators + the pending unbonding balances.

  Every step that moves tokens must move the pool with them, including the
  status changes in the set update.
- `SharesBackedByDelegations`: a validator's DelegatorShares equal the sum of
  its delegations, and a deleted validator has no delegations left.
- `QueueIndexConsistent`: each pending entry occurs exactly once in its queue,
  in its MinTime slice, and each queued key names such an entry. This is
  where the iterator's inclusive end and `MinTime.After(now)` must agree.
- `SelfBondOrJailed`: an unjailed validator still has its operator's
  self-delegation.
- `IndexesMatchRecords`: reading a validator's unbonding delegations or
  outgoing redelegations through the index (as `Slash` and the querier do)
  yields exactly its pending records, never a key whose record is gone. The
  destination-index scan of `HasReceivingRedelegation` sees exactly the
  pending redelegations. A leftover index key would block redelegations for
  good, or make `MustUnmarshalRED` panic on a nil value.
- `StakeReleasedAfterUnbondingPeriod` (action property): shares leave a
  validator only into a new entry maturing no earlier than the validator's
  release time, or directly once that time has passed. The release time is
  now + UnbondingTime while the validator is Bonded, and otherwise the last
  bonded time + UnbondingTime. This is the guarantee behind `getBeginInfo`.

`stake_liveness` checks `EntriesEventuallyComplete`: every entry is
eventually completed once transactions stop.

`stake_safety` also checks `ImplementsStakeAccounts`. This is the refinement
of section 2.

Properties of `slashing_window` and `slashing_evidence`:

- `TypeOK` (in `slashing_window` only; the evidence run adds nothing to it).

- `WindowMatchesHistory`: `IndexOffset` counts the signatures since the last
  reset. `MissedBlocksCounter` is the number of misses among the last
  `SignedBlocksWindow` of them. The bit at each ring index is set exactly
  when the signature at that offset was missed. This holds across
  wrap-around, the reset on a downtime jail, unjail and rebonding.
- `JailedUntilRespected`: a validator that is not jailed has `JailedUntil <=
  now`. Unjail checks it, and evidence and downtime jails interleave with
  Unjail in the same block.

Properties of `distribution`:

- `AccumConserved`: at every height, the total accum brought up to date with
  the last total power equals the sum of the validators' accums, each read
  as the query `GetValidatorAccum` (`keeper/validator.go:52-66`) reads it. This needs
  every power change to be settled first. It implies that the panic
  "individual accum should never be greater than the total" never fires.
- `RewardsConserved`: the fees allocated equal ValPool + community pool +
  every DelPool and ValCommission + the coins paid out. Rounding neither
  creates nor loses fees.
- `CurrentRewardsMatchWithdrawal`:
  - the reward query `CurrentValidatorRewardsAll` returns exactly what
    `WithdrawValidatorRewardsAll` would pay in the same state;
  - the query never divides a non-empty ValPool by a zero accum (unlike
    `TakeFeePoolRewards`, it has no zero check).
- `ExportDrainsFeePool`: exporting for a zero-height genesis at any reachable
  height leaves no validator accum and no pool coins. Either leftover would
  trip the two panics of `prepForZeroHeightGenesis`.

Properties of `tx_fees`:

- `SupplyConserved`: account balances, collected, distributed and burned
  coins always add up to the initial supply. The refund handler writes back
  the account object that the ante handler captured. It must add the refund
  to the coins as they are after the message ran, not to the captured ones.
- `RefundBounded`: a transaction whose message ran (or ran out of gas) is
  charged at most its fee, and at least the fee's share of the gas it used.
  This must hold across the early return for `GasWanted <= GasUsed`, the
  uint64 subtraction and the truncating division.
- `GasPriceFloor`: such a transaction paid at least the threshold in force
  when it was checked, for every unit of gas it used up to its limit. The
  floor survives the two truncating divisions (`fee div limit` in
  `feePreprocess`, and the refund).
- `NoFreeGas`: a transaction whose message used gas paid something. This
  rests on `Validate` refusing a zero threshold.

**Fairness.** `WF_vars(NextBlock)`: blocks keep being produced. Transactions
get no fairness, since users need not send any.

**Why the bounds are enough.**

- One bonded seat with two validators gives Bonded, Unbonding and Unbonded
  validators within three blocks.
- A time step of 2 skips a timeslice, which exercises the inclusive dequeue.
- H001 = 4 puts transactions on both sides of the patch.
- The operators' self-bonds are the only stake of their validators, so
  operator undelegation jails them and can delete them.

**Findings** (details in `PROJECT.json`):

1. The transitive-redelegation check looks at the *source's* incoming
   redelegations, while `spec.md` forbids redelegating *into* a validator
   with outgoing ones.
2. `BeginRedelegation` calls `getBeginInfo` after `unbond` has deleted an
   emptied Unbonded source. It then sees "not found", treats the source as
   Bonded, and queues an entry.
3. From the H001 patch on, `BeginUnbonding` always queues an entry.
4. (slashing_rebond) The downtime reset happens at jail time. But the
   jailed validator stays in the LastCommit for `ValidatorUpdateDelay + 1`
   more blocks, and its misses there fill the fresh window. After unjail,
   the first miss jails it again, whereas `spec.md` says the reset prevents
   immediate re-punishment.
5. (slashing_cooldown) `handleProposerCensorship` overwrites `JailedUntil`
   with `now + CensorshipJailDuration`. This shortens an earlier, longer
   double-sign jail.
6. (slashing_unbonded) `handleDoubleSign` returns early for an Unbonded
   validator, before the evidence-age test. Unbonding ends by block time,
   but evidence age is counted in heights. So evidence that `spec.md` says
   must be acted on (age within the maximum) is dropped, and the stake that
   left the validator after the infraction is never slashed. The code's
   comment gives the reason: the pubkey may already be deleted.

**Bounds of the other modules.**

- SlashingWindow:
  - window 3 and MinSigned 2 give a downtime jail after 2 misses;
  - 14 blocks allow a jail, unjail and rebonding, and a second window;
  - evidence is limited to one infraction height, to keep evidence × downtime
    interleavings within 5 minutes;
  - slashing_unbonded allows evidence for blocks 3 to 5 over 9 blocks, so
    that a downtime jail (possible from block 4) and two block-time units of
    unbonding fit within `MaxEvidenceAge` 2.
- TxFees:
  - 4-bit gas makes 9 a limit that is negative as an int64;
  - limits 1 and 2, with gas used up to 3, give all three cases: gas used
    below, equal to and above the limit;
  - a fee of 3 over a limit of 2 makes both divisions truncate;
  - balances of 4 and 3 let a second fee fail for insufficient funds;
  - threshold 2 makes a fee of 3 too low for a limit of 2, while 0 and 4
    (above `MaximumGasPrice` 3) are refused by `Validate`.
- FeeDistribution:
  - powers 1 and 2 make accums unequal;
  - Scale 10 with rate 0.3 makes every division and commission round;
  - 4 blocks allow a power change, a withdrawal and a re-delegation within
    one block and across blocks.

## 4. Plan

Order, each step with its own runs and mutants:

1. **StakeLedger**: done, as above.
2. **SlashingWindow** (done): `handleValidatorSignature` over a small window
   (SignedBlocksWindow 3–4, MinSignedPerWindow), with signed/missed as input.
   Properties:
   - `MissedBlocksCounter` equals the number of set bits;
   - no downtime jail before `StartHeight + window`;
   - after a jail the window is empty.

   Then `handleDoubleSign` and `handleProposerCensorship`, for the evidence
   age and the `JailedUntil` overwrite (a later, shorter jail shortening an
   earlier one).
3. **FeeDistribution** (done, with the export part of 7): `TakeFeePoolRewards`, `WithdrawCommission`, the lazy
   `TotalValAccum` (`UpdateForNewHeight`, from `spec.md`), and
   `takeValidatorFeePoolRewards` over 2 validators with changing power.
   Properties:
   - the accum of each validator never exceeds the total (the panic);
   - ValPool + DelPools + commissions + withdrawn are conserved;
   - `CurrentPoolRewards` equals the next withdrawal.

   The Current* projections are checked against the mutating path as a
   reference definition.
4. **FeeRefund** (done as `TxFees`): `feePreprocess` and the refund
   arithmetic with int64 wrap-around, inside the transaction pipeline with
   the bank messages.
5. **StakeSlash** (not modelled): `keeper/slash.go` and `types/validator.go`
   are not in this tree. Whether the pool panic on non-integer tokens
   (`types/pool.go:40`) can fire depends on how `Slash` rounds the amount it
   burns from a validator's `Dec` tokens. `spec.md` does not say, and
   `slash_test.go` uses whole-number balances only, so a model would have to
   invent the answer to the question it is meant to check. The evidence
   side is modelled instead, in SlashingWindow.
6. **Composition**: slashing evidence driving StakeSlash, and distribution
   hooks on delegation changes. An abstract spec of the staking ledger
   (accounts hold liquid, bonded and unbonding amounts, and tokens only move
   between them) is refined by StakeLedger through INSTANCE … WITH (done:
   `StakeAccounts`). Slashing evidence driving StakeSlash is not modelled,
   because StakeSlash is not (step 5). The distribution hooks are modelled
   inside FeeDistribution, where `DelegateTx`, `UndelegateTx` and
   `NextBlock` settle the validator before its power or delegation changes.
7. **ZeroHeightExport**: the fee-distribution part of
   `prepForZeroHeightGenesis` is done in FeeDistribution
   (`ExportDrainsFeePool`). The stake and slashing resets are not modelled,
   for the reason in section 1.
