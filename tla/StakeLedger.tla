----------------------------- MODULE StakeLedger -----------------------------
(***************************************************************************)
(* The staking ledger of modules/stake: validators, delegations, unbonding *)
(* delegations, redelegations, their maturity queues and the bonded/loose  *)
(* token pool (modules/stake/keeper/delegation.go, types/pool.go).         *)
(*                                                                         *)
(* A transaction runs in a cache context that is written back only when    *)
(* the handler succeeds, so a handler that returns an error leaves the     *)
(* state as it was: every action below is the successful run of its       *)
(* handler and its guard collects the handler's error returns.             *)
(*                                                                         *)
(* sdk.Dec token and share amounts are whole numbers here: without         *)
(* slashing the share exchange rate stays 1 and every quotient is exact.   *)
(***************************************************************************)
EXTENDS Integers, Sequences, SequencesExt, FiniteSets, FiniteSetsExt

CONSTANTS
    Validators,     \* operator addresses of the validators created at genesis
    Delegators,     \* account addresses
    Operator,       \* Operator[v]: the account address of v's operator
    SelfBond,       \* tokens each operator self-bonded at genesis
    InitCoins,      \* InitCoins[d]: bond-denom coins of account d at genesis
    Amounts,        \* amounts a MsgDelegate may carry
    MaxValidators,  \* stake parameter MaxValidators: size of the bonded set
    UnbondingTime,  \* stake parameter UnbondingTime, in block-time units
    H001,           \* version.H001_UNDELEGATE_PATCH: height of the undelegate patch
    TimeSteps,      \* block-time increments between two blocks
    MaxTime,        \* bound: no block starts after this block time
    NoRecord        \* model value: absent store entry

ASSUME /\ Operator \in [Validators -> Delegators]
       /\ \A v, w \in Validators : v # w => Operator[v] # Operator[w]
       /\ SelfBond \in Nat \ {0}
       /\ InitCoins \in [Delegators -> Nat]
       /\ Amounts \subseteq Nat \ {0}
       /\ MaxValidators \in Nat \ {0}
       /\ UnbondingTime \in Nat \ {0}
       /\ TimeSteps \subseteq Nat \ {0} /\ TimeSteps # {}

VARIABLES
    height,        \* ctx.BlockHeight()
    now,           \* ctx.BlockHeader().Time
    balance,       \* bank coins of each account
    validator,     \* store ValidatorsKey: operator address -> Validator
    delegation,    \* store DelegationKey: <<del, val>> -> shares (0 = absent)
    ubd,           \* store UnbondingDelegationKey: <<del, val>> -> record
    red,           \* store RedelegationKey: <<del, src, dst>> -> record
    ubdQueue,      \* UnbondingQueueKey: completion time -> DVPair timeslice
    redQueue,      \* RedelegationQueueKey: completion time -> DVVTriplet timeslice
    bondedTokens,  \* Pool.BondedPool.BondedTokens
    looseTokens,   \* bank loosen-token total of the stake denom
    lastBonded,    \* history: last block time at which each validator was Bonded
    ubdByValIndex,    \* UnbondingDelegationByValIndexKey entries: <<del, val>>
    redByValSrcIndex, \* RedelegationByValSrcIndexKey entries: <<del, src, dst>>
    redByValDstIndex  \* RedelegationByValDstIndexKey entries: <<del, src, dst>>

vars == <<height, now, balance, validator, delegation, ubd, red, ubdQueue,
          redQueue, bondedTokens, looseTokens, lastBonded, ubdByValIndex,
          redByValSrcIndex, redByValDstIndex>>

Bonded == "Bonded"
Unbonding == "Unbonding"
Unbonded == "Unbonded"

DV == Delegators \X Validators
DVV == {t \in Delegators \X Validators \X Validators : t[2] # t[3]}
Times == 0..(MaxTime + UnbondingTime)
MaxStep == Max(TimeSteps)
TotalSupply == SumFunction(InitCoins) + Cardinality(Validators) * SelfBond

ValidatorRecords ==
    [status: {Bonded, Unbonding, Unbonded}, tokens: Nat, shares: Nat,
     jailed: BOOLEAN, unbondingHeight: Nat, unbondingMinTime: Times]
UbdRecords ==
    [creationHeight: Nat, minTime: Times, balance: Nat, initialBalance: Nat]
RedRecords ==
    [creationHeight: Nat, minTime: Times, sharesSrc: Nat, sharesDst: Nat,
     balance: Nat, initialBalance: Nat]

(***************************************************************************)
(* The part of the state that Delegate and unbond read and write, threaded *)
(* through the calls a handler makes one after the other.                  *)
(***************************************************************************)
Stake == [validator |-> validator, delegation |-> delegation,
          balance |-> balance, bonded |-> bondedTokens, loose |-> looseTokens]

SetStake(st) ==
    /\ validator' = st.validator
    /\ delegation' = st.delegation
    /\ balance' = st.balance
    /\ bondedTokens' = st.bonded
    /\ looseTokens' = st.loose

-----------------------------------------------------------------------------
(* types/pool.go                                                           *)

loosenTokenToBonded(st, amt) ==
    [st EXCEPT !.bonded = @ + amt, !.loose = @ - amt]

(* Fault variant: the bonded total not decreased.                         *)
bondedTokenToLoosenNoDecrease(st, amt) == [st EXCEPT !.loose = @ + amt]

bondedTokenToLoosen(st, amt) ==
    [st EXCEPT !.bonded = @ - amt, !.loose = @ + amt]

(* types/validator.go (not in this tree): exchange rate, shares issued for *)
(* tokens, tokens released for shares, and the pool move when Bonded.      *)

ExRateIsZero(val) == val.shares > 0 /\ val.tokens = 0

IssuedShares(val, amt) ==
    IF val.shares = 0 THEN amt ELSE (amt * val.shares) \div val.tokens

AddValidatorTokensAndShares(st, v, amt) ==
    LET val == st.validator[v]
        st1 == [st EXCEPT !.validator[v].tokens = @ + amt,
                          !.validator[v].shares = @ + IssuedShares(val, amt)]
    IN  IF val.status = Bonded THEN loosenTokenToBonded(st1, amt) ELSE st1

RemovedTokens(val, sh) == (sh * val.tokens) \div val.shares

RemoveValidatorTokensAndShares(st, v, sh) ==
    LET val == st.validator[v]
        amt == RemovedTokens(val, sh)
        st1 == [st EXCEPT !.validator[v].tokens = @ - amt,
                          !.validator[v].shares = @ - sh]
    IN  IF val.status = Bonded THEN bondedTokenToLoosen(st1, amt) ELSE st1

-----------------------------------------------------------------------------
(* keeper/delegation.go                                                    *)

(* Delegate: fails when the exchange rate is zero or the account cannot   *)
(* pay; otherwise moves the tokens into the validator and adds the issued *)
(* shares to the (possibly new) delegation.                                *)
DelegateOk(st, d, amt, v, subtractAccount) ==
    /\ ~ExRateIsZero(st.validator[v])
    /\ subtractAccount => st.balance[d] >= amt

Delegate(st, d, amt, v, subtractAccount) ==
    LET paid == IF subtractAccount THEN [st EXCEPT !.balance[d] = @ - amt]
                                   ELSE st
        st1  == AddValidatorTokensAndShares(paid, v, amt)
    IN  [st1 EXCEPT !.delegation[d, v] =
                        @ + IssuedShares(st.validator[v], amt)]

(* unbond: fails without a delegation, with too few shares or without the *)
(* validator. The operator removing its last share jails its validator;   *)
(* an Unbonded validator left without shares is deleted.                   *)
(* Fault variant: the share-sufficiency check of unbond dropped.          *)
UnbondOkNoShareCheck(st, d, v, sh) ==
    /\ st.delegation[d, v] > 0
    /\ st.validator[v] # NoRecord

UnbondOk(st, d, v, sh) ==
    /\ st.delegation[d, v] > 0
    /\ sh <= st.delegation[d, v]
    /\ st.validator[v] # NoRecord

UnbondAmount(st, v, sh) == RemovedTokens(st.validator[v], sh)

(* Fault variants of unbond: the validator deleted when the delegation    *)
(* (not the validator) runs out of shares; the operator's validator       *)
(* jailed only while Bonded.                                               *)
UnbondDeleteOnEmptyDelegation(st, d, v, sh) ==
    LET left == st.delegation[d, v] - sh
        jail == left = 0 /\ d = Operator[v] /\ ~st.validator[v].jailed
        st1  == [st EXCEPT !.delegation[d, v] = left,
                           !.validator[v].jailed = @ \/ jail]
        st2  == RemoveValidatorTokensAndShares(st1, v, sh)
    IN  IF left = 0 /\ st2.validator[v].status = Unbonded
        THEN [st2 EXCEPT !.validator[v] = NoRecord]
        ELSE st2

UnbondJailOnlyBonded(st, d, v, sh) ==
    LET left == st.delegation[d, v] - sh
        jail == left = 0 /\ d = Operator[v] /\ ~st.validator[v].jailed
                /\ st.validator[v].status = Bonded
        st1  == [st EXCEPT !.delegation[d, v] = left,
                           !.validator[v].jailed = @ \/ jail]
        st2  == RemoveValidatorTokensAndShares(st1, v, sh)
        val  == st2.validator[v]
    IN  IF val.shares = 0 /\ val.status = Unbonded
        THEN [st2 EXCEPT !.validator[v] = NoRecord]
        ELSE st2

Unbond(st, d, v, sh) ==
    LET left == st.delegation[d, v] - sh
        jail == left = 0 /\ d = Operator[v] /\ ~st.validator[v].jailed
        st1  == [st EXCEPT !.delegation[d, v] = left,
                           !.validator[v].jailed = @ \/ jail]
        st2  == RemoveValidatorTokensAndShares(st1, v, sh)
        val  == st2.validator[v]
    IN  IF val.shares = 0 /\ val.status = Unbonded
        THEN [st2 EXCEPT !.validator[v] = NoRecord]
        ELSE st2

(* getBeginInfo: completion time and creation height of a new entry.      *)
(* Fault variant: an Unbonding validator treated like an Unbonded one.     *)
getBeginInfoUnbondingNow(st, v) ==
    LET val == st.validator[v]
    IN  IF val = NoRecord \/ val.status = Bonded
        THEN [minTime |-> now + UnbondingTime, height |-> height,
              completeNow |-> FALSE]
        ELSE [minTime |-> 0, height |-> 0, completeNow |-> TRUE]

getBeginInfo(st, v) ==
    LET val == st.validator[v]
    IN  IF val = NoRecord \/ val.status = Bonded
        THEN [minTime |-> now + UnbondingTime, height |-> height,
              completeNow |-> FALSE]
        ELSE IF val.status = Unbonded
             THEN [minTime |-> 0, height |-> 0, completeNow |-> TRUE]
             ELSE [minTime |-> val.unbondingMinTime,
                   height |-> val.unbondingHeight, completeNow |-> FALSE]

InsertQueue(q, t, key) == [q EXCEPT ![t] = Append(@, key)]

(* All timeslices up to time t, oldest first, and the queue without them. *)
(* Fault variant: the iterator end taken as exclusive.                    *)
MatureEntriesExclusive(q, t) == FlattenSeq([i \in 1..t |-> q[i - 1]])

MatureEntries(q, t) == FlattenSeq([i \in 1..(t + 1) |-> q[i - 1]])
DequeueAllMature(q, t) == [i \in DOMAIN q |-> IF i <= t THEN <<>> ELSE q[i]]

(* The unbonding-delegation and redelegation stores: each record is      *)
(* written under its primary key together with its index keys, in        *)
(* separate store writes of the same handler.                             *)
Ubds == [ubd |-> ubd, idx |-> ubdByValIndex]
Reds == [red |-> red, src |-> redByValSrcIndex, dst |-> redByValDstIndex]

SetUbds(u) == ubd' = u.ubd /\ ubdByValIndex' = u.idx
SetReds(r) ==
    /\ red' = r.red
    /\ redByValSrcIndex' = r.src
    /\ redByValDstIndex' = r.dst

SetUnbondingDelegation(u, key, rec) ==
    [u EXCEPT !.ubd[key] = rec, !.idx = @ \cup {key}]

RemoveUnbondingDelegation(u, key) ==
    [u EXCEPT !.ubd[key] = NoRecord, !.idx = @ \ {key}]

SetRedelegation(r, key, rec) ==
    [r EXCEPT !.red[key] = rec, !.src = @ \cup {key}, !.dst = @ \cup {key}]

(* Fault variant: the destination index entry left behind.               *)
RemoveRedelegationKeepDst(r, key) ==
    [r EXCEPT !.red[key] = NoRecord, !.src = @ \ {key}]

RemoveRedelegation(r, key) ==
    [r EXCEPT !.red[key] = NoRecord, !.src = @ \ {key}, !.dst = @ \ {key}]

(* Reads through an index: every index key of the validator, with the    *)
(* record stored under its primary key (NoRecord where MustUnmarshalUBD / *)
(* MustUnmarshalRED would be handed a nil value and panic).               *)
GetUnbondingDelegationsFromValidator(v) ==
    [k \in {k \in ubdByValIndex : k[2] = v} |-> ubd[k]]

GetRedelegationsFromValidator(v) ==
    [k \in {k \in redByValSrcIndex : k[2] = v} |-> red[k]]

(* Prefix scan of the destination index for (delegator, dst).             *)
HasReceivingRedelegation(d, v) ==
    \E k \in redByValDstIndex : k[1] = d /\ k[3] = v

(* CompleteUnbonding: pays the balance and removes the entry; without an  *)
(* entry it returns an error and the caller moves on.                      *)
CompleteUnbonding(acc, key) ==
    IF acc.ubds.ubd[key] = NoRecord THEN acc
    ELSE [balance |-> [acc.balance EXCEPT ![key[1]] = @ + acc.ubds.ubd[key].balance],
          ubds    |-> RemoveUnbondingDelegation(acc.ubds, key)]

(* CompleteRedelegation: removes a matured entry; a missing or immature   *)
(* one is an error and stays.                                              *)
(* Fault variant: an entry maturing exactly now is kept as immature.       *)
CompleteRedelegationStrict(reds, key) ==
    IF reds.red[key] = NoRecord \/ reds.red[key].minTime >= now THEN reds
    ELSE RemoveRedelegation(reds, key)

CompleteRedelegation(reds, key) ==
    IF reds.red[key] = NoRecord \/ reds.red[key].minTime > now THEN reds
    ELSE RemoveRedelegation(reds, key)

-----------------------------------------------------------------------------
(* EndBlocker and the validator-set update (keeper/val_state_change.go,    *)
(* not in this tree).                                                      *)

Eligible(vals) ==
    {v \in Validators : vals[v] # NoRecord /\ ~vals[v].jailed /\ vals[v].tokens > 0}

(* The bonded sets the power index can produce: the MaxValidators largest *)
(* eligible validators, ties broken by an order the model leaves open.     *)
TopSets(vals) ==
    {S \in SUBSET Eligible(vals) :
        /\ Cardinality(S) = Min({MaxValidators, Cardinality(Eligible(vals))})
        /\ \A x \in S, y \in Eligible(vals) \ S : vals[x].tokens >= vals[y].tokens}

ApplyAndReturnValidatorSetUpdates(st, S) ==
    LET vals     == st.validator
        IsBonded(v) == vals[v] # NoRecord /\ vals[v].status = Bonded
        toBond   == {v \in S : ~IsBonded(v)}
        toUnbond == {v \in Validators : IsBonded(v) /\ v \notin S}
        moved    == MapThenSumSet(LAMBDA v : vals[v].tokens, toBond)
                    - MapThenSumSet(LAMBDA v : vals[v].tokens, toUnbond)
        newVals  == [v \in Validators |->
                      IF v \in toBond THEN [vals[v] EXCEPT !.status = Bonded]
                      ELSE IF v \in toUnbond
                      THEN [vals[v] EXCEPT !.status = Unbonding,
                              !.unbondingHeight = height,
                              !.unbondingMinTime = now + UnbondingTime]
                      ELSE vals[v]]
    IN  [st EXCEPT !.validator = newVals, !.bonded = @ + moved,
                   !.loose = @ - moved]

UnbondAllMatureValidatorQueue(st) ==
    LET Matured(val) == val # NoRecord /\ val.status = Unbonding
                        /\ val.unbondingMinTime <= now
    IN  [st EXCEPT !.validator = [v \in Validators |->
          LET val == st.validator[v] IN
          IF ~Matured(val) THEN val
          ELSE IF val.shares = 0 THEN NoRecord
          ELSE [val EXCEPT !.status = Unbonded]]]

(***************************************************************************)
(* Actions                                                                 *)
(***************************************************************************)

(* Transactions are submitted while every entry they create can still     *)
(* mature before the model's last block.                                   *)
TxWindowOpen == now + UnbondingTime + MaxStep - 1 <= MaxTime

NewUbd(d, v, ch, mt, amt) ==
    /\ SetUbds(SetUnbondingDelegation(Ubds, <<d, v>>,
          [creationHeight |-> ch, minTime |-> mt, balance |-> amt,
           initialBalance |-> amt]))
    /\ ubdQueue' = InsertQueue(ubdQueue, mt, <<d, v>>)

(* handleMsgDelegate -> Delegate(subtractAccount = TRUE)                   *)
DelegateTx(d, v, amt) ==
    /\ TxWindowOpen
    /\ validator[v] # NoRecord
    /\ DelegateOk(Stake, d, amt, v, TRUE)
    /\ SetStake(Delegate(Stake, d, amt, v, TRUE))
    /\ UNCHANGED <<height, now, ubdQueue, redQueue, lastBonded>>
    /\ UNCHANGED <<ubd, ubdByValIndex, red, redByValSrcIndex, redByValDstIndex>>

(* BeginUnbonding: before H001 the entry takes its timing from the        *)
(* validator (read before unbond) and an Unbonded validator pays at once; *)
(* from H001 on every undelegation waits the full unbonding time.          *)
BeginUnbonding(d, v, sh) ==
    /\ TxWindowOpen
    /\ ubd[d, v] = NoRecord
    /\ UnbondOk(Stake, d, v, sh)
    /\ LET amt  == UnbondAmount(Stake, v, sh)
           st   == Unbond(Stake, d, v, sh)
           info == getBeginInfo(Stake, v)
       IN  IF height < H001 /\ info.completeNow
           THEN /\ SetStake([st EXCEPT !.balance[d] = @ + amt])
                /\ UNCHANGED <<ubd, ubdByValIndex, ubdQueue>>
           ELSE /\ SetStake(st)
                /\ IF height < H001
                   THEN NewUbd(d, v, info.height, info.minTime, amt)
                   ELSE NewUbd(d, v, height, now + UnbondingTime, amt)
    /\ UNCHANGED <<height, now, redQueue, lastBonded>>
    /\ UNCHANGED <<red, redByValSrcIndex, redByValDstIndex>>

(* BeginRedelegation: unbond from src, Delegate to dst without charging   *)
(* the account, then getBeginInfo on src (read after unbond).              *)
BeginRedelegation(d, s, t, sh) ==
    /\ TxWindowOpen
    /\ s # t
    /\ red[d, s, t] = NoRecord
    /\ ~HasReceivingRedelegation(d, s)
    /\ UnbondOk(Stake, d, s, sh)
    /\ LET amt  == UnbondAmount(Stake, s, sh)
           st   == Unbond(Stake, d, s, sh)
       IN  /\ st.validator[t] # NoRecord
           /\ DelegateOk(st, d, amt, t, FALSE)
           /\ LET st2  == Delegate(st, d, amt, t, FALSE)
                  info == getBeginInfo(st2, s)
              IN  /\ SetStake(st2)
                  /\ IF info.completeNow
                     THEN UNCHANGED <<red, redQueue, redByValSrcIndex,
                                      redByValDstIndex>>
                     ELSE /\ SetReds(SetRedelegation(Reds, <<d, s, t>>,
                               [creationHeight |-> info.height,
                                minTime |-> info.minTime, sharesSrc |-> sh,
                                sharesDst |-> IssuedShares(st.validator[t], amt),
                                balance |-> amt, initialBalance |-> amt]))
                          /\ redQueue' = InsertQueue(redQueue, info.minTime,
                                                     <<d, s, t>>)
    /\ UNCHANGED <<height, now, ubd, ubdByValIndex, ubdQueue, lastBonded>>

(* EndBlocker at block time now, then the next block starts at nextTime:  *)
(* validator-set update, mature validators unbonded, matured unbonding    *)
(* delegations and redelegations completed in queue order.                 *)
EndBlock(nextTime) ==
    \E S \in TopSets(validator) :
      LET st1  == ApplyAndReturnValidatorSetUpdates(Stake, S)
          st2  == UnbondAllMatureValidatorQueue(st1)
          paid == FoldLeft(CompleteUnbonding,
                           [balance |-> st2.balance, ubds |-> Ubds],
                           MatureEntries(ubdQueue, now))
      IN  /\ SetStake([st2 EXCEPT !.balance = paid.balance])
          /\ SetUbds(paid.ubds)
          /\ ubdQueue' = DequeueAllMature(ubdQueue, now)
          /\ SetReds(FoldLeft(CompleteRedelegation, Reds,
                              MatureEntries(redQueue, now)))
          /\ redQueue' = DequeueAllMature(redQueue, now)
          /\ lastBonded' = [v \in Validators |->
                  IF validator[v] # NoRecord /\ validator[v].status = Bonded
                  THEN now ELSE lastBonded[v]]
          /\ height' = height + 1
          /\ now' = nextTime

NextBlock ==
    /\ now <= MaxTime
    /\ \E step \in TimeSteps : EndBlock(now + step)

(* Past the time bound the model produces no more blocks.                 *)
Halted ==
    /\ now > MaxTime
    /\ UNCHANGED vars

Init ==
    /\ height = 1
    /\ now = 0
    /\ balance = InitCoins
    /\ validator = [v \in Validators |->
          [status |-> Unbonded, tokens |-> SelfBond, shares |-> SelfBond,
           jailed |-> FALSE, unbondingHeight |-> 0, unbondingMinTime |-> 0]]
    /\ delegation = [k \in DV |-> IF k[1] = Operator[k[2]] THEN SelfBond ELSE 0]
    /\ ubd = [k \in DV |-> NoRecord]
    /\ red = [k \in Delegators \X Validators \X Validators |-> NoRecord]
    /\ ubdQueue = [t \in Times |-> <<>>]
    /\ redQueue = [t \in Times |-> <<>>]
    /\ bondedTokens = 0
    /\ looseTokens = TotalSupply
    /\ lastBonded = [v \in Validators |-> -UnbondingTime]
    /\ ubdByValIndex = {}
    /\ redByValSrcIndex = {}
    /\ redByValDstIndex = {}

Next ==
    \/ \E d \in Delegators, v \in Validators, amt \in Amounts : DelegateTx(d, v, amt)
    \/ \E d \in Delegators, v \in Validators, sh \in 1..TotalSupply :
          BeginUnbonding(d, v, sh)
    \/ \E d \in Delegators, s, t \in Validators, sh \in 1..TotalSupply :
          BeginRedelegation(d, s, t, sh)
    \/ NextBlock
    \/ Halted

Spec == Init /\ [][Next]_vars /\ WF_vars(NextBlock)

-----------------------------------------------------------------------------
(***************************************************************************)
(* Properties                                                              *)
(***************************************************************************)

TypeOK ==
    /\ height \in Nat /\ now \in Nat
    /\ balance \in [Delegators -> Nat]
    /\ validator \in [Validators -> ValidatorRecords \cup {NoRecord}]
    /\ delegation \in [DV -> Nat]
    /\ ubd \in [DV -> UbdRecords \cup {NoRecord}]
    /\ red \in [Delegators \X Validators \X Validators -> RedRecords \cup {NoRecord}]
    /\ ubdQueue \in [Times -> Seq(DV)]
    /\ redQueue \in [Times -> Seq(DVV)]
    /\ bondedTokens \in Nat /\ looseTokens \in Nat
    /\ lastBonded \in [Validators -> Int]
    /\ ubdByValIndex \subseteq DV
    /\ redByValSrcIndex \subseteq DVV /\ redByValDstIndex \subseteq DVV

IsBondedVal(v) == validator[v] # NoRecord /\ validator[v].status = Bonded
PendingUbds == {k \in DV : ubd[k] # NoRecord}

(* The pool follows the tokens it stands for: BondedTokens is what Bonded *)
(* validators hold, and the loose total is what accounts, non-bonded      *)
(* validators and pending unbonding delegations hold. The set update,     *)
(* unbond, Delegate and CompleteUnbonding each move tokens and the pool   *)
(* (loosenTokenToBonded / bondedTokenToLoosen) in separate steps.          *)
PoolAccounting ==
    /\ bondedTokens =
         MapThenSumSet(LAMBDA v : validator[v].tokens,
                       {v \in Validators : IsBondedVal(v)})
    /\ looseTokens =
         SumFunction(balance)
         + MapThenSumSet(LAMBDA v : validator[v].tokens,
              {v \in Validators : validator[v] # NoRecord /\ ~IsBondedVal(v)})
         + MapThenSumSet(LAMBDA k : ubd[k].balance, PendingUbds)

(* A validator's DelegatorShares are exactly the shares its delegations   *)
(* hold, and a deleted validator has no delegation left: unbond deletes   *)
(* an Unbonded validator only when its last share leaves, and a           *)
(* redelegation moves shares between two validators.                     *)
SharesBackedByDelegations ==
    \A v \in Validators :
        IF validator[v] = NoRecord
        THEN \A d \in Delegators : delegation[d, v] = 0
        ELSE validator[v].shares =
                 MapThenSumSet(LAMBDA d : delegation[d, v], Delegators)

(* Every pending unbonding delegation or redelegation sits exactly once   *)
(* in its queue, in the timeslice of its MinTime, and every queued key    *)
(* names a pending entry with that MinTime: the EndBlocker dequeues all   *)
(* timeslices up to now but CompleteRedelegation keeps an entry that is   *)
(* not yet mature (MinTime.After(now)), which would strand it.            *)
QueueIndexConsistent ==
    LET Count(q, t, k) == Cardinality({i \in DOMAIN q[t] : q[t][i] = k})
        Consistent(q, recs) ==
          /\ \A k \in DOMAIN recs : recs[k] # NoRecord =>
                \A t \in Times : Count(q, t, k) = IF t = recs[k].minTime THEN 1 ELSE 0
          /\ \A t \in Times : \A i \in DOMAIN q[t] :
                recs[q[t][i]] # NoRecord /\ recs[q[t][i]].minTime = t
    IN  Consistent(ubdQueue, ubd) /\ Consistent(redQueue, red)

(* The store indexes agree with the records on every path that writes or *)
(* deletes one (unbond, BeginUnbonding, BeginRedelegation, the EndBlocker *)
(* completions): reading a validator's unbonding delegations or outgoing  *)
(* redelegations through its index yields exactly its pending records and *)
(* never a key whose record is gone, and the destination-index scan of    *)
(* HasReceivingRedelegation sees exactly the pending redelegations.        *)
IndexesMatchRecords ==
    /\ \A v \in Validators :
          /\ GetUnbondingDelegationsFromValidator(v) =
                [k \in {k \in PendingUbds : k[2] = v} |-> ubd[k]]
          /\ GetRedelegationsFromValidator(v) =
                [k \in {k \in DVV : k[2] = v /\ red[k] # NoRecord} |-> red[k]]
    /\ \A d \in Delegators, v \in Validators :
          HasReceivingRedelegation(d, v) <=> \E s \in Validators : red[d, s, v] # NoRecord

(* A validator that is not jailed still has its operator's self-bond:     *)
(* unbond jails the validator when its operator's delegation reaches      *)
(* zero, whether by undelegation or by redelegation.                       *)
SelfBondOrJailed ==
    \A v \in Validators :
        validator[v] # NoRecord /\ ~validator[v].jailed =>
            delegation[Operator[v], v] > 0

(* Time from which stake delegated to v could no longer be slashed for an *)
(* infraction committed now: while v is Bonded, a full unbonding period   *)
(* from now; otherwise a full period from the last block it was Bonded.   *)
ReleaseTime(v) ==
    IF IsBondedVal(v) THEN now + UnbondingTime ELSE lastBonded[v] + UnbondingTime

(* Stake leaves a validator only by becoming a pending entry that matures *)
(* no earlier than the validator's release time, or directly when that    *)
(* time has passed: neither undelegation nor redelegation lets stake      *)
(* escape the unbonding period (getBeginInfo and the H001 patch).          *)
StakeReleasedAfterUnbondingPeriod ==
    [][\A d \in Delegators, v \in Validators :
         delegation'[d, v] < delegation[d, v] =>
            \/ ReleaseTime(v) <= now
            \/ ubd'[d, v] # NoRecord /\ ubd[d, v] = NoRecord
               /\ ubd'[d, v].minTime >= ReleaseTime(v)
            \/ \E t \in Validators :
                  /\ red'[d, v, t] # NoRecord /\ red[d, v, t] = NoRecord
                  /\ red'[d, v, t].minTime >= ReleaseTime(v)]_vars

(* Every unbonding delegation and redelegation is eventually completed    *)
(* and removed by the EndBlocker as long as blocks keep coming: once      *)
(* transactions stop, no entry stays pending for good (an entry the       *)
(* EndBlocker dequeued without completing would stay forever).            *)
EntriesEventuallyComplete ==
    <>[](\A k \in DV : ubd[k] = NoRecord) /\ <>[](\A k \in DVV : red[k] = NoRecord)

(* spec.md (Redelegation): a redelegation into a validator that itself has *)
(* pending outgoing redelegations from the same delegator is rejected, so *)
(* no delegator ever has a chain x -> y -> z of pending redelegations.     *)
(* BeginRedelegation checks HasReceivingRedelegation(del, src) instead.    *)
NoTransitiveRedelegationChain ==
    \A d \in Delegators, x, y, z \in Validators :
        ~(red[d, x, y] # NoRecord /\ red[d, y, z] # NoRecord)

(* spec.md (BeginRedelegation): from a source validator that is already   *)
(* Unbonded the redelegation completes immediately with no queued entry.   *)
(* BeginRedelegation asks getBeginInfo only after unbond, which may have  *)
(* deleted the source.                                                     *)
RedelegationFromUnbondedNotQueued ==
    [][\A d \in Delegators, s, t \in Validators :
         validator[s] # NoRecord /\ validator[s].status = Unbonded =>
            (red'[d, s, t] # NoRecord => red[d, s, t] # NoRecord)]_vars

(* spec.md (BeginUnbonding): from a source validator that is already      *)
(* Unbonded the undelegation completes immediately with no queued entry;  *)
(* from H001_UNDELEGATE_PATCH on BeginUnbonding always queues an entry.    *)
UnbondingFromUnbondedNotQueued ==
    [][\A d \in Delegators, v \in Validators :
         validator[v] # NoRecord /\ validator[v].status = Unbonded =>
            (ubd'[d, v] # NoRecord => ubd[d, v] # NoRecord)]_vars

-----------------------------------------------------------------------------
(***************************************************************************)
(* Refinement: the ledger seen by a delegator.  Its coins are the bank     *)
(* balance, its bonded stake the shares of its delegations (one token per  *)
(* share without slashing), its unbonding stake the balance and MinTime of *)
(* its unbonding delegations.  Redelegation entries only record a move     *)
(* between two bonded positions.                                           *)
(***************************************************************************)
UnbondingView ==
    [k \in DV |-> IF ubd[k] = NoRecord THEN NoRecord
                  ELSE [amount |-> ubd[k].balance, release |-> ubd[k].minTime]]

Accounts == INSTANCE StakeAccounts
               WITH liquid <- balance, bonded <- delegation, unbonding <- UnbondingView

(* Handlers and the EndBlocker implement the delegator's view: Delegate,   *)
(* BeginUnbonding and BeginRedelegation only move stake between liquid,    *)
(* bonded and unbonding; the queue drain in the EndBlocker pays out every  *)
(* unbonding delegation whose MinTime has been reached, and no other.      *)
ImplementsStakeAccounts == Accounts!Spec

=============================================================================
