------------------------------- MODULE TxFees -------------------------------
(***************************************************************************)
(* The life of a transaction's fee, from modules/auth/feeauth.go and the   *)
(* bank messages of modules/bank/msgs.go.  A delivered tx is checked by    *)
(* its messages' ValidateBasic, then by the fee preprocess handler (gas    *)
(* limit and gas price against the GasPriceThreshold parameter), then the  *)
(* ante handler deducts the whole fee from the first signer into the      *)
(* collected fees; the message runs in a cache context that is discarded   *)
(* when it fails or runs out of gas; finally the fee refund handler gives  *)
(* the first signer back the fee's share of the unused gas.  At the next   *)
(* block the collected fees go to distribution.                            *)
(*                                                                         *)
(* Coins are of the one native denomination (iris-atto), the denomination *)
(* getNativeFeeToken selects, so a Coins value is its amount and the empty *)
(* Coins is 0.  Gas is a uint64 and the refund converts it to int64: both  *)
(* keep their wrap-around, at a width of GasBits bits.                     *)
(***************************************************************************)
EXTENDS Integers, Sequences, SequencesExt, Functions

CONSTANTS
    Accounts,         \* account addresses
    NoAddr,           \* the empty address
    InitBalance,      \* [Accounts -> Nat]: genesis balances
    GasBits,          \* width of uint64 / int64 gas values
    GasLimits,        \* gas limits a tx may declare
    MaxGasUsed,       \* largest gas a delivery may consume
    Fees,             \* native fee amounts a tx may offer
    Msgs,             \* the messages a tx may carry
    ThresholdValues,  \* values a parameter change may propose
    MaximumGasPrice,  \* auth MaximumGasPrice (10^18 iris-atto, scaled)
    InitThreshold     \* genesis GasPriceThreshold

ASSUME /\ GasBits \in Nat \ {0, 1}
       /\ GasLimits \subseteq 0..(2^GasBits - 1)
       /\ InitBalance \in [Accounts -> Nat]
       /\ Fees \subseteq Nat

VARIABLES
    balance,      \* account coins, by address
    collected,    \* fee keeper: collected fees of the current block
    distributed,  \* fees handed to distribution at earlier blocks
    burned,       \* coins removed by MsgBurn
    threshold,    \* auth param GasPriceThreshold
    result        \* the last delivered tx: its code, gas and actualCostFee

vars == <<balance, collected, distributed, burned, threshold, result>>

Supply == SumFunction(InitBalance)

-----------------------------------------------------------------------------
(* Fixed-width integers and sdk.Int division *)

\* uint64 arithmetic wraps; int64(u) reinterprets the top bit as the sign
ToUint(x) == x % (2^GasBits)
Int64(u) == IF u >= 2^(GasBits - 1) THEN u - 2^GasBits ELSE u

AbsInt(x) == IF x < 0 THEN -x ELSE x

\* sdk.Int Div is big.Int Quo: truncated toward zero
IntQuo(a, b) ==
    LET q == AbsInt(a) \div AbsInt(b)
    IN  IF (a < 0) = (b < 0) THEN q ELSE -q

-----------------------------------------------------------------------------
(* auth params and fee handlers *)

MinimumGasPrice == 0

\* Fault: the lower bound admits a zero threshold.
ValidateAllowsZero(value) ==
    IF value < MinimumGasPrice \/ value > MaximumGasPrice
    THEN "CodeInvalidGasPriceThreshold" ELSE "OK"

\* Params.Validate for gasPriceThresholdKey: (0, MaximumGasPrice]
Validate(value) ==
    IF ~(value > MinimumGasPrice) \/ value > MaximumGasPrice
    THEN "CodeInvalidGasPriceThreshold" ELSE "OK"

\* Fault: the whole fee, not the gas price, is compared with the threshold.
feePreprocessNoDivision(th, fee, gasLimit) ==
    IF gasLimit = 0 \/ Int64(gasLimit) < 0 THEN "ErrInvalidGas"
    ELSE IF fee < th THEN "ErrGasPriceTooLow"
    ELSE "OK"

\* feePreprocess.  coins is {getNativeFeeToken(fee)}, one coin of the
\* native denomination, so the denomination check always passes.
feePreprocess(th, fee, gasLimit) ==
    IF gasLimit = 0 \/ Int64(gasLimit) < 0 THEN "ErrInvalidGas"
    ELSE IF IntQuo(fee, Int64(gasLimit)) < th THEN "ErrGasPriceTooLow"
    ELSE "OK"

\* Fault: no early return when all the gas was used; unusedGas wraps.
NewFeeRefundHandlerNoUsedCheck(bal, coll, signers, fee, gasWanted, gasUsed) ==
    IF signers = <<>> THEN [bal |-> bal, coll |-> coll, cost |-> 0]
    ELSE LET unusedGas == ToUint(gasWanted - gasUsed)
             refund == IntQuo(fee * Int64(unusedGas), Int64(gasWanted))
             first == signers[1].address
         IN  [bal  |-> [bal EXCEPT ![first] = bal[first] + refund],
              coll |-> coll - refund,
              cost |-> fee - refund]

\* Fault: the refund is added to the coins of the account object the ante
\* handler stored, not to the coins read back from the store.
NewFeeRefundHandlerStaleAccount(bal, coll, signers, fee, gasWanted, gasUsed) ==
    IF signers = <<>> THEN [bal |-> bal, coll |-> coll, cost |-> 0]
    ELSE IF gasWanted <= gasUsed THEN [bal |-> bal, coll |-> coll, cost |-> fee]
    ELSE LET unusedGas == ToUint(gasWanted - gasUsed)
             refund == IntQuo(fee * Int64(unusedGas), Int64(gasWanted))
             first == signers[1].address
         IN  [bal  |-> [bal EXCEPT ![first] = signers[1].coins + refund],
              coll |-> coll - refund,
              cost |-> fee - refund]

\* Fault: the refund is rounded up.
NewFeeRefundHandlerRoundUp(bal, coll, signers, fee, gasWanted, gasUsed) ==
    IF signers = <<>> THEN [bal |-> bal, coll |-> coll, cost |-> 0]
    ELSE IF gasWanted <= gasUsed THEN [bal |-> bal, coll |-> coll, cost |-> fee]
    ELSE LET unusedGas == ToUint(gasWanted - gasUsed)
             refund == (fee * unusedGas + gasWanted - 1) \div gasWanted
             first == signers[1].address
         IN  [bal  |-> [bal EXCEPT ![first] = bal[first] + refund],
              coll |-> coll - refund,
              cost |-> fee - refund]

\* NewFeeRefundHandler, after the tx.  signers are the accounts the ante
\* handler stored in the context; bal and coll the store after the msgs.
NewFeeRefundHandler(bal, coll, signers, fee, gasWanted, gasUsed) ==
    IF signers = <<>> THEN [bal |-> bal, coll |-> coll, cost |-> 0]
    ELSE IF gasWanted <= gasUsed THEN [bal |-> bal, coll |-> coll, cost |-> fee]
    ELSE LET unusedGas == ToUint(gasWanted - gasUsed)
             refund == IntQuo(fee * Int64(unusedGas), Int64(gasWanted))
             first == signers[1].address
         IN  [bal  |-> [bal EXCEPT ![first] = bal[first] + refund],
              coll |-> coll - refund,
              cost |-> fee - refund]

-----------------------------------------------------------------------------
(* bank messages.  An Input or Output is [address, coins]; a MsgBurn is   *)
(* a msg of type "burn" whose one input is [Owner, Coins].                *)

\* Input.ValidateBasic and Output.ValidateBasic
InOutValidateBasic(io) ==
    IF io.address = NoAddr THEN "ErrInvalidAddress"
    ELSE IF ~(io.coins > 0) THEN "ErrInvalidCoins"
    ELSE "OK"

TotalCoins(ios) == FoldLeft(LAMBDA acc, io : acc + io.coins, 0, ios)

MsgSendValidateBasic(m) ==
    LET bad == SelectSeq(m.inputs \o m.outputs,
                         LAMBDA io : InOutValidateBasic(io) # "OK")
    IN  IF m.inputs = <<>> THEN "ErrNoInputs"
        ELSE IF m.outputs = <<>> THEN "ErrNoOutputs"
        ELSE IF bad # <<>> THEN InOutValidateBasic(Head(bad))
        ELSE IF TotalCoins(m.inputs) # TotalCoins(m.outputs) THEN "ErrInvalidCoins"
        ELSE "OK"

MsgBurnValidateBasic(m) ==
    IF m.inputs[1].address = NoAddr THEN "ErrInvalidAddress"
    ELSE IF m.inputs[1].coins = 0 THEN "ErrBurnEmptyCoins"
    ELSE "OK"

ValidateBasic(m) ==
    IF m.type = "send" THEN MsgSendValidateBasic(m) ELSE MsgBurnValidateBasic(m)

\* GetSigners: the inputs' addresses (the owner of a burn); the fee payer
\* and refund receiver is the first of them.
FirstSigner(m) == m.inputs[1].address

-----------------------------------------------------------------------------
(* The bank keeper and the ante handler's fee deduction (not in this tree) *)

\* InputOutputCoins: subtract every input in order (ErrInsufficientCoins
\* when one would go negative), then add every output.
InputOutputCoins(bal, m) ==
    LET sub == FoldLeft(LAMBDA st, io :
                          IF st.ok /\ st.bal[io.address] >= io.coins
                          THEN [ok |-> TRUE,
                                bal |-> [st.bal EXCEPT ![io.address] = @ - io.coins]]
                          ELSE [ok |-> FALSE, bal |-> st.bal],
                        [ok |-> TRUE, bal |-> bal], m.inputs)
    IN  [ok  |-> sub.ok,
         bal |-> FoldLeft(LAMBDA b, io : [b EXCEPT ![io.address] = @ + io.coins],
                          sub.bal, m.outputs)]

\* The msg in its cache context: out of gas, or a failed handler, discards
\* its writes.
RunMsgs(bal, m, gasWanted, gasUsed) ==
    LET owner == m.inputs[1].address
        amt   == m.inputs[1].coins
        io    == InputOutputCoins(bal, m)
    IN  IF gasUsed > gasWanted
        THEN [code |-> "ErrOutOfGas", bal |-> bal, burn |-> 0]
        ELSE IF m.type = "send"
        THEN IF io.ok THEN [code |-> "OK", bal |-> io.bal, burn |-> 0]
             ELSE [code |-> "ErrInsufficientCoins", bal |-> bal, burn |-> 0]
        ELSE IF bal[owner] >= amt
        THEN [code |-> "OK", bal |-> [bal EXCEPT ![owner] = @ - amt], burn |-> amt]
        ELSE [code |-> "ErrInsufficientCoins", bal |-> bal, burn |-> 0]

\* The checks before the msg runs, in runTx order: ValidateBasic, the fee
\* preprocess handler, then the ante handler's fee deduction from the
\* first signer.
PreCheck(m, fee, gas) ==
    LET basic == ValidateBasic(m)
        pre   == feePreprocess(threshold, fee, gas)
    IN  IF basic # "OK" THEN basic
        ELSE IF pre # "OK" THEN pre
        ELSE IF balance[FirstSigner(m)] < fee THEN "ErrInsufficientFunds"
        ELSE "OK"

-----------------------------------------------------------------------------
(* Actions *)

NoResult == [code |-> "None", fee |-> 0, gasWanted |-> 0, gasUsed |-> 0,
             threshold |-> 0, cost |-> 0]

Init ==
    /\ balance = InitBalance
    /\ collected = 0
    /\ distributed = 0
    /\ burned = 0
    /\ threshold = InitThreshold
    /\ result = NoResult

\* A tx rejected before its msgs: no signers are in the context, so the
\* refund handler charges nothing.
RejectTx(m, fee, gas) ==
    LET code == PreCheck(m, fee, gas)
    IN  /\ code # "OK"
        /\ result' = [code |-> code, fee |-> fee, gasWanted |-> gas, gasUsed |-> 0,
                      threshold |-> threshold,
                      cost |-> NewFeeRefundHandler(balance, collected, <<>>,
                                                   fee, gas, 0).cost]
        /\ UNCHANGED <<balance, collected, distributed, burned, threshold>>

\* A tx past the ante handler: fee deducted and collected, msg run with
\* gasUsed gas, then the refund to the signer account the ante stored.
DeliverTx(m, fee, gas) ==
    LET payer     == FirstSigner(m)
        afterAnte == [balance EXCEPT ![payer] = @ - fee]
        signers   == <<[address |-> payer, coins |-> afterAnte[payer]]>>
    IN  /\ PreCheck(m, fee, gas) = "OK"
        /\ \E gasUsed \in 0..MaxGasUsed :
              LET run == RunMsgs(afterAnte, m, gas, gasUsed)
                  ref == NewFeeRefundHandler(run.bal, collected + fee, signers,
                                             fee, gas, gasUsed)
              IN  /\ balance' = ref.bal
                  /\ collected' = ref.coll
                  /\ burned' = burned + run.burn
                  /\ result' = [code |-> run.code, fee |-> fee, gasWanted |-> gas,
                                gasUsed |-> gasUsed, threshold |-> threshold,
                                cost |-> ref.cost]
        /\ UNCHANGED <<distributed, threshold>>

\* BeginBlock: distribution takes GetCollectedFees and clears them.
AllocateFees ==
    /\ collected > 0
    /\ distributed' = distributed + collected
    /\ collected' = 0
    /\ UNCHANGED <<balance, burned, threshold, result>>

\* A governance parameter change, accepted only when Params.Validate is.
ChangeThreshold(v) ==
    /\ Validate(v) = "OK"
    /\ v # threshold
    /\ threshold' = v
    /\ UNCHANGED <<balance, collected, distributed, burned, result>>

Next ==
    \/ \E m \in Msgs, fee \in Fees, gas \in GasLimits :
          \/ RejectTx(m, fee, gas)
          \/ DeliverTx(m, fee, gas)
    \/ AllocateFees
    \/ \E v \in ThresholdValues : ChangeThreshold(v)

Spec == Init /\ [][Next]_vars

-----------------------------------------------------------------------------
(* Properties *)

\* Result codes of a tx whose fee was deducted and whose msg ran.
Ran == {"OK", "ErrOutOfGas", "ErrInsufficientCoins"}

TypeOK ==
    /\ balance \in [Accounts -> Nat]
    /\ collected \in Nat /\ distributed \in Nat /\ burned \in Nat
    /\ threshold \in ThresholdValues \cup {InitThreshold}
    /\ result.cost \in Int

(* Coins are neither created nor lost: the fee deduction, the bank send    *)
(* or burn, the refund handler's write of the first signer's account and  *)
(* the allocation to distribution move coins between accounts, the        *)
(* collected fees, distribution and the burned total.                     *)
SupplyConserved ==
    SumFunction(balance) + collected + distributed + burned = Supply

(* The refund handler charges a tx whose msg ran at most its fee and at    *)
(* least the fee's share of the gas it used: the refund is the share of    *)
(* the unused gas, rounded down, also when the msg ran out of gas.        *)
RefundBounded ==
    result.code \in Ran =>
        /\ 0 <= result.cost /\ result.cost <= result.fee
        /\ result.cost * result.gasWanted
              >= result.fee * Min({result.gasUsed, result.gasWanted})

(* A tx whose msg ran paid at least the gas price threshold in force when  *)
(* it was checked for every unit of gas it used (up to its limit), despite *)
(* the truncating division in feePreprocess and in the refund.            *)
GasPriceFloor ==
    result.code \in Ran =>
        result.cost >= result.threshold * Min({result.gasUsed, result.gasWanted})

(* No tx that consumed gas in its msg is free: every threshold a parameter *)
(* change can set is positive, so the preprocess handler rejects a zero    *)
(* fee, and the refund never returns all of a positive one.               *)
NoFreeGas ==
    result.code \in Ran /\ result.gasUsed > 0 => result.cost > 0

=============================================================================
