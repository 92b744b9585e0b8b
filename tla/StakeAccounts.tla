---------------------------- MODULE StakeAccounts ----------------------------
(***************************************************************************)
(* What the staking ledger promises a delegator, with validators, shares,  *)
(* the token pool and the maturity queues abstracted away.  A delegator's  *)
(* stake is liquid, bonded to a validator, or unbonding from a validator   *)
(* with a release time.  Stake moves only:                                 *)
(*   - liquid -> bonded (delegate);                                        *)
(*   - bonded -> bonded at another validator (redelegate);                 *)
(*   - bonded -> liquid at once, or -> unbonding released at most one      *)
(*     unbonding period from now (undelegate);                             *)
(*   - unbonding -> liquid at the end of the first block whose time has    *)
(*     reached the release time, and not before.                           *)
(***************************************************************************)
EXTENDS Integers, FiniteSetsExt

CONSTANTS
    Delegators,
    Validators,
    UnbondingTime,
    NoRecord        \* no unbonding entry

VARIABLES
    now,            \* block time
    liquid,         \* liquid[d]: spendable coins of d
    bonded,         \* bonded[d, v]: stake of d bonded to v
    unbonding       \* unbonding[d, v]: NoRecord or [amount, release]

avars == <<now, liquid, bonded, unbonding>>

DV == Delegators \X Validators

Init ==
    /\ now = 0
    /\ liquid \in [Delegators -> Nat]
    /\ bonded \in [DV -> Nat]
    /\ unbonding = [k \in DV |-> NoRecord]

Delegate(d, v, a) ==
    /\ a > 0 /\ liquid[d] >= a
    /\ liquid' = [liquid EXCEPT ![d] = @ - a]
    /\ bonded' = [bonded EXCEPT ![d, v] = @ + a]
    /\ UNCHANGED <<now, unbonding>>

Redelegate(d, s, t, a) ==
    /\ s # t /\ a > 0 /\ bonded[d, s] >= a
    /\ bonded' = [bonded EXCEPT ![d, s] = @ - a, ![d, t] = @ + a]
    /\ UNCHANGED <<now, liquid, unbonding>>

(* One undelegation at a time per delegator and validator.                 *)
Undelegate(d, v, a) ==
    /\ a > 0 /\ bonded[d, v] >= a
    /\ unbonding[d, v] = NoRecord
    /\ bonded' = [bonded EXCEPT ![d, v] = @ - a]
    /\ \/ /\ liquid' = [liquid EXCEPT ![d] = @ + a]
          /\ UNCHANGED unbonding
       \/ /\ \E r \in 0..(now + UnbondingTime) :
                unbonding' = [unbonding EXCEPT ![d, v] = [amount |-> a, release |-> r]]
          /\ UNCHANGED liquid
    /\ UNCHANGED now

(* A block ends: every entry released by now is paid out, and only those;  *)
(* the next block starts later.                                            *)
Released(k) == unbonding[k] # NoRecord /\ unbonding[k].release <= now

EndBlock ==
    /\ liquid' = [d \in Delegators |->
                    liquid[d] + MapThenSumSet(LAMBDA k : unbonding[k].amount,
                                              {k \in DV : k[1] = d /\ Released(k)})]
    /\ unbonding' = [k \in DV |-> IF Released(k) THEN NoRecord ELSE unbonding[k]]
    /\ now' > now
    /\ UNCHANGED bonded

Next ==
    \/ \E d \in Delegators, v \in Validators :
          \/ \E a \in 1..liquid[d] : Delegate(d, v, a)
          \/ \E a \in 1..bonded[d, v] : Undelegate(d, v, a)
    \/ \E d \in Delegators, s, t \in Validators :
          \E a \in 1..bonded[d, s] : Redelegate(d, s, t, a)
    \/ EndBlock

Spec == Init /\ [][Next]_avars

=============================================================================
