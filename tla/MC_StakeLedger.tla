--------------------------- MODULE MC_StakeLedger ---------------------------
(* Validators with their operators and one plain delegator. With one      *)
(* bonded seat, bonded, unbonding and unbonded validators all occur.       *)
EXTENDS StakeLedger

CONSTANTS v1, v2, v3, o1, o2, o3, d1

(* two validators: o1, o2 operate v1, v2; d1 holds one coin *)
MCValidators == {v1, v2}
MCDelegators == {o1, o2, d1}
MCOperator == (v1 :> o1) @@ (v2 :> o2)
MCInitCoins == (o1 :> 0) @@ (o2 :> 0) @@ (d1 :> 1)

(* three validators, so a delegator can hold stake in a chain x -> y -> z; *)
(* operator o2 holds two coins to delegate beside its self-bond            *)
MCValidators3 == {v1, v2, v3}
MCDelegators3 == {o1, o2, o3}
MCOperator3 == (v1 :> o1) @@ (v2 :> o2) @@ (v3 :> o3)
MCInitCoins3 == (o1 :> 0) @@ (o2 :> 2) @@ (o3 :> 0)

=============================================================================
