------------------------- MODULE MC_SlashingWindow -------------------------
(* Two validators that both fit the bonded set.                           *)
EXTENDS SlashingWindow

CONSTANTS w1, w2

MCValidators == {w1, w2}
Perms == Permutations(MCValidators)

=============================================================================
