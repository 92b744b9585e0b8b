------------------------------ MODULE MC_TxFees ------------------------------
EXTENDS TxFees

CONSTANTS a1, a2, none

MCAccounts == {a1, a2}
MCInitBalance == [a \in MCAccounts |-> IF a = a1 THEN 4 ELSE 3]

IO(a, c) == [address |-> a, coins |-> c]
Send(ins, outs) == [type |-> "send", inputs |-> ins, outputs |-> outs]
Burn(a, c) == [type |-> "burn", inputs |-> <<IO(a, c)>>, outputs |-> <<>>]

\* One message per outcome of ValidateBasic and of the bank handler: valid
\* sends in both directions, a two-input send whose fee payer also
\* receives, and one message failing each check.
MCMsgs ==
    { Send(<<IO(a1, 1)>>, <<IO(a2, 1)>>),
      Send(<<IO(a2, 1)>>, <<IO(a1, 1)>>),
      Send(<<IO(a1, 1), IO(a2, 1)>>, <<IO(a1, 2)>>),
      Send(<<>>, <<IO(a2, 1)>>),
      Send(<<IO(a1, 1)>>, <<>>),
      Send(<<IO(a1, 1)>>, <<IO(none, 1)>>),
      Send(<<IO(a1, 0)>>, <<IO(a2, 0)>>),
      Send(<<IO(a1, 1)>>, <<IO(a2, 2)>>),
      Burn(a1, 1), Burn(a2, 0), Burn(none, 1) }
=============================================================================
