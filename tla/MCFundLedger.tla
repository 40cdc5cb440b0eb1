---------------------------- MODULE MCFundLedger ----------------------------
(* Small instances of FundLedger for TLC. *)
EXTENDS FundLedger

\* Accounts of 60 and (after an addition) 120 cents: their fees are 1 and 2
\* cents and no profit or loss below divides evenly.
MCDeposits == {60}

\* Losing all that one deposit brought (which leaves an empty account), an
\* uneven loss and an uneven profit.
MCPnLs == {-60, -7, 50}
=============================================================================
