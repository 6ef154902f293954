---------------------------- MODULE MCUsdtSweep ----------------------------
EXTENDS UsdtSweep

CONSTANTS j1, j2, j3, d1, d2

MCDepositOf == [j \in Jobs |-> IF j = j2 THEN d2 ELSE d1]

\* The deposits have no TON of their own.
MCFunds == {[d \in Deposits |-> 0]}
=============================================================================
