-------------------------- MODULE MCPaymentOrder --------------------------
(* Values for the constants of PaymentOrder.  With PriceScale = 2, an amount *)
(* of 1 is worth nothing at price 1, and GRAM is worth twice as much from    *)
(* time 1 on as at time 0.                                                   *)
EXTENDS PaymentOrder

MCRateTimes == [a \in Assets |-> IF a = "GRAM" THEN {0, 1} ELSE {0}]
LateRateTimes == [a \in Assets |-> {0, 1}]
MCPrice     == [a \in Assets |-> [t \in Times |->
                  IF a = "GRAM" /\ t > 0 THEN 2 ELSE 1]]

GramPayment(i, n) == [asset |-> "GRAM", invoice |-> i, amount |-> n]
UsdtPayment(i, n) == [asset |-> "USDT", invoice |-> i, amount |-> n]

\* One attempt: a GRAM transfer that reaches the discounted price at the later
\* rate only, dust, and a part in the other asset.
OneAttemptTransfers ==
  {GramPayment("i1", 3), UsdtPayment("i1", 1), UsdtPayment("i1", 6)}

\* Two attempts of the order, each with a wallet.
TwoAttemptTransfers ==
  {GramPayment("i1", 3), GramPayment("i2", 6), UsdtPayment("i1", 8)}

\* Payments in one asset, for the runs on progress.
UsdtTransfers == {UsdtPayment("i1", 1), UsdtPayment("i1", 6)}
GramTransfers == {GramPayment("i1", 6)}
=============================================================================
