--------------------------- MODULE MCNativeSweep ---------------------------
EXTENDS NativeSweep, TLC

Pay(a, n) == [asset |-> a, amount |-> n, fiat |-> n]
MCPayment == <<Pay("GRAM", 4), Pay("GRAM", 3), Pay("USDT", 2)>>
=============================================================================
