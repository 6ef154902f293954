------------------------- MODULE MCSettlementBatch -------------------------
(* SettlementBatch: a deposit that always fails before one that is paid in  *)
(* GRAM, in USDT and in GRAM again.                                         *)
EXTENDS SettlementBatch

MCDepositOf == <<1, 2, 2, 2>>
MCAssetOf   == <<"GRAM", "GRAM", "USDT", "GRAM">>
=============================================================================
