---------------------------- MODULE MCScanners ----------------------------
(* Which worker scans which stream.                                         *)
EXTENDS Scanners, TLC

CONSTANTS g1, g2, u1, u2

MCStreamOf == [w \in Workers |-> IF w \in {g1, g2} THEN "GRAM" ELSE "USDT"]
=============================================================================
