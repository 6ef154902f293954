----------------------------- MODULE MCCheckout -----------------------------
EXTENDS Checkout, TLC

CONSTANTS a1, a2, t1, t2, t3

\* The whole amount in two parts to the first attempt, and all at once to the
\* second in a transfer that only the legacy matcher takes.
MCTransferOf ==
  [t \in Transfers |->
     CASE t = t1 -> [to |-> a1, amount |-> 1, strict |-> TRUE]
       [] t = t2 -> [to |-> a1, amount |-> 1, strict |-> TRUE]
       [] t = t3 -> [to |-> a2, amount |-> 2, strict |-> FALSE]]

Symmetry == Permutations(Callers) \cup Permutations({t1, t2})
=============================================================================
