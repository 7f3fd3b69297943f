----------------------------- MODULE MCInbound -----------------------------
(* Small instances of Inbound for TLC.                                     *)
EXTENDS Inbound, TLC

CONSTANTS m1, m2, m3, w1, w2

\* m1 and m2 are of one conversation, m3 of another: workers are alike,
\* and so are m1 and m2.
Convs == [m \in Messages |-> IF m = m3 THEN 2 ELSE 1]
Same == Permutations({w1, w2}) \cup Permutations({m1, m2})
=============================================================================
