------------------------------ MODULE MCOutbox ------------------------------
(* Small instances of Outbox for TLC.                                      *)
EXTENDS Outbox

\* All messages in one conversation, and the last one in another.
OneConv  == [m \in Messages |-> 1]
TwoConvs == [m \in Messages |-> IF \A p \in Messages : p <= m THEN 2 ELSE 1]
=============================================================================
