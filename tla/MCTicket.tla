------------------------------ MODULE MCTicket ------------------------------
(* Small instances of Ticket for TLC.                                      *)
EXTENDS Ticket, TLC

\* Agents differ in nothing but their names.
Same == Permutations(Agents)
=============================================================================
