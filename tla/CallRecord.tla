------------------------------ MODULE CallRecord ------------------------------
(***************************************************************************)
(* What the panel promises the call log about one agent's calls: a call is  *)
(* opened once and closed at most once, is answered only in between, and    *)
(* nothing follows a close.  Softphone (one tab's phone) implements it; the *)
(* order in which the events of the SIP library, the buttons and the page   *)
(* come is left to Softphone.                                               *)
(***************************************************************************)
EXTENDS Sequences

CONSTANT Calls

\* record[c] holds the phases sent for call c, oldest first.
VARIABLE record

\* A call nobody reported yet has an empty record.
Init == record = [c \in Calls |-> <<>>]

Start(c) ==
  /\ record[c] = <<>>
  /\ record' = [record EXCEPT ![c] = <<"start">>]

IsOpen(c) == record[c] # <<>> /\ record[c][Len(record[c])] # "end"

\* A call may be told to be answered again: the log is written for the newest
\* call, whichever call was picked up.
Answer(c) ==
  /\ IsOpen(c)
  /\ record' = [record EXCEPT ![c] = Append(@, "answer")]

Close(c) ==
  /\ IsOpen(c)
  /\ record' = [record EXCEPT ![c] = Append(@, "end")]

Next == \E c \in Calls : Start(c) \/ Answer(c) \/ Close(c)

Spec == Init /\ [][Next]_record
===============================================================================
