------------------------------- MODULE MCDay --------------------------------
(***************************************************************************)
(* Small instances, for TLC, of three things of an agent's day that must    *)
(* agree again after whatever went wrong: the rows of shift and presence    *)
(* with what the panel shows, the do-not-disturb of the extension with the  *)
(* rows, and the list of the team chat's rooms with the server's.           *)
(* DoNotDisturb lets its rows change at will, so they share no state: a     *)
(* behaviour moves one of them, `part`, and leaves the others as they began.*)
(***************************************************************************)
EXTENDS Floor, DoNotDisturb, RoomList

VARIABLE part

Init ==
  /\ part \in {"rows", "line", "rooms"}
  /\ FloorInit /\ (part = "rows" \/ (shift = 0 /\ presence = "available"))
  /\ DndInit /\ (part = "line" \/ (rows = "none" /\ ~line))
  /\ RoomListInit /\ (part = "rooms" \/ (openRoom = NoRoom /\ \A r \in Rooms : theirs[r].role = "member"))

Next ==
  \/ part = "rows" /\ FloorNext /\ UNCHANGED <<part, dndVars, allListVars>>
  \/ part = "line" /\ DndNext /\ UNCHANGED <<part, floorVars, allListVars>>
  \/ part = "rooms" /\ RoomListNext /\ UNCHANGED <<part, floorVars, dndVars>>

\* FloorFair, DndFair and RoomListFair, each for the behaviours that move its part.
Fairness ==
  /\ \A r \in Requests : WF_floorVars(part = "rows" /\ Serves(r)) /\ WF_floorVars(part = "rows" /\ Answered(r))
  /\ \A kind \in Polls : SF_floorVars(part = "rows" /\ \E r \in Requests : PanelPolls(r, kind))
  /\ \A r \in Wishers : WF_dndVars(part = "line" /\ GoesOn(r))
  /\ WF_dndVars(part = "line" /\ QueueSends) /\ WF_dndVars(part = "line" /\ PauseEnds)
  /\ WF_dndVars(part = "line" /\ Settle) /\ WF_dndVars(part = "line" /\ LineTakes)
  /\ WF_dndVars(part = "line" /\ LateArrives) /\ WF_dndVars(part = "line" /\ AsksReport)
  /\ WF_dndVars(part = "line" /\ (Told \/ ToldNothing \/ ReportFails)) /\ SF_dndVars(part = "line" /\ Told)
  /\ WF_dndVars(part = "line" /\ Observe) /\ WF_dndVars(part = "line" /\ Reads)
  /\ WF_allListVars(part = "rooms" /\ Poll)
  /\ WF_allListVars(part = "rooms" /\ (RoomEvents \/ StreamOpensAgain))
  /\ SF_allListVars(part = "rooms" /\ \E i \in DOMAIN views : i = 1 /\ ViewServed(i))
  /\ SF_allListVars(part = "rooms" /\ \E i \in DOMAIN views : i = 1 /\ ViewAnswered(i))

FairSpec == Init /\ [][Next]_<<part, floorVars, dndVars, allListVars>> /\ Fairness

\* RoomsCatchUp, of the behaviours that move the list: whatever was lost, crossed or
\* counted twice on the way, the list of rooms agrees with the server's for good once
\* nothing changes there any more.
ListCatchesUp == <>[](part = "rooms" => RoomsAgree)
===============================================================================
