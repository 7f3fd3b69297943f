-------------------------------- MODULE MCPhone --------------------------------
(***************************************************************************)
(* Small instances, for TLC, of what a call in the panel goes through: the *)
(* tab's phone, the tabs of the browser, what is asked after the call, and *)
(* the app and the extension outside the panel; and, to share the work     *)
(* with MCPages, of a room of the team chat ("room" for its edits, "tray"  *)
(* for its files). The parts share no state here, so a behaviour moves one *)
(* of them, `part`, and leaves the others as they began: one run explores  *)
(* each part alone.                                                        *)
(*                                                                         *)
(* Bounds: the tabs of the browser carry the calls in TabCalls only; the   *)
(* room takes no files while its pages move, and asks for the newest page  *)
(* only while its files do.                                                *)
(***************************************************************************)
EXTENDS Softphone, Tabs, AfterCall, Bridge, Room

CONSTANT TabCalls

VARIABLE part

otherVars == <<phoneVars, tabVars, askVars, bridgeVars>>

Init ==
  /\ part \in {"line", "browser", "after", "outside", "room", "tray"}
  /\ PhoneInit /\ TabsInit /\ AskInit /\ BridgeInit
  /\ RoomInit

CarriesTabCalls == \A t \in Tabs : call'[t] \in TabCalls \cup {NoCall}

NoFiles == tray' = Empty
NoPages == \A k \in AskKinds \ {"load"} : asks'[k] = NoAsk

Next ==
  \/ part = "line" /\ PhoneNext /\ UNCHANGED <<part, tabVars, askVars, bridgeVars, allRoomVars>>
  \/ part = "browser" /\ TabsNext /\ CarriesTabCalls
     /\ UNCHANGED <<part, phoneVars, askVars, bridgeVars, allRoomVars>>
  \/ part = "after" /\ AskNext /\ UNCHANGED <<part, phoneVars, tabVars, bridgeVars, allRoomVars>>
  \/ part = "outside" /\ BridgeNext /\ UNCHANGED <<part, phoneVars, tabVars, askVars, allRoomVars>>
  \/ part = "room" /\ RoomNext /\ NoFiles /\ UNCHANGED <<part, otherVars>>
  \/ part = "tray" /\ RoomNext /\ NoPages /\ UNCHANGED <<part, otherVars>>

vars == <<part, otherVars, allRoomVars>>
Spec == Init /\ [][Next]_vars
===============================================================================
