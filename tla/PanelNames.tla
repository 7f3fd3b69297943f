------------------------------ MODULE PanelNames ------------------------------
(***************************************************************************)
(* What the panel's modules share: the calls of a run have one name in all  *)
(* of them, and so have the tabs of the browser; and what a form or a list  *)
(* is made of is put together in one way.                                   *)
(***************************************************************************)
CONSTANTS Calls, NoCall, Tabs

ASSUME NoCallAssumption == NoCall \notin Calls

\* The details of f and those of g; a detail both name is f's.
f ++ g == [x \in DOMAIN f \cup DOMAIN g |-> IF x \in DOMAIN f THEN f[x] ELSE g[x]]
===============================================================================
