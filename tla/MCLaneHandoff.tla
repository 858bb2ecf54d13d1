----------------------------- MODULE MCLaneHandoff -----------------------------
(***************************************************************************)
(* Instance of LaneHandoff for TLC: between them the two tickers show      *)
(* every result a slice can have.                                          *)
(***************************************************************************)
EXTENDS LaneHandoff, TLC

CONSTANTS a, b

MCSlices == a :> {"complete", "failed"} @@ b :> {"usable", "empty", "raised"}
===============================================================================
