------------------------------ MODULE MCTradePull ------------------------------
(***************************************************************************)
(* Instance of TradePull for TLC: a day of five slots in two windows, the  *)
(* first of three slots, pages of two rows.                                *)
(***************************************************************************)
EXTENDS TradePull

MCWindowOf == [s \in Slots |-> IF s < 4 THEN 1 ELSE 2]

Lane(windowed, cap, desc, session, again) ==
    [windowed |-> windowed, cap |-> cap, desc |-> desc, session |-> session, again |-> again]

\* The work queue's repair (windowed, uncapped), a capped one, a newest-first
\* one, one without windows, and one that pulls complete days again.
MCRepairs == {
    Lane(TRUE, 0, FALSE, Slots, FALSE),
    Lane(TRUE, 2, TRUE, Slots, FALSE),
    Lane(FALSE, 1, FALSE, Slots, FALSE),
    Lane(FALSE, 2, TRUE, Slots, TRUE)}

\* massive_live_trade_slices and massive_premarket_trade_slices.
MCSlices == {
    Lane(FALSE, 1, TRUE, Slots, FALSE),
    Lane(FALSE, 1, TRUE, {1}, FALSE)}
====
