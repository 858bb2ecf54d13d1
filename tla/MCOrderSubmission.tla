--------------------------- MODULE MCOrderSubmission ---------------------------
(* Instance of OrderSubmission for TLC: two request slots, so that handlers
   overlap and a slot can approve before it submits. *)
EXTENDS OrderSubmission, TLC

\* Slots, revisions and reports are interchangeable in every definition.
Symmetry == Permutations(Requests) \cup Permutations(Revisions) \cup Permutations(Reports)
===============================================================================
