------------------------- MODULE MCOrderSubmission -------------------------
(***************************************************************************)
(* A cart of two articles, either of which can be ordered as recommended or *)
(* as modified; another user's order can take a number meanwhile.  A change *)
(* is told apart by the line's status, so one quantity is enough.           *)
(***************************************************************************)
EXTENDS OrderSubmission, TLC

CONSTANTS screws, nuts

MCSku == {screws, nuts}
MCQty == {1}
Articles == Permutations(MCSku)
=============================================================================
