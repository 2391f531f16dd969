--------------------------- MODULE MCPurchaseOrder ---------------------------
(***************************************************************************)
(* One order of two lines, two units of one article and one of another, of  *)
(* which two units were in stock already, and two requests at a time.       *)
(***************************************************************************)
EXTENDS PurchaseOrder, TLC

CONSTANTS c1, c2, screws, nuts

MCClerk == {c1, c2}
MCLine == {screws, nuts}
MCOrdered == screws :> 2 @@ nuts :> 1
MCInStock == screws :> 2 @@ nuts :> 0

Requests == Permutations(MCClerk)
=============================================================================
