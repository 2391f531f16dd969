---------------------------- MODULE MCStockCount ----------------------------
(***************************************************************************)
(* One article of which one unit is in stock, counted with one phone; a     *)
(* person may type the total 0 instead of scanning.                         *)
(***************************************************************************)
EXTENDS StockCount, TLC

CONSTANTS p1, screws

MCPhone == {p1}
MCSku == {screws}
MCAmount == {0}
MCInStock == screws :> 1
=============================================================================
