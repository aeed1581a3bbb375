--------------------------- MODULE MCOrderTotals ---------------------------
(***************************************************************************)
(* Instances of OrderTotals for TLC.                                       *)
(***************************************************************************)
EXTENDS OrderTotals, TLC

CONSTANTS o1, o2, r1, r2, s1, s2, paper, handle

Columns0 == [c \in Columns |-> NULL]

\* A printing that carries the paper it is done on; paper as a material; an
\* activity with and without a price.
MCPrinting ==
  [table |-> "task", stage |-> "PRINTING", matte |-> FALSE, cutOuts |-> 2,
   column |-> [Columns0 EXCEPT !["costPerSheet"] = 5, !["printCostPerColor"] = 7,
                               !["labourCost"] = 3]]
MCPaper == [table |-> "material", item |-> paper, lineTotal |-> 11]
MCActivity(n) == [table |-> "activity", quantityFinished |-> n,
                  costPerFinish |-> 13]

MCContents == {MCPrinting, MCPaper, MCActivity(1), MCActivity(2)}
MCUnpriced == [MCActivity(1) EXCEPT !.costPerFinish = NULL]
MCMoves == {MCUnpriced}

\* Where Ends is checked: two orders with an activity each, no price set.
MovesInit ==
  /\ row = (r1 :> [order |-> o1, content |-> MCUnpriced]
              @@ r2 :> [order |-> o2, content |-> MCUnpriced])
  /\ order = [o \in Orders |-> IF o \in {o1, o2} THEN
                 [quantity |-> 2, totals |-> [subtotal |-> 0, labourCost |-> 0,
                                              grandTotal |-> 0]] ELSE NULL]
  /\ slot = [s \in Slots |-> NULL]
  /\ raced = {}

MovesSpec == MovesInit /\ [][Next]_vars /\ Fairness

Symmetric == Permutations(Orders) \cup Permutations(RowIds) \cup Permutations(Slots)
=============================================================================
