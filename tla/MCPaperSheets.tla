--------------------------- MODULE MCPaperSheets ---------------------------
(***************************************************************************)
(* An instance of PaperSheets for TLC: two kinds of paper, one of which    *)
(* has its size in its name; the sheet 36x48 and the cuts 18x24 (four to a *)
(* sheet, so that a quarter is exact) and 12x22 (six to a sheet, so that a *)
(* sixth is rounded).                                                      *)
(***************************************************************************)
EXTENDS PaperSheets, TLC

CONSTANTS p1, p2, p3, card, kraft

Inches(l, b) == [length |-> 2 * l, breadth |-> 2 * b]
Sheet == Inches(36, 48)
Quarter == Inches(18, 24)
Sixth == Inches(12, 22)

MCNamedSize == [i \in Items |-> IF i = card THEN Sheet ELSE NULL]

Selecting == {[item |-> card, taken |-> 1], [item |-> kraft, paper |-> Sheet],
              [item |-> NULL]}
Cutting == {[link |-> p1, paper |-> Sheet, cut |-> Sixth, cuts |-> 7],
            [paper |-> Sheet, cut |-> Quarter, cuts |-> 5]}

MCChanges == [stage \in Stages |->
                IF stage = "CUTTING" THEN Cutting ELSE Selecting]

MCAmounts == [i \in Items |-> IF i = card THEN {2 * Whole} ELSE {}]

\* Only p1 is named in a change.
Symmetric == Permutations({p2, p3})
=============================================================================
