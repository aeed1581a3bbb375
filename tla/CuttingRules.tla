---------------------------- MODULE CuttingRules ----------------------------
(***************************************************************************)
(* The arithmetic of cutting paper (production-rules.ts).                  *)
(*                                                                         *)
(* Lengths are whole numbers of half an inch, as the sizes offered are.    *)
(* Sheets are counted in ten-thousandths, the scale of the Decimal(10, 4)  *)
(* columns and of every rounding in the code.                              *)
(***************************************************************************)
EXTENDS Integers

Whole == 10000

Size == [length : Nat \ {0}, breadth : Nat \ {0}]

Area(size) == size.length * size.breadth

\* calculateCuttingMetrics: by area, not by laying the cuts out.  Zero is the
\* error "does not fit inside source sheet".
CutOuts(paper, cut) == Area(paper) \div Area(cut)

\* Mutant of SheetFraction: a part of a sheet is left out.
SheetFractionDown(cuts, n) == Whole * (cuts \div n)

\* calculateSheetFractionUsed: n cutouts to a sheet, rounded to the nearest.
SheetFraction(cuts, n) == (2 * Whole * cuts + n) \div (2 * n)

\* calculateSourceSheetsRequired, in sheets.
SheetsRequired(quantity, n) == (quantity + n - 1) \div n

\* The comparison of validateCuttingOperation and previewCutting, within the
\* tolerance 0.0001.
Suffices(available, used) == used <= available + 1
=============================================================================
