---------------------------- MODULE ServiceCosts ----------------------------
(***************************************************************************)
(* What a production order costs, computed from its rows: the service line *)
(* of each task (operation-services.ts), the factory labour and the paper, *)
(* and the totals recalcTotals stores on the order.                        *)
(*                                                                         *)
(* Amounts are integers, in the smallest unit of a Decimal(15, 2) column;  *)
(* NULL is a column that is not set.                                       *)
(***************************************************************************)
EXTENDS Integers, FiniteSets, Functions

CONSTANTS
  RowIds,    \* primary keys of materials, tasks and activities of orders
  Items,     \* inventory items
  Paper,     \* those of item type "paper"
  NULL

ASSUME ServiceCostsAssumption ==
  /\ NULL \notin Int
  /\ IsFiniteSet(RowIds)
  /\ Paper \subseteq Items

Maybe(S) == S \cup {NULL}

CountColumns == {"cutQuantity", "numberOfDesigns", "ctpPlates",
  "printImpressions", "laminationSheetsCount", "quantityFinished",
  "twistedHandles", "quantityItemFinished"}
CostColumns == {"costPerCut", "ctpCostPerColor", "printCostPerColor",
  "printCostPerImpression", "costPerDiecut", "glossCost", "matteCost",
  "costPerFinish", "bagBaseCost", "costPerPackaging", "labourCost",
  "costPerSheet"}
Columns == CountColumns \cup CostColumns

Stages == {"PAPER_SELECTION", "CUTTING", "ARTWORK_DESIGN", "CTP_MAKING",
           "PRINTING", "DIECUTTING", "LAMINATION", "FINISHING", "PACKAGING"}

\* cutOuts stands for paperSize and cutSize: NULL when one of them is unset
\* or the cut does not fit the sheet.  bagBaseCost stands for bagBaseSize.
Task == [table : {"task"}, stage : Stages, matte : BOOLEAN,
         cutOuts : Maybe(Nat \ {0}), column : [Columns -> Maybe(Nat)]]
Material == [table : {"material"}, item : Items, lineTotal : Nat]
Activity == [table : {"activity"}, quantityFinished : Nat,
             costPerFinish : Maybe(Nat)]

Content == Task \cup Material \cup Activity

Positive(n) == n # NULL /\ n > 0

-----------------------------------------------------------------------------
(* buildOperationServiceLine *)

Cost(t, column) == IF t.column[column] = NULL THEN 0 ELSE t.column[column]

\* resolveQuantity: a count that is missing or zero falls back.
Count(t, column, fallback) ==
  IF Positive(t.column[column]) THEN t.column[column] ELSE fallback

\* Where each stage takes its count and its unit cost from.
CountColumn(t) ==
  CASE t.stage \in {"PAPER_SELECTION", "CUTTING"} -> "cutQuantity"
    [] t.stage = "ARTWORK_DESIGN" -> "numberOfDesigns"
    [] t.stage = "CTP_MAKING"     -> "ctpPlates"
    [] t.stage = "PRINTING"       -> "printImpressions"
    [] t.stage = "DIECUTTING"     -> IF t.column["cutQuantity"] # NULL
                                     THEN "cutQuantity" ELSE "printImpressions"
    [] t.stage = "LAMINATION"     -> "laminationSheetsCount"
    [] t.stage = "FINISHING"      -> "quantityFinished"
    [] t.stage = "PACKAGING"      -> "quantityItemFinished"

\* A printing priced by colour, not by impression, is one unit of service.
PricedByColour(t) ==
  t.stage = "PRINTING" /\ t.column["printCostPerImpression"] = NULL

UnitCost(t) ==
  CASE t.stage \in {"PAPER_SELECTION", "CUTTING"} -> Cost(t, "costPerCut")
    [] t.stage = "ARTWORK_DESIGN" -> 0
    [] t.stage = "CTP_MAKING"     -> Cost(t, "ctpCostPerColor")
    [] t.stage = "PRINTING"       -> IF PricedByColour(t)
                                     THEN Cost(t, "printCostPerColor")
                                     ELSE Cost(t, "printCostPerImpression")
    [] t.stage = "DIECUTTING"     -> Cost(t, "costPerDiecut")
    [] t.stage = "LAMINATION"     -> IF t.matte THEN Cost(t, "matteCost")
                                     ELSE Cost(t, "glossCost")
    [] t.stage = "FINISHING"      -> Cost(t, "costPerFinish")
                                       + Cost(t, "bagBaseCost")
    [] t.stage = "PACKAGING"      -> Cost(t, "costPerPackaging")

\* Designs and plates fall back to one, the other stages to the order.
ServiceQuantity(t, quantity) ==
  LET fallback == IF t.stage \in {"ARTWORK_DESIGN", "CTP_MAKING"} THEN 1
                  ELSE IF quantity > 0 THEN quantity ELSE 1
  IN  IF PricedByColour(t) THEN 1
      ELSE Count(t, CountColumn(t), fallback)

TwistedHandleUnitCost == 6500

\* The merged selection and cutting stage is billed only when cuts are set;
\* handles are counted per order, not per piece.
ServiceTotal(t, quantity) ==
  IF t.stage = "PAPER_SELECTION" /\ ~Positive(t.column["cutQuantity"]) THEN 0
  ELSE ServiceQuantity(t, quantity) * UnitCost(t)
         + IF t.stage = "FINISHING"
           THEN Count(t, "twistedHandles", 0) * TwistedHandleUnitCost ELSE 0

-----------------------------------------------------------------------------
(* recalcTotals, over the rows of one order: a function from their keys *)

OfTable(rows, table) == {r \in DOMAIN rows : rows[r].table = table}

\* The sum of what each of some rows amounts to.
TotalOver(amount) == SumFunctionOnSet(amount, DOMAIN amount)

HasPaperMaterial(rows) ==
  \E r \in OfTable(rows, "material") : rows[r].item \in Paper

\* roundToTwo(costPerSheet / cutOuts)
PaperCostPerPiece(t) ==
  (2 * t.column["costPerSheet"] + t.cutOuts) \div (2 * t.cutOuts)

\* The paper of a task is charged only while no paper material is.
PricedPaper(rows) ==
  {r \in OfTable(rows, "task") : /\ ~HasPaperMaterial(rows)
                                 /\ rows[r].cutOuts # NULL
                                 /\ Positive(rows[r].column["costPerSheet"])}

DerivedPaperCost(rows, quantity) ==
  TotalOver([r \in PricedPaper(rows) |-> PaperCostPerPiece(rows[r]) * quantity])

PricedActivities(rows) ==
  {r \in OfTable(rows, "activity") : rows[r].costPerFinish # NULL}

FactoryLabour(rows) ==
  TotalOver([r \in PricedActivities(rows) |->
               rows[r].quantityFinished * rows[r].costPerFinish])

MaterialsTotal(rows) ==
  TotalOver([r \in OfTable(rows, "material") |-> rows[r].lineTotal])

ServicesTotal(rows, quantity) ==
  TotalOver([r \in OfTable(rows, "task") |-> ServiceTotal(rows[r], quantity)])

TaskLabour(rows) ==
  TotalOver([r \in OfTable(rows, "task") |-> Cost(rows[r], "labourCost")])

Subtotal(rows, quantity) ==
  MaterialsTotal(rows) + ServicesTotal(rows, quantity)
    + DerivedPaperCost(rows, quantity)

LabourCost(rows) == TaskLabour(rows) + FactoryLabour(rows)

\* grandTotal is their sum and is stored with them.
TotalsOf(rows, quantity) ==
  [subtotal   |-> Subtotal(rows, quantity),
   labourCost |-> LabourCost(rows),
   grandTotal |-> Subtotal(rows, quantity) + LabourCost(rows)]

-----------------------------------------------------------------------------
(* repeatProductionOrder *)

\* The columns the copy of a task keeps.
Repeated(t) ==
  [t EXCEPT !.column = [c \in Columns |->
     IF c \in {"cutQuantity", "costPerCut", "costPerSheet", "ctpCostPerColor",
               "printCostPerColor", "glossCost", "matteCost", "costPerDiecut",
               "twistedHandles", "costPerFinish", "labourCost"}
     THEN t.column[c] ELSE NULL]]
=============================================================================
