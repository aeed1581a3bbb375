------------------------- MODULE PaperSheets_proofs -------------------------
(***************************************************************************)
(* Proofs about the paper of an order, in four parts: the arithmetic of    *)
(* cutting, for every size and quantity; the types of the rows and of the  *)
(* materials; what is kept in step with the selections (paper, and the     *)
(* sheets used); and the cuts that the sheets taken give.                  *)
(***************************************************************************)
EXTENDS PaperSheets, InductionLemmas

-----------------------------------------------------------------------------
(* The arithmetic of cutting *)

\* A quotient times its divisor, and what is left.
LEMMA DivisionAlgorithm ==
  ASSUME NEW m \in Int, NEW d \in Nat \ {0}
  PROVE  /\ m \div d \in Int
         /\ d * (m \div d) <= m
         /\ m < d * (m \div d) + d
  OBVIOUS

\* d copies of a smaller number are at most d copies of a larger one.
LEMMA TimesMonotone ==
  ASSUME NEW d \in Nat \ {0}, NEW a \in Int, NEW b \in Int
  PROVE  d * a < d * b + d <=> a <= b
  OBVIOUS

\* The cutouts counted for a sheet are the most that its area allows: one more
\* would need more paper than the sheet has (calculateCuttingMetrics).
THEOREM CutOutsFillTheArea ==
  ASSUME NEW paper \in Size, NEW cut \in Size
  PROVE  /\ CutOuts(paper, cut) \in Nat
         /\ Area(cut) * CutOuts(paper, cut) <= Area(paper)
         /\ Area(paper) < Area(cut) * CutOuts(paper, cut) + Area(cut)
<1>1. Area(paper) \in Nat \ {0} /\ Area(cut) \in Nat \ {0}
  BY DEF Area, Size
<1>2. /\ CutOuts(paper, cut) \in Int
      /\ Area(cut) * CutOuts(paper, cut) <= Area(paper)
      /\ Area(paper) < Area(cut) * CutOuts(paper, cut) + Area(cut)
  BY <1>1, DivisionAlgorithm DEF CutOuts
<1>3. CutOuts(paper, cut) \in Nat
  <2>1. Area(cut) * (-1) < Area(cut) * CutOuts(paper, cut)
    BY <1>1, <1>2
  <2> QED
    BY <1>1, <1>2, <2>1
<1> QED
  BY <1>2, <1>3

\* The sheets an order needs are enough for its quantity, and one sheet less
\* would not be (calculateSourceSheetsRequired).
THEOREM SheetsRequiredIsLeast ==
  ASSUME NEW quantity \in Nat, NEW n \in Nat \ {0}
  PROVE  /\ SheetsRequired(quantity, n) \in Int
         /\ quantity <= n * SheetsRequired(quantity, n)
         /\ n * SheetsRequired(quantity, n) < quantity + n
<1>1. quantity + n - 1 \in Int
  OBVIOUS
<1> QED
  BY <1>1, DivisionAlgorithm DEF SheetsRequired

\* Where a quotient lies.
LEMMA QuotientBounds ==
  ASSUME NEW m \in Int, NEW d \in Nat \ {0}, NEW a \in Int
  PROVE  /\ m < d * a + d => m \div d <= a
         /\ d * a <= m => a <= m \div d
<1> DEFINE k == m \div d
<1>1. k \in Int /\ d * k <= m /\ m < d * k + d
  BY DivisionAlgorithm
<1> HIDE DEF k
<1>2. /\ d * k < d * a + d <=> k <= a
      /\ d * a < d * k + d <=> a <= k
  BY <1>1, TimesMonotone
<1>3. /\ m < d * a + d => k <= a
      /\ d * a <= m => a <= k
  BY <1>1, <1>2
<1> QED
  BY <1>3 DEF k

\* Neither the rounding to ten-thousandths of a sheet nor the tolerance of
\* the comparison lets one cut too many through, or refuses one that fits,
\* while a sheet gives at most 6666 cutouts (validateCuttingOperation, for a
\* cutting that is checked against the sheets its selection took).
THEOREM SheetCheckIsExact ==
  ASSUME NEW n \in Nat \ {0}, n <= 6666, NEW cuts \in Nat, NEW sheets \in Nat
  PROVE  Suffices(Whole * sheets, SheetFraction(cuts, n)) <=> cuts <= n * sheets
<1> DEFINE m == 20000 * cuts + n
           d == 2 * n
           all == 10000 * sheets
<1>1. m \in Int /\ d \in Nat \ {0} /\ all \in Int /\ m \div d \in Int
  BY DivisionAlgorithm
<1>2. Suffices(Whole * sheets, SheetFraction(cuts, n)) <=> m \div d <= all + 1
  BY DEF Suffices, SheetFraction, Whole
<1>3. /\ m < d * all + d => m \div d <= all
      /\ d * (all + 2) <= m => all + 2 <= m \div d
  <2> HIDE DEF m, d, all
  <2> QED
    BY <1>1, QuotientBounds
<1> DEFINE room == n * sheets
<1>4. room \in Nat /\ d * all = 20000 * room /\ d * (all + 2) = 20000 * room + 4 * n
  OBVIOUS
<1> HIDE DEF room
<1>5. cuts <= room => 20000 * cuts + n < 20000 * room + 2 * n
  BY <1>4
<1>6. ~(cuts <= room) => 20000 * room + 4 * n <= 20000 * cuts + n
  BY <1>4
<1>7. cuts <= room => m \div d <= all
  BY <1>3, <1>4, <1>5
<1>8. ~(cuts <= room) => all + 2 <= m \div d
  BY <1>3, <1>4, <1>6
<1>9. m \div d <= all + 1 <=> cuts <= room
  <2> HIDE DEF m, d, all
  <2> QED
    BY <1>1, <1>4, <1>7, <1>8
<1> QED
  BY <1>2, <1>9 DEF room

\* The arithmetic of the model stays within the natural numbers.
LEMMA SheetsAreNat ==
  ASSUME NEW cuts \in Nat, NEW quantity \in Nat \ {0}, NEW n \in Nat \ {0}
  PROVE  /\ SheetFraction(cuts, n) \in Nat
         /\ Whole * SheetsRequired(quantity, n) \in Nat
<1>1. /\ 2 * Whole * cuts + n \in Int /\ 2 * n \in Nat \ {0}
      /\ (2 * n) * 0 <= 2 * Whole * cuts + n
  BY DEF Whole
<1>2. SheetFraction(cuts, n) \in Int /\ 0 <= SheetFraction(cuts, n)
  BY <1>1, DivisionAlgorithm, QuotientBounds DEF SheetFraction
<1>3. quantity + n - 1 \in Int /\ n * 0 <= quantity + n - 1
  OBVIOUS
<1>4. SheetsRequired(quantity, n) \in Int /\ 0 <= SheetsRequired(quantity, n)
  BY <1>3, DivisionAlgorithm, QuotientBounds DEF SheetsRequired
<1> QED
  BY <1>2, <1>4 DEF Whole

-----------------------------------------------------------------------------
(* The rows that were updated last *)

\* The rows of the table are finitely many.
LEMMA RowsFinite ==
  ASSUME NEW s \in SUBSET OpIds
  PROVE  IsFiniteSet(s)
  BY PaperSheetsAssumption, FS_Subset

\* Of any rows one was updated last.
LEMMA FirstIsIn ==
  ASSUME NEW after, NEW rows \in SUBSET OpIds, InTurn(after, rows),
         NEW s \in SUBSET rows, s # {}
  PROVE  First(after, s) \in s
<1> DEFINE F == {after[o] : o \in s}
<1>1. F # {} /\ \A a \in F : IsFiniteSet(a)
  BY RowsFinite DEF InTurn
<1>2. PICK o \in s : \A p \in s : Cardinality(after[o]) <= Cardinality(after[p])
  <2>1. PICK a \in F : \A b \in F : Cardinality(a) <= Cardinality(b)
    BY <1>1, SmallestSet
  <2> QED
    BY <2>1
<1>3. ASSUME NEW p \in after[o], p \in s PROVE FALSE
  <2>1. after[p] \subseteq after[o] /\ p \notin after[p]
    BY <1>3 DEF InTurn
  <2>2. after[o] # after[p] /\ IsFiniteSet(after[o])
    BY <1>1, <1>3, <2>1
  <2>3. Cardinality(after[p]) < Cardinality(after[o])
    BY <2>1, <2>2, FS_Subset, FS_CardinalityType
  <2>4. IsFiniteSet(after[p]) /\ IsFiniteSet(after[o])
    BY <1>1, <1>3
  <2> QED
    BY <1>2, <1>3, <2>3, <2>4, FS_CardinalityType
<1>4. after[o] \cap s = {}
  BY <1>3
<1> QED
  BY <1>4 DEF First

\* A row that is updated comes after all others.
LEMMA TouchedInTurn ==
  ASSUME TypeOK, NEW o \in OpIds
  PROVE  /\ Touched(o) \in [OpIds -> SUBSET OpIds]
         /\ InTurn(Touched(o), Live(ops) \cup {o})
<1>1. /\ newer \in [OpIds -> SUBSET OpIds] /\ InTurn(newer, Live(ops))
      /\ Live(ops) \subseteq OpIds
  BY DEF TypeOK, Live
<1> QED
  BY <1>1 DEF Touched, InTurn

\* Rows that are deleted leave the others in turn.
LEMMA DeletedInTurn ==
  ASSUME TypeOK, NEW gone,
         NEW after, after = [p \in OpIds |-> IF p \in gone THEN {}
                                             ELSE newer[p] \ gone]
  PROVE  /\ after \in [OpIds -> SUBSET OpIds]
         /\ InTurn(after, Live(ops) \ gone)
<1>1. /\ newer \in [OpIds -> SUBSET OpIds] /\ InTurn(newer, Live(ops))
      /\ Live(ops) \subseteq OpIds
  BY DEF TypeOK, Live
<1> QED
  BY <1>1 DEF InTurn

-----------------------------------------------------------------------------
(* Types *)

\* No row has a cut that does not fit its sheet.
Table(t) ==
  /\ t \in [OpIds -> Row \cup {NULL, DELETED}]
  /\ \A o \in Live(t) : Fits(t[o])

TypeInv == TypeOK /\ Table(ops)

LEMMA RowTyped ==
  ASSUME NEW t, Table(t), NEW o \in Live(t)
  PROVE  t[o] \in Row /\ Fits(t[o]) /\ o \in OpIds /\ o # NULL
BY PaperSheetsAssumption DEF Table, Live

LEMMA CutOutsAreNat ==
  ASSUME NEW paper \in Size, NEW cut \in Size
  PROVE  CutOuts(paper, cut) \in Nat
BY CutOutsFillTheArea

LEMMA UsageIsNat ==
  ASSUME NEW row \in Row, Fits(row)
  PROVE  Usage(row) \in Nat
<1>1. CASE row.paper = NULL \/ row.cut = NULL \/ row.cuts = NULL
  BY <1>1 DEF Usage
<1>2. CASE row.paper # NULL /\ row.cut # NULL /\ row.cuts # NULL
  <2>1. row.paper \in Size /\ row.cut \in Size /\ row.cuts \in Nat
    BY <1>2 DEF Row, Maybe, Count
  <2>2. CutOuts(row.paper, row.cut) \in Nat \ {0}
    BY <1>2, <2>1, CutOutsAreNat DEF Fits
  <2>3. OrderQuantity \in Nat \ {0}
    BY PaperSheetsAssumption DEF Count
  <2>4. SheetFraction(row.cuts, CutOuts(row.paper, row.cut)) \in Nat
    BY <2>1, <2>2, <2>3, SheetsAreNat
  <2> QED
    BY <1>2, <2>4 DEF Usage
<1> QED
  BY <1>1, <1>2

LEMMA UsageOfIsNat ==
  ASSUME NEW t, Table(t), NEW cs \in SUBSET Live(t)
  PROVE  UsageOf(t, cs) \in Nat
<1> DEFINE f == [c \in cs |-> Usage(t[c])]
<1>1. \A c \in cs : f[c] \in Nat
  BY RowTyped, UsageIsNat
<1>2. IsFiniteSet(cs)
  BY RowsFinite DEF Live
<1>3. SumFunctionOnSet(f, cs) \in Nat
  BY <1>1, <1>2, SumIsNat
<1> QED
  BY <1>3 DEF UsageOf, SumFunction

LEMMA UsedByIsNat ==
  ASSUME NEW t, Table(t), NEW s
  PROVE  UsedBy(t, s) \in Nat
BY UsageOfIsNat DEF UsedBy, Cuttings, At

\* The cutting that is picked for a selection is one that matches it.
LEMMA PickedMatches ==
  ASSUME NEW t, NEW after, InTurn(after, Live(t)), NEW s
  PROVE  Picked(t, after, s) \in Maybe(Live(t))
<1>1. /\ Linked(t, s) \in SUBSET Live(t) /\ Unlinked(t, s) \in SUBSET Live(t)
      /\ Live(t) \in SUBSET OpIds
  BY DEF Linked, Unlinked, Cuttings, At, Live
<1>2. ASSUME NEW cs \in SUBSET Live(t)
      PROVE  First(after, cs) \in Maybe(Live(t))
  <2>1. CASE cs = {}
    BY <2>1 DEF First, Maybe
  <2>2. CASE cs # {}
    BY <1>1, <2>2, FirstIsIn DEF Maybe
  <2> QED
    BY <2>1, <2>2
<1> QED
  BY <1>1, <1>2 DEF Picked

LEMMA RequiredIsNat ==
  ASSUME NEW t, Table(t), NEW after, InTurn(after, Live(t)),
         NEW s \in Selections(t)
  PROVE  Required(t, after, s) \in Nat
<1> DEFINE named == Supplied(t[s].paper, NamedSize[t[s].item])
           pick  == IF t[s].cut = NULL THEN Picked(t, after, s) ELSE NULL
           paper == IF named = NULL /\ pick # NULL THEN t[pick].paper ELSE named
           cut   == IF pick # NULL THEN t[pick].cut ELSE t[s].cut
<1>1. s \in Live(t) /\ t[s] \in Row /\ t[s].item \in Items
  BY RowTyped DEF Selections, At, Row, Maybe
<1>2. named \in Maybe(Size)
  BY <1>1, PaperSheetsAssumption DEF Supplied, Row, Maybe
<1>3. pick \in Maybe(Live(t))
  BY PickedMatches DEF Maybe
<1> HIDE DEF named, pick
<1>4. pick # NULL => t[pick] \in Row
  BY <1>3, RowTyped DEF Maybe
<1>5. paper \in Maybe(Size) /\ cut \in Maybe(Size)
  BY <1>1, <1>2, <1>4 DEF Row
<1> HIDE DEF paper, cut
<1>6. Required(t, after, s) =
        IF paper = NULL \/ cut = NULL \/ CutOuts(paper, cut) = 0 THEN 0
        ELSE Whole * SheetsRequired(OrderQuantity, CutOuts(paper, cut))
  BY DEF Required, named, pick, paper, cut
<1>7. ASSUME paper # NULL, cut # NULL, CutOuts(paper, cut) # 0
      PROVE  Whole * SheetsRequired(OrderQuantity, CutOuts(paper, cut)) \in Nat
  <2>1. paper \in Size /\ cut \in Size
    BY <1>5, <1>7 DEF Maybe
  <2>2. CutOuts(paper, cut) \in Nat \ {0} /\ OrderQuantity \in Nat \ {0}
    BY <1>7, <2>1, CutOutsAreNat, PaperSheetsAssumption DEF Count
  <2> QED
    BY <2>2, SheetsAreNat
<1> QED
  BY <1>6, <1>7

LEMMA PlannedIsMaterial ==
  ASSUME NEW t, Table(t), NEW after, InTurn(after, Live(t)),
         NEW i \in Selected(t)
  PROVE  Planned(t, after, i) \in Material
<1> DEFINE of     == SelectionsOf(t, i)
           latest == First(after, of)
           need   == [s \in of \ {latest} |-> Required(t, after, s)]
           used   == [s \in of |-> UsedBy(t, s)]
<1>1. of \in SUBSET Live(t) /\ of \in SUBSET Selections(t) /\ of # {}
      /\ Live(t) \in SUBSET OpIds
  BY DEF SelectionsOf, Selected, Selections, At, Live
<1>2. latest \in of
  BY <1>1, FirstIsIn
<1>3. \A s \in of : Required(t, after, s) \in Nat /\ UsedBy(t, s) \in Nat
  BY <1>1, RequiredIsNat, UsedByIsNat
<1>4. IsFiniteSet(of) /\ IsFiniteSet(of \ {latest})
  BY <1>1, RowsFinite
<1> HIDE DEF of, latest
<1>5. SumFunction(need) \in Nat
  <2>1. \A s \in of \ {latest} : need[s] \in Nat
    BY <1>3
  <2> QED
    BY <1>4, <2>1, SumIsNat DEF SumFunction
<1>6. SumFunction(used) \in Nat
  <2>1. \A s \in of : used[s] \in Nat
    BY <1>3
  <2> QED
    BY <1>4, <2>1, SumIsNat DEF SumFunction
<1>7. Bigger(Required(t, after, latest), UsedBy(t, latest)) \in Nat
  BY <1>2, <1>3 DEF Bigger
<1>8. Planned(t, after, i) =
        [quantity |-> Bigger(Required(t, after, latest), UsedBy(t, latest))
                        + SumFunction(need),
         used     |-> SumFunction(used)]
  BY DEF Planned, of, latest
<1> HIDE DEF need, used
<1> QED
  BY <1>5, <1>6, <1>7, <1>8 DEF Material

LEMMA SyncedTyped ==
  ASSUME NEW t, Table(t), NEW after, InTurn(after, Live(t)), NEW stale,
         materials \in [Items -> Maybe(Material)]
  PROVE  Synced(t, after, stale) \in [Items -> Maybe(Material)]
<1>1. ASSUME NEW i \in Items, i \in Selected(t)
      PROVE  Synced(t, after, stale)[i] \in Material
  <2>1. PICK plan \in Material : plan = Planned(t, after, i)
    BY <1>1, PlannedIsMaterial
  <2>2. materials[i] # NULL => materials[i] \in Material
    BY DEF Maybe
  <2>3. Synced(t, after, stale)[i] =
          IF materials[i] = NULL THEN plan
          ELSE [plan EXCEPT !.quantity = Bigger(@, materials[i].quantity)]
    BY <1>1, <2>1 DEF Synced
  <2>4. ASSUME materials[i] # NULL
        PROVE  Bigger(plan.quantity, materials[i].quantity) \in Nat
    BY <2>2, <2>4 DEF Bigger, Material
  <2> QED
    BY <2>3, <2>4 DEF Material
<1>2. ASSUME NEW i \in Items, i \notin Selected(t)
      PROVE  Synced(t, after, stale)[i] \in Maybe(Material)
  BY <1>2 DEF Synced, Maybe
<1>3. Synced(t, after, stale) = [i \in Items |-> Synced(t, after, stale)[i]]
  BY DEF Synced
<1> QED
  BY <1>1, <1>2, <1>3 DEF Maybe

AllChanges == Changes["PAPER_SELECTION"] \cup Changes["CUTTING"]

LEMMA MergedTyped ==
  ASSUME NEW previous \in Row, NEW c \in AllChanges
  PROVE  Merge(previous, c) \in Row
<1> DEFINE row == Merge(previous, c)
<1>1. /\ DOMAIN row = Columns \cup {"stage"}
      /\ \A f \in Columns \cup {"stage"} :
           row[f] = IF f \in DOMAIN c THEN c[f] ELSE previous[f]
  BY DEF Merge, Row, Columns
<1>2. \A f \in DOMAIN c : f \in Columns /\ c[f] \in Maybe(ColumnType[f])
  BY PaperSheetsAssumption DEF AllChanges
<1> QED
  BY <1>1, <1>2 DEF Row, Columns, ColumnType, Maybe, Merge

-----------------------------------------------------------------------------
(* What a request does: it saves one row, deletes one or two, or changes   *)
(* one material by hand                                                    *)

Saves(o, previous, c, stale) ==
  /\ o \in OpIds /\ previous \in Row /\ c \in AllChanges
  /\ \/ o \in Live(ops) /\ previous = ops[o]
     \/ o \notin Live(ops) /\ previous \in {Blank(stage) : stage \in Stages}
  /\ (/\ previous.stage = "PAPER_SELECTION"
      /\ Merge(previous, c).item \notin {NULL, previous.item})
       => stale = previous.item
  /\ Save(o, previous, c, stale)

Without(gone) == [p \in OpIds |-> IF p \in gone THEN DELETED ELSE ops[p]]
LaterThan(gone) == [p \in OpIds |-> IF p \in gone THEN {} ELSE newer[p] \ gone]

\* o is deleted, with the cutting c if it is not NULL.
Deletes(o, c, stale) ==
  /\ ops[o].item # NULL => stale = ops[o].item
  /\ Sync(Without({o, c}), LaterThan({o, c}), stale)
  /\ UNCHANGED kept

ByHand(i, m) ==
  /\ materials' = [materials EXCEPT ![i] = m]
  /\ materials[i] = NULL => i \in kept'
  /\ kept' \in SUBSET Items /\ kept \subseteq kept'
  /\ UNCHANGED <<ops, newer>>

LEMMA BlankTyped ==
  ASSUME NEW stage \in Stages
  PROVE  /\ Blank(stage) \in Row /\ Blank(stage).stage = stage
         /\ Blank(stage).item = NULL
         /\ Blank(stage).paper = NULL /\ Blank(stage).cut = NULL
BY DEF Blank, Row, Maybe

LEMMA SavedFirst ==
  ASSUME TypeInv, NEW stage \in Stages, NEW c \in Changes[stage],
         NEW found \in SUBSET Live(ops),
         stage = "PAPER_SELECTION" =>
           \A o \in found : Sent(c, "item") \in {NULL, ops[o].item},
         stage = "CUTTING" => \A o \in found : ops[o].stage = "CUTTING",
         SaveFirst(found, stage, c)
  PROVE  \E o, previous : Saves(o, previous, c, NULL)
<1>1. c \in AllChanges
  BY DEF Stages, AllChanges
<1>2. CASE found # {}
  <2> DEFINE o == First(newer, found)
  <2>1. o \in found
    <3>1. InTurn(newer, Live(ops)) /\ Live(ops) \in SUBSET OpIds
      BY DEF TypeInv, TypeOK, Live
    <3> QED
      BY <1>2, <3>1, FirstIsIn
  <2>2. Save(o, ops[o], c, NULL)
    BY <1>2 DEF SaveFirst
  <2> HIDE DEF o
  <2>3. ops[o] \in Row /\ o \in Live(ops) /\ o \in OpIds
    BY <2>1, RowTyped DEF TypeInv
  <2>4. Merge(ops[o], c).item =
          IF "item" \in DOMAIN c THEN c["item"] ELSE ops[o].item
    BY <2>3 DEF Merge, Row
  <2>5. ops[o].stage = "PAPER_SELECTION" =>
          Merge(ops[o], c).item \in {NULL, ops[o].item}
    BY <2>1, <2>4 DEF Sent, Stages
  <2> QED
    BY <1>1, <2>2, <2>3, <2>5 DEF Saves
<1>3. CASE found = {}
  <2>1. PICK o \in OpIds : ops[o] = NULL /\ Save(o, Blank(stage), c, NULL)
    BY <1>3 DEF SaveFirst
  <2>2. Saves(o, Blank(stage), c, NULL)
    BY <1>1, <2>1, BlankTyped DEF Saves, Live
  <2> QED
    BY <2>2
<1> QED
  BY <1>2, <1>3

LEMMA SaveByIdIs ==
  ASSUME TypeInv, SaveById
  PROVE  \E o, previous, c, stale : Saves(o, previous, c, stale)
<1>1. PICK o \in Live(ops) : \E c \in Changes[ops[o].stage] :
        Save(o, ops[o], c, LeftItem(ops[o], Merge(ops[o], c)))
  BY DEF SaveById
<1>2. PICK c \in Changes[ops[o].stage] :
        Save(o, ops[o], c, LeftItem(ops[o], Merge(ops[o], c)))
  BY <1>1
<1>3. ops[o] \in Row /\ o \in OpIds
  BY RowTyped DEF TypeInv
<1>4. c \in AllChanges
  BY <1>3 DEF Row, Stages, AllChanges
<1>5. Saves(o, ops[o], c, LeftItem(ops[o], Merge(ops[o], c)))
  BY <1>2, <1>3, <1>4 DEF Saves, LeftItem
<1> QED
  BY <1>5

LEMMA SaveCuttingIs ==
  ASSUME TypeInv, SaveCutting
  PROVE  \E o, previous, c, stale : Saves(o, previous, c, stale)
<1> DEFINE Found(c) == {o \in At(ops, "CUTTING") :
                          /\ Sent(c, "link") # NULL
                          /\ ops[o].link = Sent(c, "link")}
<1>1. PICK c \in Changes["CUTTING"] : SaveFirst(Found(c), "CUTTING", c)
  BY DEF SaveCutting
<1>2. /\ Found(c) \in SUBSET Live(ops)
      /\ \A o \in Found(c) : ops[o].stage = "CUTTING"
      /\ "CUTTING" \in Stages /\ "CUTTING" # "PAPER_SELECTION"
  BY DEF At, Stages
<1> HIDE DEF Found
<1> QED
  BY <1>1, <1>2, SavedFirst

LEMMA SaveSelectionIs ==
  ASSUME TypeInv, SaveSelection
  PROVE  \E o, previous, c, stale : Saves(o, previous, c, stale)
<1> DEFINE Found(c) == {o \in At(ops, "PAPER_SELECTION") :
                          Sent(c, "item") \in {NULL, ops[o].item}}
<1>1. PICK c \in Changes["PAPER_SELECTION"] :
        SaveFirst(Found(c), "PAPER_SELECTION", c)
  BY DEF SaveSelection
<1>2. /\ Found(c) \in SUBSET Live(ops)
      /\ \A o \in Found(c) : Sent(c, "item") \in {NULL, ops[o].item}
      /\ "PAPER_SELECTION" \in Stages /\ "CUTTING" # "PAPER_SELECTION"
  BY DEF At, Stages
<1> HIDE DEF Found
<1> QED
  BY <1>1, <1>2, SavedFirst

LEMMA DeleteIs ==
  ASSUME TypeInv, DeleteOperation
  PROVE  \E o \in Live(ops) : \E c \in Maybe(At(ops, "CUTTING")), stale \in Maybe(Items) :
           Deletes(o, c, stale)
<1>1. PICK o \in Live(ops) :
        LET more == IF ops[o].stage = "CUTTING" THEN {} ELSE Cascade(o)
        IN  \E c \in IF more = {} THEN {NULL} ELSE more :
              LET gone  == {o, c}
                  stale == IF ops[o].item = NULL /\ c # NULL THEN ops[c].item
                           ELSE ops[o].item
              IN  /\ Sync([p \in OpIds |-> IF p \in gone THEN DELETED ELSE ops[p]],
                          [p \in OpIds |-> IF p \in gone THEN {}
                                           ELSE newer[p] \ gone],
                          stale)
                  /\ UNCHANGED kept
  BY DEF DeleteOperation
<1>2. Cascade(o) \subseteq At(ops, "CUTTING")
  BY DEF Cascade, Linked, Unlinked, Cuttings
<1> DEFINE more == IF ops[o].stage = "CUTTING" THEN {} ELSE Cascade(o)
           Stale(c) == IF ops[o].item = NULL /\ c # NULL THEN ops[c].item
                       ELSE ops[o].item
<1>3. PICK c \in IF more = {} THEN {NULL} ELSE more :
        /\ Sync(Without({o, c}), LaterThan({o, c}), Stale(c))
        /\ UNCHANGED kept
  BY <1>1 DEF Without, LaterThan
<1>4. c \in Maybe(At(ops, "CUTTING"))
  BY <1>2 DEF Maybe
<1>5. Stale(c) \in Maybe(Items)
  <2>1. ops[o] \in Row
    BY RowTyped DEF TypeInv
  <2>2. c # NULL => ops[c] \in Row
    BY <1>4, RowTyped DEF TypeInv, Maybe, At
  <2> QED
    BY <2>1, <2>2 DEF Row
<1>6. ops[o].item # NULL => Stale(c) = ops[o].item
  OBVIOUS
<1> HIDE DEF Stale
<1>7. Deletes(o, c, Stale(c))
  BY <1>3, <1>6 DEF Deletes
<1> QED
  BY <1>4, <1>5, <1>7

LEMMA ByHandIs ==
  ASSUME TypeInv, AddMaterial \/ UpdateMaterialUsage \/ RemoveMaterial
  PROVE  \E i \in Items : \E m \in Maybe(Material) : ByHand(i, m)
<1>1. /\ materials \in [Items -> Maybe(Material)] /\ kept \in SUBSET Items
      /\ Amounts \in [Items -> SUBSET Nat]
  BY PaperSheetsAssumption DEF TypeInv, TypeOK
<1>2. CASE AddMaterial
  <2>1. PICK i \in Items : \E q \in Amounts[i] :
          /\ materials' = [materials EXCEPT ![i] = [quantity |-> q, used |-> 0]]
          /\ kept' = kept \cup {i}
          /\ UNCHANGED <<ops, newer>>
    BY <1>2 DEF AddMaterial
  <2>2. PICK q \in Amounts[i] :
          /\ materials' = [materials EXCEPT ![i] = [quantity |-> q, used |-> 0]]
          /\ kept' = kept \cup {i}
          /\ UNCHANGED <<ops, newer>>
    BY <2>1
  <2>3. [quantity |-> q, used |-> 0] \in Material
    BY <1>1 DEF Material
  <2>4. ByHand(i, [quantity |-> q, used |-> 0])
    BY <1>1, <2>2 DEF ByHand
  <2> QED
    BY <2>3, <2>4 DEF Maybe
<1>3. CASE UpdateMaterialUsage
  <2>1. PICK i \in Items : \E q \in Amounts[i] :
          /\ materials[i] # NULL
          /\ materials' = [materials EXCEPT ![i].used = q]
          /\ UNCHANGED <<ops, newer, kept>>
    BY <1>3 DEF UpdateMaterialUsage
  <2>2. PICK q \in Amounts[i] :
          /\ materials[i] # NULL
          /\ materials' = [materials EXCEPT ![i].used = q]
          /\ UNCHANGED <<ops, newer, kept>>
    BY <2>1
  <2>3. materials[i] \in Material /\ q \in Nat
    BY <1>1, <2>2 DEF Maybe
  <2>4. [materials[i] EXCEPT !.used = q] \in Material
    BY <2>3 DEF Material
  <2>5. ByHand(i, [materials[i] EXCEPT !.used = q])
    BY <1>1, <2>2 DEF ByHand
  <2> QED
    BY <2>4, <2>5 DEF Maybe
<1>4. CASE RemoveMaterial
  <2>1. PICK i \in Items :
          /\ materials[i] # NULL
          /\ materials' = [materials EXCEPT ![i] = NULL]
          /\ UNCHANGED <<ops, newer, kept>>
    BY <1>4 DEF RemoveMaterial
  <2>2. ByHand(i, NULL)
    BY <1>1, <2>1 DEF ByHand
  <2> QED
    BY <2>2 DEF Maybe
<1> QED
  BY <1>2, <1>3, <1>4

\* Every request is one of the three.
LEMMA RequestIs ==
  ASSUME TypeInv, Next
  PROVE  \/ \E o, previous, c, stale : Saves(o, previous, c, stale)
         \/ \E o \in Live(ops) :
              \E c \in Maybe(At(ops, "CUTTING")), stale \in Maybe(Items) :
                Deletes(o, c, stale)
         \/ \E i \in Items : \E m \in Maybe(Material) : ByHand(i, m)
BY SaveByIdIs, SaveCuttingIs, SaveSelectionIs, DeleteIs, ByHandIs DEF Next

\* The table, and the order of its updates, after a save and after a delete.
LEMMA SavedTable ==
  ASSUME TypeInv, NEW o, NEW previous, NEW c, NEW stale,
         Saves(o, previous, c, stale)
  PROVE  /\ Merge(previous, c) \in Row /\ Fits(Merge(previous, c))
         /\ ops' = [ops EXCEPT ![o] = Merge(previous, c)]
         /\ newer' = Touched(o)
         /\ materials' = Synced(ops', newer', stale)
         /\ Live(ops') = Live(ops) \cup {o}
         /\ Table(ops')
         /\ newer' \in [OpIds -> SUBSET OpIds] /\ InTurn(newer', Live(ops'))
<1> DEFINE row == Merge(previous, c)
<1>1. row \in Row /\ Fits(row) /\ o \in OpIds
  BY MergedTyped DEF Saves, Save
<1>2. /\ ops' = [ops EXCEPT ![o] = row] /\ newer' = Touched(o)
      /\ materials' = Synced(ops', newer', stale)
  BY DEF Saves, Save, Sync
<1> HIDE DEF row
<1>3. /\ ops \in [OpIds -> Row \cup {NULL, DELETED}]
      /\ row \notin {NULL, DELETED}
  BY <1>1, PaperSheetsAssumption DEF TypeInv, TypeOK
<1>4. Live(ops') = Live(ops) \cup {o}
  BY <1>1, <1>2, <1>3 DEF Live
<1>5. Table(ops')
  <2>1. \A p \in Live(ops') :
          ops'[p] = row \/ (p \in Live(ops) /\ ops'[p] = ops[p])
    <3>1. Live(ops') \subseteq OpIds
      BY DEF Live
    <3>2. \A p \in OpIds : ops'[p] = IF p = o THEN row ELSE ops[p]
      BY <1>2, <1>3
    <3> QED
      BY <1>4, <3>1, <3>2
  <2> QED
    BY <1>1, <1>2, <1>3, <2>1 DEF Table, TypeInv
<1>6. newer' \in [OpIds -> SUBSET OpIds] /\ InTurn(newer', Live(ops'))
  BY <1>1, <1>2, <1>4, TouchedInTurn DEF TypeInv
<1> QED
  BY <1>1, <1>2, <1>4, <1>5, <1>6 DEF row

LEMMA DeletedTable ==
  ASSUME TypeInv, NEW o, NEW c, NEW stale, Deletes(o, c, stale)
  PROVE  /\ ops' = Without({o, c})
         /\ newer' = LaterThan({o, c})
         /\ materials' = Synced(ops', newer', stale)
         /\ Live(ops') = Live(ops) \ {o, c}
         /\ Table(ops')
         /\ newer' \in [OpIds -> SUBSET OpIds] /\ InTurn(newer', Live(ops'))
<1> DEFINE gone == {o, c}
<1>1. /\ ops' = Without(gone) /\ newer' = LaterThan(gone)
      /\ materials' = Synced(ops', newer', stale)
  BY DEF Deletes, Sync
<1> HIDE DEF gone
<1>2. Live(ops') = Live(ops) \ gone
  BY <1>1 DEF Live, Without
<1>3. Table(ops')
  <2>1. \A p \in Live(ops') : p \in Live(ops) /\ ops'[p] = ops[p]
    BY <1>1, <1>2 DEF Without, Live
  <2> QED
    BY <1>1, <2>1 DEF Table, TypeInv, TypeOK, Without
<1>4. newer' \in [OpIds -> SUBSET OpIds] /\ InTurn(newer', Live(ops'))
  BY <1>1, <1>2, DeletedInTurn DEF TypeInv, LaterThan
<1> QED
  BY <1>1, <1>2, <1>3, <1>4 DEF gone

LEMMA InitTypes == Init => TypeInv
<1> SUFFICES ASSUME Init PROVE TypeInv
  OBVIOUS
<1>1. Live(ops) = {}
  BY DEF Init, Live
<1>2. newer \in [OpIds -> SUBSET OpIds] /\ InTurn(newer, Live(ops))
  BY <1>1 DEF Init, InTurn
<1> QED
  BY <1>1, <1>2 DEF Init, TypeInv, TypeOK, Table, Maybe

LEMMA NextTypes == TypeInv /\ [Next]_vars => TypeInv'
<1> SUFFICES ASSUME TypeInv, [Next]_vars PROVE TypeInv'
  OBVIOUS
<1>1. CASE UNCHANGED vars
  BY <1>1 DEF vars, TypeInv, TypeOK
<1>2. ASSUME NEW o, NEW previous, NEW c, NEW stale, Saves(o, previous, c, stale)
      PROVE  TypeInv'
  <2>1. /\ Table(ops') /\ ops' \in [OpIds -> Row \cup {NULL, DELETED}]
        /\ newer' \in [OpIds -> SUBSET OpIds] /\ InTurn(newer', Live(ops'))
        /\ materials' = Synced(ops', newer', stale)
    BY <1>2, SavedTable DEF Table
  <2>2. materials' \in [Items -> Maybe(Material)]
    BY <2>1, SyncedTyped DEF TypeInv, TypeOK
  <2>3. kept' \in SUBSET Items
    <3>1. /\ kept' = kept \/ kept' = kept \cup {previous.item}
          /\ kept' # kept => previous.item # NULL
          /\ previous \in Row
      BY <1>2 DEF Saves, Save
    <3> QED
      BY <3>1 DEF TypeInv, TypeOK, Row, Maybe
  <2> QED
    BY <2>1, <2>2, <2>3 DEF TypeInv, TypeOK
<1>3. ASSUME NEW o, NEW c, NEW stale, Deletes(o, c, stale)
      PROVE  TypeInv'
  <2>1. /\ Table(ops') /\ ops' \in [OpIds -> Row \cup {NULL, DELETED}]
        /\ newer' \in [OpIds -> SUBSET OpIds] /\ InTurn(newer', Live(ops'))
        /\ materials' = Synced(ops', newer', stale)
    BY <1>3, DeletedTable DEF Table
  <2>2. materials' \in [Items -> Maybe(Material)]
    BY <2>1, SyncedTyped DEF TypeInv, TypeOK
  <2>3. kept' = kept
    BY <1>3 DEF Deletes
  <2> QED
    BY <2>1, <2>2, <2>3 DEF TypeInv, TypeOK
<1>4. ASSUME NEW i \in Items, NEW m \in Maybe(Material), ByHand(i, m)
      PROVE  TypeInv'
  BY <1>4 DEF ByHand, TypeInv, TypeOK
<1> QED
  BY <1>1, <1>2, <1>3, <1>4, RequestIs

\* Rows, the order of their updates and the materials stay what they should
\* be: in particular no plan has a negative quantity (upsertOperation,
\* deleteOperation, syncPaperSelectionMaterials).
THEOREM RowsAndMaterialsTyped == Spec => []TypeOK
<1>1. TypeInv => TypeOK
  BY DEF TypeInv
<1> QED
  BY <1>1, InitTypes, NextTypes, PTL DEF Spec

-----------------------------------------------------------------------------
(* What is kept in step with the selections *)

\* A paper that nobody selects any more only stays when it was there before
\* and no selection has just left it.
LEMMA UnselectedStays ==
  ASSUME TypeInv, NEW t, NEW after, NEW stale, NEW i \in Paper,
         i \notin Selected(t), Synced(t, after, stale)[i] # NULL
  PROVE  i # stale /\ materials[i] # NULL
BY PaperSheetsAssumption DEF Synced

LEMMA SaveKeepsSelected ==
  ASSUME TypeInv, PaperIsSelected, NEW o, NEW previous, NEW c, NEW stale,
         Saves(o, previous, c, stale)
  PROVE  PaperIsSelected'
<1> SUFFICES ASSUME NEW i \in Paper, i \notin kept', materials'[i] # NULL,
                    i \notin Selected(ops')
             PROVE  FALSE
  BY DEF PaperIsSelected
<1> DEFINE row == Merge(previous, c)
<1>1. /\ row \in Row /\ ops' = [ops EXCEPT ![o] = row]
      /\ materials' = Synced(ops', newer', stale)
      /\ Live(ops') = Live(ops) \cup {o}
  BY SavedTable
<1>2. i # stale /\ materials[i] # NULL
  BY <1>1, UnselectedStays
<1>3. i \notin kept
  BY DEF Saves, Save
<1>4. PICK s \in Selections(ops) : ops[s].item = i
  BY <1>2, <1>3 DEF PaperIsSelected, Selected
<1>5. /\ s \in Live(ops) /\ s \in OpIds /\ ops[s].stage = "PAPER_SELECTION"
      /\ i # NULL
  BY <1>4, RowTyped DEF Selections, At, TypeInv
<1>6. s = o
  <2>1. ASSUME s # o PROVE FALSE
    <3>1. ops'[s] = ops[s] /\ s \in Live(ops')
      BY <1>1, <1>5, <2>1 DEF TypeInv, TypeOK
    <3>2. s \in Selections(ops')
      BY <1>4, <1>5, <3>1 DEF Selections, At
    <3> QED
      BY <1>4, <3>1, <3>2 DEF Selected
  <2> QED
    BY <2>1
<1>7. previous = ops[o] /\ previous.item = i /\ previous.stage = "PAPER_SELECTION"
  BY <1>4, <1>5, <1>6 DEF Saves
<1>8. row.stage = previous.stage
  <2>1. previous \in Row /\ "stage" \notin DOMAIN c
    BY PaperSheetsAssumption DEF Saves, AllChanges, Columns
  <2> QED
    BY <2>1 DEF Merge, Row
<1>9. row.item # NULL
  BY <1>5, <1>7, <1>8 DEF Saves, Save
<1>10. row.item = i
  BY <1>2, <1>7, <1>9 DEF Saves
<1>11. o \in Live(ops') /\ ops'[o] = row
  BY <1>1, <1>5, <1>6 DEF TypeInv, TypeOK
<1>12. o \in Selections(ops')
  BY <1>7, <1>8, <1>9, <1>11 DEF Selections, At
<1> QED
  BY <1>10, <1>11, <1>12 DEF Selected

LEMMA DeleteKeepsSelected ==
  ASSUME TypeInv, PaperIsSelected, NEW o \in Live(ops),
         NEW c \in Maybe(At(ops, "CUTTING")), NEW stale, Deletes(o, c, stale)
  PROVE  PaperIsSelected'
<1> SUFFICES ASSUME NEW i \in Paper, i \notin kept', materials'[i] # NULL,
                    i \notin Selected(ops')
             PROVE  FALSE
  BY DEF PaperIsSelected
<1>1. /\ ops' = Without({o, c}) /\ materials' = Synced(ops', newer', stale)
      /\ Live(ops') = Live(ops) \ {o, c} /\ kept' = kept
  BY DeletedTable DEF Deletes
<1>2. i # stale /\ materials[i] # NULL
  BY <1>1, UnselectedStays
<1>3. PICK s \in Selections(ops) : ops[s].item = i
  BY <1>1, <1>2 DEF PaperIsSelected, Selected
<1>4. /\ s \in Live(ops) /\ s \in OpIds /\ ops[s].stage = "PAPER_SELECTION"
      /\ ops[s].item # NULL /\ s # NULL
  BY <1>3, RowTyped DEF Selections, At, TypeInv
<1>5. s # o
  BY <1>2, <1>3, <1>4 DEF Deletes
<1>6. s # c
  BY <1>4 DEF Maybe, At
<1>7. ops'[s] = ops[s] /\ s \in Live(ops')
  BY <1>1, <1>4, <1>5, <1>6 DEF Without
<1>8. s \in Selections(ops')
  BY <1>4, <1>7 DEF Selections, At
<1> QED
  BY <1>3, <1>7, <1>8 DEF Selected

LEMMA NextSelected == TypeInv /\ PaperIsSelected /\ [Next]_vars => PaperIsSelected'
<1> SUFFICES ASSUME TypeInv, PaperIsSelected, [Next]_vars PROVE PaperIsSelected'
  OBVIOUS
<1>1. CASE UNCHANGED vars
  BY <1>1 DEF vars, PaperIsSelected
<1>2. ASSUME NEW i \in Items, NEW m \in Maybe(Material), ByHand(i, m)
      PROVE  PaperIsSelected'
  <2>1. ASSUME NEW j \in Paper, j \notin kept', materials'[j] # NULL
        PROVE  materials[j] # NULL
    <3>1. j \in Items /\ materials \in [Items -> Maybe(Material)]
      BY PaperSheetsAssumption DEF TypeInv, TypeOK
    <3> QED
      BY <1>2, <2>1, <3>1 DEF ByHand
  <2> QED
    BY <1>2, <2>1 DEF ByHand, PaperIsSelected
<1> QED
  BY <1>1, <1>2, RequestIs, SaveKeepsSelected, DeleteKeepsSelected

\* In whatever order selections are moved from item to item, shared, cleared
\* and deleted, the paper of the order is selected, was added by hand, or was
\* cleared from its selection (syncPaperSelectionMaterials).
THEOREM PaperStaysSelected == Spec => []PaperIsSelected
<1>1. Init => PaperIsSelected
  BY PaperSheetsAssumption DEF Init, PaperIsSelected
<1> QED
  BY <1>1, InitTypes, NextTypes, NextSelected, PTL DEF Spec

\* Every cutting is summed under the one selection it is linked to, and every
\* selection under its one item.
LEMMA UsedOnce ==
  ASSUME NEW t, Table(t), NEW used,
         \A i \in Selected(t) :
           used[i] = SumFunction([s \in SelectionsOf(t, i) |-> UsedBy(t, s)]),
         \A c \in At(t, "CUTTING") : t[c].link \in Selections(t)
  PROVE  UsageOf(t, At(t, "CUTTING"))
           = SumFunction([i \in Selected(t) |-> used[i]])
<1> DEFINE cuttings == At(t, "CUTTING")
           chosen   == Selections(t)
           items    == Selected(t)
           usage    == [c \in cuttings |-> Usage(t[c])]
           link     == [c \in cuttings |-> t[c].link]
           drawn    == [s \in chosen |-> UsedBy(t, s)]
           item     == [s \in chosen |-> t[s].item]
<1>1. /\ IsFiniteSet(cuttings) /\ IsFiniteSet(chosen) /\ IsFiniteSet(items)
      /\ cuttings \in SUBSET Live(t) /\ NULL \notin chosen
  <2>1. cuttings \in SUBSET OpIds /\ chosen \in SUBSET OpIds
    BY DEF Selections, At, Live
  <2>2. IsFiniteSet(chosen)
    BY <2>1, RowsFinite
  <2>3. item \in Surjection(chosen, items)
    BY DEF Selected, Surjection
  <2>4. IsFiniteSet(items)
    BY <2>2, <2>3, FS_Surjection
  <2> QED
    BY <2>1, <2>4, RowsFinite, PaperSheetsAssumption DEF At
<1>2. \A c \in cuttings : usage[c] \in Int
  BY <1>1, RowTyped, UsageIsNat
<1>3. \A s \in chosen : drawn[s] \in Int
  BY UsedByIsNat
<1>4. ASSUME NEW s \in chosen
      PROVE  SumFunctionOnSet(usage, {c \in cuttings : link[c] = s}) = drawn[s]
  <2> DEFINE cs == Cuttings(t, s)
             f == [c \in cs |-> Usage(t[c])]
  <2>1. cs = {c \in cuttings : link[c] = s}
    BY <1>1 DEF Cuttings, Matches
  <2>2. IsFiniteSet(cs) /\ cs \subseteq cuttings
    BY <1>1, <2>1, FS_Subset
  <2>3. \A c \in cs : f[c] = usage[c]
    BY <2>2
  <2>4. drawn[s] = SumFunctionOnSet(f, cs)
    BY DEF UsedBy, UsageOf, SumFunction
  <2> HIDE DEF cs, f, usage, cuttings, link, drawn
  <2> QED
    BY <2>1, <2>2, <2>3, <2>4, SumOfSame
<1>5. SumFunctionOnSet(usage, cuttings) = SumFunctionOnSet(drawn, chosen)
  <2>1. \A c \in cuttings : link[c] \in chosen
    OBVIOUS
  <2> HIDE DEF usage, link, cuttings, chosen
  <2>2. SumFunctionOnSet(usage, cuttings) =
          SumFunctionOnSet(
            [s \in chosen |->
               SumFunctionOnSet(usage, {c \in cuttings : link[c] = s})], chosen)
    BY <1>1, <1>2, <2>1, SumOfParts
  <2>3. drawn = [s \in chosen |->
                   SumFunctionOnSet(usage, {c \in cuttings : link[c] = s})]
    BY <1>4
  <2> QED
    BY <2>2, <2>3
<1>6. ASSUME NEW i \in items
      PROVE  SumFunctionOnSet(drawn, {s \in chosen : item[s] = i}) = used[i]
  <2> DEFINE of == SelectionsOf(t, i)
             f == [s \in of |-> UsedBy(t, s)]
  <2>1. of = {s \in chosen : item[s] = i}
    BY DEF SelectionsOf
  <2>2. IsFiniteSet(of) /\ of \subseteq chosen
    BY <1>1, <2>1, FS_Subset
  <2>3. \A s \in of : f[s] = drawn[s]
    BY <2>2
  <2>4. used[i] = SumFunctionOnSet(f, of)
    BY DEF SumFunction
  <2> HIDE DEF of, f, drawn, chosen, item
  <2> QED
    BY <2>1, <2>2, <2>3, <2>4, SumOfSame
<1>7. SumFunctionOnSet(drawn, chosen) =
        SumFunctionOnSet([i \in items |-> used[i]], items)
  <2>1. \A s \in chosen : item[s] \in items
    BY DEF Selected
  <2> HIDE DEF drawn, item, chosen, items
  <2>2. SumFunctionOnSet(drawn, chosen) =
          SumFunctionOnSet(
            [i \in items |->
               SumFunctionOnSet(drawn, {s \in chosen : item[s] = i})], items)
    BY <1>1, <1>3, <2>1, SumOfParts
  <2>3. [i \in items |-> used[i]] =
          [i \in items |->
             SumFunctionOnSet(drawn, {s \in chosen : item[s] = i})]
    BY <1>6
  <2> QED
    BY <2>2, <2>3
<1> QED
  BY <1>5, <1>7 DEF UsageOf, SumFunction

\* The materials of the selected items have used what their selections have.
LEMMA SyncedUsed ==
  ASSUME TypeInv, NEW t, Table(t), NEW after, NEW stale,
         NEW i \in Selected(t)
  PROVE  Synced(t, after, stale)[i].used =
           SumFunction([s \in SelectionsOf(t, i) |-> UsedBy(t, s)])
<1>1. i \in Items
  BY RowTyped DEF Selected, Selections, At, Row, Maybe
<1> DEFINE plan == Planned(t, after, i)
<1>2. plan.used = SumFunction([s \in SelectionsOf(t, i) |-> UsedBy(t, s)])
  BY DEF Planned
<1>3. \E q : plan = [quantity |-> q, used |-> plan.used]
  BY DEF Planned
<1> HIDE DEF plan
<1>4. Synced(t, after, stale)[i] =
        IF materials[i] = NULL THEN plan
        ELSE [plan EXCEPT !.quantity = Bigger(@, materials[i].quantity)]
  BY <1>1 DEF Synced, plan
<1>5. Synced(t, after, stale)[i].used = plan.used
  BY <1>3, <1>4
<1> QED
  BY <1>2, <1>5

\* No save and no delete charges a sheet twice or forgets one, as long as each
\* cutting is linked to a selection of some item.
THEOREM SheetsChargedOnce == Spec => SheetsCountOnce
<1>1. TypeInv /\ TypeInv' /\ [Next]_vars => ChargedOnce
  <2> SUFFICES ASSUME TypeInv, TypeInv', [Next]_vars, ops' # ops,
                      \A c \in At(ops', "CUTTING") :
                        ops'[c].link \in Selections(ops')
               PROVE  UsageOf(ops', At(ops', "CUTTING"))
                        = SumFunction([i \in Selected(ops') |-> materials'[i].used])
    BY DEF ChargedOnce
  <2>1. PICK stale : materials' = Synced(ops', newer', stale)
    <3>1. ~ UNCHANGED vars /\ ~ \E i, m : ByHand(i, m)
      BY DEF vars, ByHand
    <3>2. Next
      BY <3>1
    <3> QED
      BY <3>1, <3>2, RequestIs, SavedTable, DeletedTable
  <2> DEFINE used == [i \in Selected(ops') |-> materials'[i].used]
  <2>2. Table(ops')
    BY DEF TypeInv
  <2>3. \A i \in Selected(ops') :
          used[i] = SumFunction([s \in SelectionsOf(ops', i) |-> UsedBy(ops', s)])
    BY <2>1, <2>2, SyncedUsed
  <2>4. used = [i \in Selected(ops') |-> used[i]]
    OBVIOUS
  <2> HIDE DEF used
  <2>5. UsageOf(ops', At(ops', "CUTTING"))
          = SumFunction([i \in Selected(ops') |-> used[i]])
    BY <2>2, <2>3, UsedOnce
  <2> QED
    BY <2>4, <2>5 DEF used
<1> QED
  BY <1>1, InitTypes, NextTypes, PTL DEF Spec, SheetsCountOnce

-----------------------------------------------------------------------------
(* The cuts that the sheets taken give *)

\* What clients send for a column.
Given(column) == {c[column] : c \in {d \in AllChanges : column \in DOMAIN d}}

\* No cut that clients send is so small that a sheet they send gives more than
\* 6666 of it: a ten-thousandth of a sheet, and the tolerance, would be worth
\* more than one cut (SheetCheckIsExact).
FewCutOuts ==
  \A paper \in Given("paper") \ {NULL}, cut \in Given("cut") \ {NULL} :
    CutOuts(paper, cut) <= 6666

SizesGiven ==
  \A o \in Live(ops) : /\ ops[o].paper \in Maybe(Given("paper"))
                       /\ ops[o].cut \in Maybe(Given("cut"))

LEMMA MergedSizes ==
  ASSUME NEW previous \in Row, NEW c \in AllChanges,
         previous.paper \in Maybe(Given("paper")),
         previous.cut \in Maybe(Given("cut"))
  PROVE  /\ Merge(previous, c).paper \in Maybe(Given("paper"))
         /\ Merge(previous, c).cut \in Maybe(Given("cut"))
<1>1. \A f \in {"paper", "cut"} :
        Merge(previous, c)[f] = IF f \in DOMAIN c THEN c[f] ELSE previous[f]
  BY DEF Merge, Row
<1>2. \A f \in DOMAIN c : c[f] \in Given(f)
  BY DEF Given
<1> QED
  BY <1>1, <1>2 DEF Maybe

LEMMA SavedSizes ==
  ASSUME TypeInv, SizesGiven, NEW o, NEW previous, NEW c, NEW stale,
         Saves(o, previous, c, stale), previous.paper \in Maybe(Given("paper")),
         previous.cut \in Maybe(Given("cut"))
  PROVE  SizesGiven'
<1> DEFINE row == Merge(previous, c)
<1>1. /\ ops' = [ops EXCEPT ![o] = row] /\ Live(ops') = Live(ops) \cup {o}
  BY SavedTable
<1>2. row.paper \in Maybe(Given("paper")) /\ row.cut \in Maybe(Given("cut"))
  BY MergedSizes DEF Saves
<1> HIDE DEF row
<1>3. \A p \in Live(ops') :
        ops'[p] = row \/ (p \in Live(ops) /\ ops'[p] = ops[p])
  <2>1. \A p \in OpIds : ops'[p] = IF p = o THEN row ELSE ops[p]
    BY <1>1 DEF TypeInv, TypeOK
  <2>2. Live(ops') \subseteq OpIds
    BY DEF Live
  <2> QED
    BY <1>1, <2>1, <2>2
<1> QED
  BY <1>2, <1>3 DEF SizesGiven

\* A cutting that is allowed, of a selection that took sheets, cuts no more
\* than they give.
LEMMA AllowedCuts ==
  ASSUME FewCutOuts, NEW row \in Row, Fits(row), NEW o, Allowed(o, row),
         row.stage = "CUTTING", row.paper # NULL, row.cut # NULL,
         row.paper \in Given("paper"), row.cut \in Given("cut"),
         row.link \in At(ops, "PAPER_SELECTION"),
         NEW taken \in Int, taken = ops[row.link].taken, taken > 0
  PROVE  row.cuts <= taken * CutOuts(row.paper, row.cut)
<1> DEFINE n == CutOuts(row.paper, row.cut)
<1>1. n \in Nat \ {0} /\ n <= 6666
  <2>1. row.paper \in Size /\ row.cut \in Size
    BY DEF Row, Maybe
  <2>2. n \in Nat
    BY <2>1, CutOutsAreNat
  <2>3. n > 0 /\ n <= 6666
    BY DEF Fits, FewCutOuts
  <2> HIDE DEF n
  <2> QED
    BY <2>2, <2>3
<1>2. row.cuts # NULL /\ row.cuts \in Nat
  BY DEF Allowed, Row, Maybe, Count
<1>3. row.link # NULL /\ taken # NULL
  BY PaperSheetsAssumption DEF At, Live
<1>4. SelectionOf(row) = row.link /\ TakenFor(row) = taken
  BY <1>3 DEF SelectionOf, TakenFor
<1>5. Suffices(Whole * taken, Usage(row))
  BY <1>3, <1>4 DEF Allowed
<1>6. Usage(row) = SheetFraction(row.cuts, n)
  BY <1>2 DEF Usage
<1> HIDE DEF n
<1>7. taken \in Nat
  OBVIOUS
<1>8. row.cuts <= n * taken
  BY <1>1, <1>2, <1>5, <1>6, <1>7, SheetCheckIsExact
<1>9. n * taken = taken * n
  BY <1>1, <1>7
<1> QED
  BY <1>8, <1>9 DEF n

LEMMA SaveKeepsCuts ==
  ASSUME FewCutOuts, TypeInv, SizesGiven', CutsOfSheetsTaken,
         NEW o, NEW previous, NEW c, NEW stale, Saves(o, previous, c, stale)
  PROVE  CutsOfSheetsTaken'
<1> SUFFICES ASSUME NEW s \in At(ops', "PAPER_SELECTION"), NEW k \in newer'[s],
                    ops'[s].taken # NULL, ops'[s].taken > 0,
                    ops'[k].stage = "CUTTING", ops'[k].link = s,
                    ops'[k].paper # NULL, ops'[k].cut # NULL
             PROVE  ops'[k].cuts
                      <= ops'[s].taken * CutOuts(ops'[k].paper, ops'[k].cut)
  BY DEF CutsOfSheetsTaken
<1> DEFINE row == Merge(previous, c)
<1>1. /\ row \in Row /\ Fits(row) /\ ops' = [ops EXCEPT ![o] = row]
      /\ newer' = Touched(o) /\ Live(ops') = Live(ops) \cup {o}
      /\ InTurn(newer', Live(ops')) /\ Allowed(o, row) /\ o \in OpIds
  <2>1. Allowed(o, row) /\ o \in OpIds
    BY DEF Saves, Save
  <2> QED
    BY <2>1, SavedTable
<1> HIDE DEF row
<1>2. \A p \in OpIds : ops'[p] = IF p = o THEN row ELSE ops[p]
  BY <1>1 DEF TypeInv, TypeOK
<1>3. /\ s \in OpIds /\ s \in Live(ops) /\ s # o /\ k \in newer[s] \cup {o}
      /\ k \in Live(ops') /\ k \in OpIds
  BY <1>1 DEF Touched, At, Live, InTurn
<1>4. s \in At(ops, "PAPER_SELECTION") /\ ops'[s] = ops[s]
  BY <1>2, <1>3 DEF At
<1>5. CASE k # o
  <2>1. k \in newer[s] /\ ops'[k] = ops[k]
    BY <1>2, <1>3, <1>5
  <2> QED
    BY <1>4, <2>1 DEF CutsOfSheetsTaken
<1>6. CASE k = o
  <2>1. ops'[k] = row
    BY <1>2, <1>3, <1>6
  <2>2. row.paper \in Given("paper") /\ row.cut \in Given("cut")
    BY <1>3, <2>1 DEF SizesGiven, Maybe
  <2>3. ops[s].taken \in Int
    BY <1>3, <1>4, RowTyped DEF TypeInv, Row, Maybe
  <2> QED
    BY <1>1, <1>4, <2>1, <2>2, <2>3, AllowedCuts
<1> QED
  BY <1>5, <1>6

LEMMA DeleteKeepsCuts ==
  ASSUME TypeInv, SizesGiven, CutsOfSheetsTaken, NEW o, NEW c, NEW stale,
         Deletes(o, c, stale)
  PROVE  SizesGiven' /\ CutsOfSheetsTaken'
<1> DEFINE gone == {o, c}
<1>1. /\ ops' = Without(gone) /\ newer' = LaterThan(gone)
      /\ Live(ops') = Live(ops) \ gone /\ InTurn(newer', Live(ops'))
  BY DeletedTable
<1> HIDE DEF gone
<1>2. \A p \in Live(ops') : p \in Live(ops) /\ ops'[p] = ops[p]
  BY <1>1 DEF Without, Live
<1>3. SizesGiven'
  BY <1>2 DEF SizesGiven
<1>4. ASSUME NEW s \in At(ops', "PAPER_SELECTION"), NEW k \in newer'[s]
      PROVE  /\ s \in At(ops, "PAPER_SELECTION") /\ k \in newer[s]
             /\ ops'[s] = ops[s] /\ ops'[k] = ops[k]
  <2>1. s \in Live(ops') /\ s \in OpIds /\ k \in Live(ops')
    BY <1>1 DEF At, Live, InTurn
  <2>2. k \in newer[s]
    BY <1>1, <2>1 DEF LaterThan
  <2> QED
    BY <1>2, <2>1, <2>2 DEF At
<1>5. CutsOfSheetsTaken'
  BY <1>4 DEF CutsOfSheetsTaken
<1> QED
  BY <1>3, <1>5

LEMMA NextCuts ==
  FewCutOuts /\ TypeInv /\ SizesGiven /\ CutsOfSheetsTaken /\ [Next]_vars
    => SizesGiven' /\ CutsOfSheetsTaken'
<1> SUFFICES ASSUME FewCutOuts, TypeInv, SizesGiven, CutsOfSheetsTaken,
                    [Next]_vars
             PROVE  SizesGiven' /\ CutsOfSheetsTaken'
  OBVIOUS
<1>1. CASE UNCHANGED <<ops, newer>>
  BY <1>1 DEF SizesGiven, CutsOfSheetsTaken
<1>2. ASSUME NEW o, NEW previous, NEW c, NEW stale, Saves(o, previous, c, stale)
      PROVE  SizesGiven' /\ CutsOfSheetsTaken'
  <2>1. /\ previous.paper \in Maybe(Given("paper"))
        /\ previous.cut \in Maybe(Given("cut"))
    <3>1. CASE o \in Live(ops) /\ previous = ops[o]
      BY <3>1 DEF SizesGiven
    <3>2. CASE previous \in {Blank(stage) : stage \in Stages}
      BY <3>2, BlankTyped DEF Maybe
    <3> QED
      BY <1>2, <3>1, <3>2 DEF Saves
  <2>2. SizesGiven'
    BY <1>2, <2>1, SavedSizes
  <2> QED
    BY <1>2, <2>2, SaveKeepsCuts
<1> QED
  BY <1>1, <1>2, RequestIs, DeleteKeepsCuts DEF ByHand, vars

\* As long as no sheet gives more than 6666 cuts, no linked cutting that is
\* saved after its selection cuts more than the sheets taken give
\* (validateCuttingOperation).
THEOREM CutsStayWithinSheets ==
  ASSUME FewCutOuts
  PROVE  Spec => []CutsOfSheetsTaken
<1>1. Init => SizesGiven /\ CutsOfSheetsTaken
  BY DEF Init, SizesGiven, CutsOfSheetsTaken, Live, At
<1> QED
  BY <1>1, InitTypes, NextTypes, NextCuts, PTL DEF Spec
=============================================================================
