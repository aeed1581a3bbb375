----------------------------- MODULE PaperSheets -----------------------------
(***************************************************************************)
(* The paper of one production order: its paper selections, the cuttings   *)
(* done on them, and the materials that are kept in step with both         *)
(* (upsertOperation and deleteOperation of the first two stages).          *)
(*                                                                         *)
(* Requests are serial here; what they do to each other when they overlap  *)
(* is in TaskOperations and OrderTotals.                                   *)
(***************************************************************************)
EXTENDS CuttingRules, FiniteSets, Functions

CONSTANTS
  OpIds,         \* primary keys of the order's selections and cuttings
  Items,         \* inventory items
  Paper,         \* those of item type "paper"
  NamedSize,     \* the sheet size an item's name ends in, or NULL
  OrderQuantity, \* ProductOrder.quantity
  Changes,       \* what clients save: some columns, by stage (bounds the model)
  Amounts,       \* of each item, sheets set by hand (bounds the model)
  NULL,
  DELETED        \* a primary key whose row is gone

Maybe(S) == S \cup {NULL}
Count == Nat \ {0}

Columns == {"link", "item", "paper", "cut", "cuts", "taken"}

\* What a column holds: paperSelectionOpId, inventoryId, paperSize, cutSize,
\* cutQuantity, quantityOfSheetsTaken.
ColumnType ==
  [link |-> OpIds, item |-> Items, paper |-> Size, cut |-> Size,
   cuts |-> Count, taken |-> Int]

Stages == {"PAPER_SELECTION", "CUTTING"}

Row == [stage : Stages,
        link : Maybe(OpIds), item : Maybe(Items),
        paper : Maybe(Size), cut : Maybe(Size),
        cuts : Maybe(Count), taken : Maybe(Int)]

Material == [quantity : Nat, used : Nat]

ASSUME PaperSheetsAssumption ==
  /\ IsFiniteSet(OpIds) /\ Paper \subseteq Items
  /\ NamedSize \in [Items -> Maybe(Size)]
  /\ OrderQuantity \in Count
  /\ \A c \in Changes["PAPER_SELECTION"] \cup Changes["CUTTING"] :
                        /\ DOMAIN c \subseteq Columns
                        /\ \A f \in DOMAIN c : c[f] \in Maybe(ColumnType[f])
  /\ Amounts \in [Items -> SUBSET Nat]
  /\ NULL \notin OpIds \cup Items \cup Size \cup Int \cup Material \cup Row
  /\ DELETED \notin Row /\ DELETED # NULL

VARIABLES
  ops,       \* the table ProductOrderOperation, by primary key
  newer,     \* of each of its rows, the rows updated after it (updatedAt)
  materials, \* the table ProductOrderMaterial of the order, by item
  kept       \* items added by hand or cleared from a selection (history)

vars == <<ops, newer, materials, kept>>

Live(table) == {o \in OpIds : table[o] \notin {NULL, DELETED}}

\* The rows have been updated one after the other.
InTurn(after, rows) ==
  /\ \A o \in OpIds : after[o] \subseteq rows \ {o}
  /\ \A o \in OpIds \ rows : after[o] = {}
  /\ \A o, p \in rows : o # p => (p \in after[o] <=> o \notin after[p])
  /\ \A o \in rows : \A p \in after[o] : after[p] \subseteq after[o]

TypeOK ==
  /\ ops \in [OpIds -> Row \cup {NULL, DELETED}]
  /\ newer \in [OpIds -> SUBSET OpIds] /\ InTurn(newer, Live(ops))
  /\ materials \in [Items -> Maybe(Material)]
  /\ kept \in SUBSET Items

-----------------------------------------------------------------------------
(* Which cuttings are cut from which selection *)

At(table, stage) == {o \in Live(table) : table[o].stage = stage}

\* The first of some rows, ordered by updatedAt desc.
First(after, rows) ==
  IF rows = {} THEN NULL ELSE CHOOSE o \in rows : after[o] \cap rows = {}

\* Mutant of Matches: the link does not keep a cutting from matching another
\* selection of its size.
MatchesBySize(table, c, s) ==
  \/ table[c].link = s
  \/ table[c].item # NULL /\ table[c].item = table[s].item
  \/ table[c].paper # NULL /\ table[c].paper = table[s].paper

\* cuttingOperationMatchesPaper: the link decides when there is one, else the
\* same item or the same sheet size.
Matches(table, c, s) ==
  IF table[c].link # NULL THEN table[c].link = s
  ELSE \/ table[c].item # NULL /\ table[c].item = table[s].item
       \/ table[c].paper # NULL /\ table[c].paper = table[s].paper

Cuttings(table, s) == {c \in At(table, "CUTTING") : Matches(table, c, s)}

Linked(table, s) == {c \in Cuttings(table, s) : table[c].link # NULL}
Unlinked(table, s) == Cuttings(table, s) \ Linked(table, s)

\* The cutting a selection without a cut size takes its sizes from: a linked
\* one, else an unlinked one that matches.
Picked(table, after, s) ==
  First(after, IF Linked(table, s) # {} THEN Linked(table, s)
               ELSE Unlinked(table, s))

\* calculateCuttingOperationSheetUsage
Usage(row) ==
  IF row.paper = NULL \/ row.cut = NULL \/ row.cuts = NULL THEN 0
  ELSE SheetFraction(row.cuts, CutOuts(row.paper, row.cut))

UsageOf(table, cuttings) == SumFunction([c \in cuttings |-> Usage(table[c])])

UsedBy(table, s) == UsageOf(table, Cuttings(table, s))

-----------------------------------------------------------------------------
(* syncPaperSelectionMaterials *)

Supplied(new, old) == IF new = NULL THEN old ELSE new

\* The sheets a selection needs for the order, if its sizes are known.
Required(table, after, s) ==
  LET named == Supplied(table[s].paper, NamedSize[table[s].item])
      pick  == IF table[s].cut = NULL THEN Picked(table, after, s) ELSE NULL
      paper == IF named = NULL /\ pick # NULL THEN table[pick].paper ELSE named
      cut   == IF pick # NULL THEN table[pick].cut ELSE table[s].cut
  IN  IF paper = NULL \/ cut = NULL \/ CutOuts(paper, cut) = 0 THEN 0
      ELSE Whole * SheetsRequired(OrderQuantity, CutOuts(paper, cut))

Selections(table) ==
  {s \in At(table, "PAPER_SELECTION") : table[s].item # NULL}

Selected(table) == {table[s].item : s \in Selections(table)}

SelectionsOf(table, i) == {s \in Selections(table) : table[s].item = i}

Bigger(m, n) == IF m > n THEN m ELSE n

\* Mutant of Planned: what is still to be taken is planned.
PlannedRest(table, after, i) ==
  LET of == SelectionsOf(table, i)
  IN  [quantity |-> SumFunction([s \in of |-> Required(table, after, s)
                                                - UsedBy(table, s)]),
       used     |-> SumFunction([s \in of |-> UsedBy(table, s)])]

\* The material of an item, over its selections: the latest one covers at
\* least its cuttings, the others add what they need.
Planned(table, after, i) ==
  LET of     == SelectionsOf(table, i)
      latest == First(after, of)
  IN  [quantity |-> Bigger(Required(table, after, latest), UsedBy(table, latest))
                      + SumFunction([s \in of \ {latest} |->
                                       Required(table, after, s)]),
       used     |-> SumFunction([s \in of |-> UsedBy(table, s)])]

\* Materials are created, or grow; one that a selection has left goes, if it
\* is paper and no other selection is of its item.
Synced(table, after, stale) ==
  [i \in Items |->
     IF i \in Selected(table)
     THEN LET plan == Planned(table, after, i)
          IN  IF materials[i] = NULL THEN plan
              ELSE [plan EXCEPT !.quantity = Bigger(@, materials[i].quantity)]
     ELSE IF i = stale /\ i \in Paper THEN NULL
     ELSE materials[i]]

-----------------------------------------------------------------------------
(* validateCuttingOperation *)

\* getCuttingStateForPaper: the cuttings of the item or of the sheet size, but
\* neither the cutting itself nor, when it has a link, those with the same link
\* or without one (in SQL NULL is not different from a link).
OtherCuttings(o, row, i) ==
  {c \in At(ops, "CUTTING") \ {o} :
     /\ row.link # NULL => ops[c].link \notin {NULL, row.link}
     /\ ops[c].item = i \/ ops[c].paper = row.paper}

\* The selection a cutting is linked to, if it is one.
SelectionOf(row) ==
  IF row.link \in At(ops, "PAPER_SELECTION") THEN row.link ELSE NULL

\* The item the cutting is of: its own, its selection's, or that of the
\* latest selection of the same sheet size.
ItemOf(row) ==
  LET linked == SelectionOf(row)
      alike  == First(newer, {s \in Selections(ops) : ops[s].paper = row.paper})
  IN  IF row.item # NULL THEN row.item
      ELSE IF linked # NULL /\ ops[linked].item # NULL THEN ops[linked].item
      ELSE IF alike # NULL THEN ops[alike].item
      ELSE NULL

TakenFor(row) ==
  IF SelectionOf(row) = NULL THEN NULL ELSE ops[SelectionOf(row)].taken

\* Mutant of Allowed: a cutting is not checked against the sheets taken.
AllowedUnlinked(o, row) ==
  (row.stage = "CUTTING" /\ row.paper # NULL /\ row.cut # NULL)
    => row.cuts # NULL

\* The sheets taken by its selection, else the material's, else those the
\* order needs, are enough for the cutting.
Allowed(o, row) ==
  (row.stage = "CUTTING" /\ row.paper # NULL /\ row.cut # NULL) =>
    /\ row.cuts # NULL
    /\ LET taken == TakenFor(row)
           i     == ItemOf(row)
           needs == Whole * SheetsRequired(OrderQuantity,
                                           CutOuts(row.paper, row.cut))
           stock == IF materials[i] # NULL /\ materials[i].quantity > 0
                    THEN materials[i].quantity ELSE needs
       IN  IF taken # NULL /\ taken > 0
           THEN Suffices(Whole * taken, Usage(row))
           ELSE i # NULL => Suffices(stock,
                              UsageOf(ops, OtherCuttings(o, row, i)) + Usage(row))

-----------------------------------------------------------------------------
(* Requests *)

Init ==
  /\ ops = [o \in OpIds |-> NULL]
  /\ newer = [o \in OpIds |-> {}]
  /\ materials = [i \in Items |-> NULL]
  /\ kept = {}

Blank(stage) ==
  [stage |-> stage, link |-> NULL, item |-> NULL, paper |-> NULL,
   cut |-> NULL, cuts |-> NULL, taken |-> NULL]

\* A column the request leaves out keeps its value; one it clears is NULL.
Merge(row, c) == [f \in DOMAIN row |-> IF f \in DOMAIN c THEN c[f] ELSE row[f]]

\* resolveOperationFields: a cut that does not fit its sheet is refused.
Fits(row) ==
  row.paper # NULL /\ row.cut # NULL => CutOuts(row.paper, row.cut) > 0

Sync(table, after, stale) ==
  /\ ops' = table
  /\ newer' = after
  /\ materials' = Synced(table, after, stale)

\* updatedAt is now.
Touched(o) ==
  [p \in OpIds |-> IF p \in Live(ops) \ {o} THEN newer[p] \cup {o} ELSE {}]

Save(o, previous, c, stale) ==
  LET row == Merge(previous, c)
  IN  /\ Fits(row) /\ Allowed(o, row)
      /\ Sync([ops EXCEPT ![o] = row], Touched(o), stale)
      /\ kept' = IF /\ row.stage = "PAPER_SELECTION"
                    /\ previous.item # NULL /\ row.item = NULL
                 THEN kept \cup {previous.item} ELSE kept

\* Mutant of LeftItem: an item is only left for one that is not paper.
LeftForOther(previous, next) ==
  IF /\ previous.stage = "PAPER_SELECTION"
     /\ next.item \notin Paper \cup {NULL, previous.item}
  THEN previous.item ELSE NULL

\* The item a selection is moved away from; clearing it does not count.
LeftItem(previous, next) ==
  IF /\ previous.stage = "PAPER_SELECTION"
     /\ next.item \notin {NULL, previous.item}
  THEN previous.item ELSE NULL

\* upsertOperation with an id.
SaveById ==
  \E o \in Live(ops) : \E c \in Changes[ops[o].stage] :
    Save(o, ops[o], c, LeftItem(ops[o], Merge(ops[o], c)))

SaveFirst(found, stage, c) ==
  IF found # {} THEN Save(First(newer, found), ops[First(newer, found)], c, NULL)
  ELSE \E o \in OpIds : ops[o] = NULL /\ Save(o, Blank(stage), c, NULL)

Sent(c, f) == IF f \in DOMAIN c THEN c[f] ELSE NULL

\* Without an id, a cutting updates the latest one with the same link.
SaveCutting ==
  \E c \in Changes["CUTTING"] :
    SaveFirst({o \in At(ops, "CUTTING") : /\ Sent(c, "link") # NULL
                                         /\ ops[o].link = Sent(c, "link")},
              "CUTTING", c)

\* Without an id, a selection updates the latest one of the item it names, or
\* the latest one when it names none.
SaveSelection ==
  \E c \in Changes["PAPER_SELECTION"] :
    SaveFirst({o \in At(ops, "PAPER_SELECTION") :
                 Sent(c, "item") \in {NULL, ops[o].item}},
              "PAPER_SELECTION", c)

\* The cutting that is deleted with a selection: one that is linked to it, if
\* any, else the only unlinked one that matches it.
Cascade(s) ==
  IF Linked(ops, s) # {} THEN Linked(ops, s)
  ELSE IF Cardinality(Unlinked(ops, s)) = 1 THEN Unlinked(ops, s) ELSE {}

\* deleteOperation.  (Which tasks may be deleted: TaskOperations.)
DeleteOperation ==
  \E o \in Live(ops) :
    LET more == IF ops[o].stage = "CUTTING" THEN {} ELSE Cascade(o)
    IN  \E c \in IF more = {} THEN {NULL} ELSE more :
          LET gone  == {o, c}
              stale == IF ops[o].item = NULL /\ c # NULL THEN ops[c].item
                       ELSE ops[o].item
          IN  /\ Sync([p \in OpIds |-> IF p \in gone THEN DELETED ELSE ops[p]],
                      [p \in OpIds |-> IF p \in gone THEN {}
                                       ELSE newer[p] \ gone],
                      stale)
              /\ UNCHANGED kept

AddMaterial ==
  \E i \in Items : \E q \in Amounts[i] :
    /\ materials[i] = NULL
    /\ materials' = [materials EXCEPT ![i] = [quantity |-> q, used |-> 0]]
    /\ kept' = kept \cup {i}
    /\ UNCHANGED <<ops, newer>>

\* updateMaterialUsage does not ask how much there is.
UpdateMaterialUsage ==
  \E i \in Items : \E q \in Amounts[i] :
    /\ materials[i] # NULL
    /\ materials' = [materials EXCEPT ![i].used = q]
    /\ UNCHANGED <<ops, newer, kept>>

RemoveMaterial ==
  \E i \in Items :
    /\ materials[i] # NULL
    /\ materials' = [materials EXCEPT ![i] = NULL]
    /\ UNCHANGED <<ops, newer, kept>>

Next ==
  \/ SaveById \/ SaveCutting \/ SaveSelection \/ DeleteOperation
  \/ AddMaterial \/ UpdateMaterialUsage \/ RemoveMaterial

Spec == Init /\ [][Next]_vars

-----------------------------------------------------------------------------
(* Properties *)

\* The order keeps paper only for its selections: whatever the order in which
\* selections are moved from item to item, shared and deleted, a paper
\* material without a selection was added by hand, or its selection was saved
\* with the item cleared, which the code does not take for leaving it.
PaperIsSelected ==
  \A i \in Paper \ kept : materials[i] # NULL => i \in Selected(ops)

\* A cutting that was saved after the selection it is linked to, and has its
\* sizes, cuts no more than the sheets the selection took give: rounding to
\* ten-thousandths and the tolerance let no cut too many through.
CutsOfSheetsTaken ==
  \A s \in At(ops, "PAPER_SELECTION") : \A c \in newer[s] :
    (/\ ops[s].taken # NULL /\ ops[s].taken > 0
     /\ ops[c].stage = "CUTTING" /\ ops[c].link = s
     /\ ops[c].paper # NULL /\ ops[c].cut # NULL)
      => ops[c].cuts <= ops[s].taken * CutOuts(ops[c].paper, ops[c].cut)

ChargedOnce ==
  LET cuttings == At(ops', "CUTTING")
  IN  (/\ ops' # ops
       /\ \A c \in cuttings : ops'[c].link \in Selections(ops'))
      => UsageOf(ops', cuttings)
           = SumFunction([i \in Selected(ops') |-> materials'[i].used])

\* Once a selection or a cutting is saved or deleted, no sheet is charged
\* twice and none is forgotten: if every cutting is linked to a selection with
\* an item, the materials of the selected items have used together what the
\* cuttings use together.
SheetsCountOnce == [][ChargedOnce]_vars
=============================================================================
