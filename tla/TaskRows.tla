------------------------------ MODULE TaskRows ------------------------------
(***************************************************************************)
(* One row of the table ProductOrderOperation (a task of a production      *)
(* order) and the pure rules upsertOperation applies to it before it is    *)
(* written: merge, completion quantities, automatic partial status,        *)
(* lifecycle timestamps.                                                   *)
(*                                                                         *)
(* NULL is SQL NULL in a column and an absent key in a request.            *)
(***************************************************************************)
EXTENDS Integers, FiniteSets, Functions

CONSTANTS
  Stages,        \* the stages of enum OperationStage the orders go through
  OpIds,         \* primary keys (cuid) of tasks; one is never used twice
  MaxQuantity,   \* the largest value of an Int column
  MaxClock,      \* the last reading of the server clock (bounds the model)
  NULL

\* The stages whose quantities feed every later stage.
CutStages == {"PAPER_SELECTION", "CUTTING"}

Status == {"PENDING", "IN_PROGRESS", "PARTIALLY_COMPLETE", "COMPLETE",
           "SKIPPED", "NA"}
Work == {"IN_PROGRESS", "PARTIALLY_COMPLETE", "COMPLETE"}
Done == {"COMPLETE", "SKIPPED"}

Quantity == 0 .. MaxQuantity
Stamp    == 1 .. MaxClock

Maybe(S) == S \cup {NULL}

Row == [stage     : Stages,
        link      : Maybe(OpIds),      \* paperSelectionOpId
        status    : Maybe(Status),     \* stageStatus
        qty       : Maybe(Quantity),   \* quantityFinished
        items     : Maybe(Quantity),   \* quantityItemFinished
        cuts      : Maybe(Quantity),   \* cutQuantity
        started   : Maybe(Stamp),      \* startedAt
        moved     : Maybe(Stamp),      \* stageMovedAt
        completed : Maybe(Stamp)]      \* completedAt

\* What a client may send: a key of UpsertOperationDto, or nothing.
Change == [link   : Maybe(OpIds),    status : Maybe(Status),
           qty    : Maybe(Quantity), items  : Maybe(Quantity),
           cuts   : Maybe(Quantity)]

ASSUME TaskRowsAssumption ==
  /\ MaxQuantity \in Nat /\ MaxClock \in Nat \ {0}
  /\ NULL \notin Int
  /\ \A x \in Status \cup Stages \cup OpIds : x # NULL

\* The row a create starts from: every column still unset.
BlankRow(stage) ==
  [stage |-> stage, link |-> NULL, status |-> NULL, qty |-> NULL,
   items |-> NULL, cuts |-> NULL, started |-> NULL, moved |-> NULL,
   completed |-> NULL]

Positive(n) == n # NULL /\ n > 0

-----------------------------------------------------------------------------

Supplied(new, old) == IF new = NULL THEN old ELSE new

\* resolveOperationFields({...existing, ...fields}): a key the request leaves
\* out keeps the value that was read, and is written back with it.
Merge(row, c) ==
  [row EXCEPT !.link  = Supplied(c.link, @),  !.status = Supplied(c.status, @),
              !.qty   = Supplied(c.qty, @),   !.items  = Supplied(c.items, @),
              !.cuts  = Supplied(c.cuts, @)]

\* Mutant of CompletionDefaults: the packed quantity is not defaulted.
DefaultsWithoutItems(row, available) ==
  IF row.status = "COMPLETE" /\ row.stage \notin CutStages
  THEN [row EXCEPT !.qty = IF @ = NULL THEN available ELSE @]
  ELSE row

\* A task saved as COMPLETE without a quantity takes what the cutting made
\* available; the packaging task also takes it as its packed quantity.
CompletionDefaults(row, available) ==
  IF row.status = "COMPLETE" /\ row.stage \notin CutStages
  THEN [row EXCEPT
          !.qty   = IF @ = NULL THEN available ELSE @,
          !.items = IF row.stage = "PACKAGING" /\ @ = NULL
                    THEN available ELSE @]
  ELSE row

\* Mutant of AutoPartial: a pending task keeps its status when output arrives.
AutoPartialOnlyInProgress(row) ==
  IF Positive(row.qty) /\ row.status = "IN_PROGRESS"
  THEN [row EXCEPT !.status = "PARTIALLY_COMPLETE"]
  ELSE row

\* Output recorded on a task that is neither complete nor skipped makes it
\* partially complete, whatever status the client asked for.
AutoPartial(row) ==
  IF Positive(row.qty) /\ row.status \notin Done
  THEN [row EXCEPT !.status = "PARTIALLY_COMPLETE"]
  ELSE row

\* Mutant of StampStatus: reverting a task keeps its completion time.
StampStatusNeverClears(row, previous, now) ==
  IF row.status = NULL THEN row
  ELSE [row EXCEPT
          !.moved     = IF row.status # previous.status THEN now ELSE @,
          !.started   = IF row.status \in Work /\ previous.started = NULL
                        THEN now ELSE @,
          !.completed = IF row.status \in Done THEN now ELSE @]

\* Mutant of StampStatus: completion is stamped once, like the start.
StampStatusCompletedOnce(row, previous, now) ==
  IF row.status = NULL THEN row
  ELSE [row EXCEPT
          !.moved     = IF row.status # previous.status THEN now ELSE @,
          !.started   = IF row.status \in Work /\ previous.started = NULL
                        THEN now ELSE @,
          !.completed = IF row.status \in Done /\ @ = NULL THEN now ELSE @]

\* Mutant of StampStatus: startedAt follows the status instead of being kept.
StampStatusRestarts(row, previous, now) ==
  IF row.status = NULL THEN row
  ELSE [row EXCEPT
          !.moved     = IF row.status # previous.status THEN now ELSE @,
          !.started   = IF row.status \in Work
                           /\ (previous.started = NULL
                               \/ previous.status \notin Work)
                        THEN now ELSE @,
          !.completed = IF row.status \in Done THEN now
                        ELSE IF previous.status \in Done THEN NULL ELSE @]

\* startedAt is set by the first work status and then kept; stageMovedAt by
\* every change of status; completedAt by every save as complete or skipped,
\* and cleared when the task leaves those two.
StampStatus(row, previous, now) ==
  IF row.status = NULL THEN row
  ELSE [row EXCEPT
          !.moved     = IF row.status # previous.status THEN now ELSE @,
          !.started   = IF row.status \in Work /\ previous.started = NULL
                        THEN now ELSE @,
          !.completed = IF row.status \in Done THEN now
                        ELSE IF previous.status \in Done THEN NULL ELSE @]

\* The fields one upsertOperation writes, in the order it computes them.
Resolve(previous, c, available, now) ==
  StampStatus(AutoPartial(CompletionDefaults(Merge(previous, c), available)),
              previous, now)

\* The column default of stageStatus, applied by the insert.
Stored(row) == [row EXCEPT !.status = Supplied(@, "PENDING")]
=============================================================================
