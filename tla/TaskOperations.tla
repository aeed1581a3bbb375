--------------------------- MODULE TaskOperations ---------------------------
(***************************************************************************)
(* The tasks of one production order: upsertOperation, deleteOperation and *)
(* the prerequisites that gate them, as concurrent requests see them.      *)
(*                                                                         *)
(* Each request runs in a READ COMMITTED transaction.  It reads without    *)
(* locks and computes the row to write (Begin...), writes it and locks it  *)
(* (Write...), then updates the tasks that follow and commits (Commit...); *)
(* other requests run in between and see only what is committed.  The      *)
(* statements of one such step are taken together.  A request holds a slot *)
(* from its reads to its commit, so with one slot requests are serial and  *)
(* with more they interleave.                                              *)
(***************************************************************************)
EXTENDS TaskRows

CONSTANTS
  Slots,          \* requests in flight at once
  OrderQuantity,  \* ProductOrder.quantity
  Changes,        \* the changes clients send (bounds the model)
  Gated,          \* stages a prerequisite is configured for (bounds the model)
  Required,       \* stages that are named as prerequisite (bounds the model)
  Thresholds,     \* the unlock thresholds configured (bounds the model)
  DELETED         \* a primary key whose row is gone

ASSUME TaskOperationsAssumption ==
  /\ OrderQuantity \in Quantity
  /\ Changes \subseteq Change
  /\ Gated \subseteq Stages /\ Required \subseteq Stages
  /\ Thresholds \subseteq {"partial_any", "full", "percentage"}
  /\ DELETED # NULL /\ DELETED \notin Row /\ NULL \notin Row

VARIABLES
  ops,       \* the table ProductOrderOperation, by primary key
  prereq,    \* the table TaskPrerequisite, by gated stage
  override,  \* the table TaskPrerequisiteOverride of this order, by stage
  slot,      \* what each request in flight has read, and will write
  clock      \* the server's clock

vars == <<ops, prereq, override, slot, clock>>

Prerequisite == [required : Maybe(Stages),
                 threshold : {"partial_any", "full", "percentage"}]

\* op is NULL for a create that has not been written.
Request == [kind : {"upsert", "delete"},
            op   : Maybe(OpIds),
            row  : Row,               \* to be written; of a delete: as read
            flow : Maybe(Quantity)]   \* read after the write, NULL until then

TypeOK ==
  /\ ops \in [OpIds -> Row \cup {NULL, DELETED}]
  /\ prereq \in [Stages -> Maybe(Prerequisite)]
  /\ override \in [Stages -> Maybe(Prerequisite)]
  /\ slot \in [Slots -> Maybe(Request)]
  /\ clock \in Stamp

-----------------------------------------------------------------------------
(* Reads *)

Live(table) == {o \in OpIds : table[o] \notin {NULL, DELETED}}
At(table, stages) == {o \in Live(table) : table[o].stage \in stages}

TotalOf(table, stage, field) ==
  LET stated == [o \in At(table, {stage}) |-> Supplied(table[o][field], 0)]
  IN  SumFunctionOnSet(stated, DOMAIN stated)

\* How many pieces the cutting has made available to the later stages.
Flow(table) ==
  LET cut     == TotalOf(table, "CUTTING", "qty")
      paper   == TotalOf(table, "PAPER_SELECTION", "qty")
      planned == TotalOf(table, "CUTTING", "cuts")
  IN  IF cut > 0 THEN cut ELSE IF paper > 0 THEN paper ELSE planned

Available == IF Flow(ops) > 0 THEN Flow(ops) ELSE OrderQuantity

NoPrerequisite == [required |-> NULL, threshold |-> "partial_any"]

\* The override of the order, else the global prerequisite, else none.
PrerequisiteOf(stage) ==
  IF override[stage] # NULL THEN override[stage]
  ELSE IF prereq[stage] # NULL THEN prereq[stage]
  ELSE NoPrerequisite

\* The threshold "percentage" has no branch in the code: it never blocks.
GateOpen(stage) ==
  LET p   == PrerequisiteOf(stage)
      req == At(ops, {p.required})
  IN  \/ p.required = NULL
      \/ /\ p.threshold = "partial_any"
         /\ \E o \in req : \/ Positive(ops[o].qty)
                           \/ ops[o].status \in Done \cup {"PARTIALLY_COMPLETE"}
      \/ /\ p.threshold = "full"
         /\ req # {}
         /\ \A o \in req : ops[o].status \in Done
      \/ p.threshold = "percentage"

\* Mutant of MayStart: an override that exists is taken for permission.
MayStartWhenOverridden(previous, next) ==
  (next.status \in Work /\ previous.status \notin Work)
     => (override[next.stage] # NULL \/ GateOpen(next.stage))

\* validateTaskStartPrerequisites: asked with the status the request names,
\* before the status is corrected from the quantity.
MayStart(previous, next) ==
  (next.status \in Work /\ previous.status \notin Work)
     => GateOpen(next.stage)

-----------------------------------------------------------------------------
(* upsertOperation *)

Init ==
  /\ ops = [o \in OpIds |-> NULL]
  /\ prereq = [st \in Stages |-> NULL]
  /\ override = [st \in Stages |-> NULL]
  /\ slot = [s \in Slots |-> NULL]
  /\ clock = 1

\* The reads of an upsert: the row it will write is computed now, from the
\* row that was found (or from nothing), and written by WriteUpsert.
BeginUpsert(s, target, previous, c) ==
  LET row == Resolve(previous, c, Available, clock)
  IN  /\ slot[s] = NULL
      /\ previous.stage \in Stages
      /\ MayStart(previous, Merge(previous, c))
      /\ row \in Row                    \* else a column overflows: 500
      /\ Available \in Nat              \* as any sum of counts
      /\ slot' = [slot EXCEPT ![s] = [kind |-> "upsert", op |-> target,
                                      row |-> row, flow |-> NULL]]
      /\ UNCHANGED <<ops, prereq, override, clock>>

\* With an id: that task, of whatever stage it is.
UpsertById(s) ==
  \E o \in Live(ops), c \in Changes : BeginUpsert(s, o, ops[o], c)

\* A cutting without an id updates a cutting linked to the same paper
\* selection, or is created.
UpsertCutting(s) ==
  \E c \in Changes :
    LET linked == {o \in At(ops, {"CUTTING"}) :
                     c.link # NULL /\ ops[o].link = c.link}
    IN  \/ \E o \in linked : BeginUpsert(s, o, ops[o], c)
        \/ linked = {} /\ BeginUpsert(s, NULL, BlankRow("CUTTING"), c)

\* A paper selection without an id updates one of the order's selections, or
\* is created when there is none or none of the inventory item it names.
UpsertPaperSelection(s) ==
  \E c \in Changes :
    \/ \E o \in At(ops, {"PAPER_SELECTION"}) : BeginUpsert(s, o, ops[o], c)
    \/ BeginUpsert(s, NULL, BlankRow("PAPER_SELECTION"), c)

\* Mutant of UpsertStage: an existing task of the stage is not looked for.
UpsertStageAlwaysCreates(s) ==
  \E c \in Changes, stage \in Stages \ CutStages :
    BeginUpsert(s, NULL, BlankRow(stage), c)

\* Any other stage without an id: its task if there is one, else a new one.
UpsertStage(s) ==
  \E c \in Changes, stage \in Stages \ CutStages :
    \/ \E o \in At(ops, {stage}) : BeginUpsert(s, o, ops[o], c)
    \/ At(ops, {stage}) = {} /\ BeginUpsert(s, NULL, BlankRow(stage), c)

\* Mutant of FlowAfter: the flow is read before the save instead of after it.
FlowBefore(o, row) == IF row.stage \in CutStages THEN Flow(ops) ELSE 0

\* What syncCompletedOperationQuantities reads in the request's transaction,
\* its own write included; a save of a later stage does not ask.
FlowAfter(o, row) ==
  IF row.stage \in CutStages THEN Flow([ops EXCEPT ![o] = row]) ELSE 0

\* A written row stays locked until its transaction ends.
Locked(o) ==
  \E s \in Slots : slot[s] # NULL /\ slot[s].flow # NULL /\ slot[s].op = o

\* The insert or update: the whole computed row replaces the stored one.
WriteUpsert(s) ==
  /\ slot[s] # NULL /\ slot[s].kind = "upsert" /\ slot[s].flow = NULL
  /\ \E o \in OpIds :
       LET row == Stored(slot[s].row)
       IN  /\ IF slot[s].op = NULL THEN ops[o] = NULL
              ELSE o = slot[s].op /\ o \in Live(ops)
           /\ ~Locked(o)
           /\ FlowAfter(o, row) \in Quantity           \* else: 500
           /\ slot' = [slot EXCEPT ![s] =
                         [kind |-> "upsert", op |-> o, row |-> row,
                          flow |-> FlowAfter(o, row)]]
  /\ UNCHANGED <<ops, prereq, override, clock>>

\* Mutant of Synced: the flow is added to what the task already states.
SyncedByAdding(table, flow) ==
  [o \in OpIds |->
     IF /\ flow > 0
        /\ o \in At(table, Stages \ CutStages) /\ table[o].status = "COMPLETE"
     THEN [table[o] EXCEPT !.qty = @ + flow]
     ELSE table[o]]

\* syncCompletedOperationQuantities: every complete later task is given the
\* flow, and the complete packaging task packs it.
Synced(table, flow) ==
  [o \in OpIds |->
     IF /\ flow > 0
        /\ o \in At(table, Stages \ CutStages) /\ table[o].status = "COMPLETE"
     THEN [table[o] EXCEPT
             !.qty   = flow,
             !.items = IF table[o].stage = "PACKAGING" THEN flow ELSE @]
     ELSE table[o]]

\* The rest of the transaction and its commit; it waits for the locks of the
\* tasks it updates.
CommitUpsert(s) ==
  /\ slot[s] # NULL /\ slot[s].kind = "upsert" /\ slot[s].flow # NULL
  /\ LET after == Synced([ops EXCEPT ![slot[s].op] = slot[s].row], slot[s].flow)
     IN  /\ \A o \in OpIds \ {slot[s].op} : after[o] # ops[o] => ~Locked(o)
         /\ ops' = after
  /\ slot' = [slot EXCEPT ![s] = NULL]
  /\ UNCHANGED <<prereq, override, clock>>

-----------------------------------------------------------------------------
(* deleteOperation *)

\* The task is read, and its status checked, before the transaction.
BeginDelete(s) ==
  \E o \in Live(ops) :
    /\ slot[s] = NULL
    /\ ops[o].status \notin {"IN_PROGRESS", "COMPLETE"}
    /\ slot' = [slot EXCEPT ![s] = [kind |-> "delete", op |-> o,
                                    row |-> ops[o], flow |-> NULL]]
    /\ UNCHANGED <<ops, prereq, override, clock>>

\* Mutant of Cascades: everything of the order that is linked goes.
CascadesToAll(o, stage) ==
  {IF stage = "PAPER_SELECTION" THEN Live(ops) \ {o} ELSE {}}

\* The sets of cuttings that may go with a task: a paper selection takes one
\* cutting linked to it, else the only unlinked one that matches its paper.
\* (Which unlinked cuttings match is left open.)
Cascades(o, stage) ==
  LET cuttings == At(ops, {"CUTTING"})
      linked   == {x \in cuttings : ops[x].link = o}
      unlinked == {x \in cuttings : ops[x].link = NULL}
  IN  IF stage # "PAPER_SELECTION" THEN {{}}
      ELSE IF linked # {} THEN {{x} : x \in linked}
      ELSE {{}} \cup {{x} : x \in unlinked}

CommitDelete(s) ==
  /\ slot[s] # NULL /\ slot[s].kind = "delete"
  /\ slot[s].op \in Live(ops)
  /\ \E cut \in Cascades(slot[s].op, slot[s].row.stage) :
       /\ \A o \in cut \cup {slot[s].op} : ~Locked(o)
       /\ ops' = [o \in OpIds |-> IF o \in cut \cup {slot[s].op}
                                  THEN DELETED ELSE ops[o]]
  /\ slot' = [slot EXCEPT ![s] = NULL]
  /\ UNCHANGED <<prereq, override, clock>>

\* The request fails after its reads - a cutting that needs more sheets than
\* there are, a row that is gone, a lost connection, a crash - and its
\* transaction rolls back.
RollBack(s) ==
  /\ slot[s] # NULL
  /\ slot' = [slot EXCEPT ![s] = NULL]
  /\ UNCHANGED <<ops, prereq, override, clock>>

-----------------------------------------------------------------------------
(* Prerequisites and overrides: one statement each *)

Accepting == \E s \in Slots : slot[s] = NULL

SetPrerequisite(stage, required, threshold) ==
  /\ Accepting
  /\ prereq' = [prereq EXCEPT ![stage] = [required  |-> required,
                                          threshold |-> threshold]]
  /\ UNCHANGED <<ops, override, slot, clock>>

DeletePrerequisite(stage) ==
  /\ Accepting
  /\ prereq[stage] # NULL
  /\ prereq' = [prereq EXCEPT ![stage] = NULL]
  /\ UNCHANGED <<ops, override, slot, clock>>

\* The override a save leaves: "requiredStage ?? undefined" tells Prisma to
\* leave the column as it is.
Overridden(old, required, threshold) ==
  [required  |-> IF old # NULL /\ required = NULL THEN old.required ELSE required,
   threshold |-> threshold]

SetOverride(stage, required, threshold) ==
  /\ Accepting
  /\ override' = [override EXCEPT ![stage] = Overridden(@, required, threshold)]
  /\ UNCHANGED <<ops, prereq, slot, clock>>

DeleteOverride(stage) ==
  /\ Accepting
  /\ override[stage] # NULL
  /\ override' = [override EXCEPT ![stage] = NULL]
  /\ UNCHANGED <<ops, prereq, slot, clock>>

Tick ==
  /\ clock < MaxClock
  /\ clock' = clock + 1
  /\ UNCHANGED <<ops, prereq, override, slot>>

Next ==
  \/ \E s \in Slots :
       \/ UpsertById(s) \/ UpsertCutting(s) \/ UpsertPaperSelection(s)
       \/ UpsertStage(s) \/ WriteUpsert(s) \/ CommitUpsert(s)
       \/ BeginDelete(s) \/ CommitDelete(s) \/ RollBack(s)
  \/ \E stage \in Gated, threshold \in Thresholds :
       \/ \E required \in Required : SetPrerequisite(stage, required, threshold)
       \/ \E required \in Maybe(Required) :
            SetOverride(stage, required, threshold)
  \/ \E stage \in Gated : DeletePrerequisite(stage) \/ DeleteOverride(stage)
  \/ Tick

Spec == Init /\ [][Next]_vars

-----------------------------------------------------------------------------
(* Properties *)

Rows == {ops[o] : o \in Live(ops)}

\* Clocks agree with the status, however requests interleave: a task carries
\* a completion time exactly while it is complete or skipped, and has a start
\* time once it has been worked on (applyStatusTimestamps).
TimestampsMatchStatus ==
  \A r \in Rows : /\ r.completed # NULL <=> r.status \in Done
                  /\ r.status \in Work => r.started # NULL

\* No task ends before it starts, or before it last changed status: the
\* duration the reports compute from startedAt and completedAt is never
\* negative.
TimelineOrdered ==
  \A r \in Rows : r.completed # NULL =>
     /\ r.started # NULL => r.started <= r.completed
     /\ r.moved # NULL => r.moved <= r.completed

\* Output is never recorded on a task that still looks untouched: a positive
\* quantity only occurs with PARTIALLY_COMPLETE, COMPLETE or SKIPPED
\* (applyAutoPartialStatus).
QuantityImpliesProgress ==
  \A r \in Rows : Positive(r.qty) => r.status \in Done \cup {"PARTIALLY_COMPLETE"}

\* A complete task of a later stage states what it finished, and a complete
\* packaging task what it packed (applyCompletionQuantityDefaults).
CompletedStatesQuantity ==
  \A r \in Rows : (r.status = "COMPLETE" /\ r.stage \notin CutStages) =>
     /\ r.qty # NULL
     /\ r.stage = "PACKAGING" => r.items # NULL

\* Between serial requests a later stage has at most one task per order.
OneTaskPerStage ==
  \A o, p \in At(ops, Stages \ CutStages) :
     ops[o].stage = ops[p].stage => o = p

StartKept ==
  \A o \in Live(ops) : (o \in Live(ops') /\ ops[o].started # NULL) =>
     ops'[o].started = ops[o].started

\* startedAt is "set once ... (never overwritten)".
StartedOnce == [][StartKept]_vars

StartedThroughGate ==
  \A o \in Live(ops') :
     (/\ ops'[o].status \in {"IN_PROGRESS", "COMPLETE"}
      /\ o \in Live(ops) => ops[o].status \notin Work)
        => GateOpen(ops'[o].stage)

\* A task only goes to IN_PROGRESS or COMPLETE from a status that is no work
\* status when the prerequisite that applies to its stage is met.
StartsThroughGate == [][StartedThroughGate]_vars

FlowFollowed ==
  (/\ \E o \in Live(ops') : /\ ops'[o].stage \in CutStages
                            /\ ops'[o] # ops[o]
   /\ Flow(ops') > 0)
     => \A o \in At(ops', Stages \ CutStages) :
          ops'[o].status = "COMPLETE" =>
            /\ ops'[o].qty = Flow(ops')
            /\ ops'[o].stage = "PACKAGING" => ops'[o].items = Flow(ops')

\* After a save that changes what a cutting or paper selection produced, and
\* that no other request overlaps, every complete task of a later stage states
\* exactly the new flow, and the packaging task packs it.
CompletedFollowFlow == [][FlowFollowed]_vars

Removed == {o \in Live(ops) : ops'[o] = DELETED}

RemovedWithItsCutting ==
  Removed # {} => \E o \in Removed :
     /\ ops[o].status \notin {"IN_PROGRESS", "COMPLETE"}
     /\ \A p \in Removed \ {o} : /\ ops[o].stage = "PAPER_SELECTION"
                                 /\ Removed = {o, p}
                                 /\ ops[p].stage = "CUTTING"
                                 /\ ops[p].link \in {o, NULL}

\* Deleting removes one task, and with a paper selection at most one cutting;
\* the task the client named is never in progress or complete.
DeletesAtMostItsCutting == [][RemovedWithItsCutting]_vars
=============================================================================
