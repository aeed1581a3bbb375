----------------------- MODULE TaskOperations_proofs -----------------------
(***************************************************************************)
(* What holds of the tasks of an order for every set of requests in        *)
(* flight, whatever they send and however they interleave.                 *)
(*                                                                         *)
(* The rows a request is about to write are computed from rows it read     *)
(* earlier and no longer match the table, so no property of the stored     *)
(* rows is inductive alone: the invariant also holds of every row that     *)
(* waits in a slot.                                                        *)
(*                                                                         *)
(* The second part is about requests that do not overlap: one task of each *)
(* stage, gates, starts, flows and deletes.                                *)
(***************************************************************************)
EXTENDS TaskOperations, TLAPS

\* A row whose status, times and quantities agree.
Consistent(r) ==
  /\ r.status # NULL
  /\ r.completed # NULL <=> r.status \in Done
  /\ r.status \in Work => r.started # NULL
  /\ Positive(r.qty) => r.status \in Done \cup {"PARTIALLY_COMPLETE"}
  /\ (r.status = "COMPLETE" /\ r.stage \notin CutStages) =>
       /\ r.qty # NULL
       /\ r.stage = "PACKAGING" => r.items # NULL

\* A row whose times lie in the past, in the order they must have.
Timely(r, now) ==
  /\ r.started # NULL => r.started <= now
  /\ r.moved # NULL => r.moved <= now
  /\ r.completed # NULL => r.completed <= now
  /\ (r.completed # NULL /\ r.started # NULL) => r.started <= r.completed
  /\ (r.completed # NULL /\ r.moved # NULL) => r.moved <= r.completed

Good(r, now) == Consistent(r) /\ Timely(r, now)

Pending == {s \in Slots : slot[s] # NULL /\ slot[s].kind = "upsert"}

\* What a request will insert is good, and once inserted it is in the form
\* the table holds.
Sound(request, now) ==
  /\ Good(Stored(request.row), now)
  /\ request.flow # NULL => Stored(request.row) = request.row

\* The inductive invariant.
IInv ==
  /\ TypeOK
  /\ \A o \in Live(ops) : Good(ops[o], clock)
  /\ \A s \in Pending : Sound(slot[s], clock)

-----------------------------------------------------------------------------
(* Rows *)

LEMMA LiveRows ==
  ASSUME NEW table \in [OpIds -> Row \cup {NULL, DELETED}],
         NEW o \in Live(table)
  PROVE  o \in OpIds /\ table[o] \in Row
  BY DEF Live

\* What the clock reads later is still late enough.
LEMMA GoodLater ==
  ASSUME NEW r \in Row, NEW now \in Stamp, NEW later \in Stamp,
         now <= later, Good(r, now)
  PROVE  Good(r, later)
  <1> USE TaskRowsAssumption
  <1>1. \A x \in Maybe(Stamp) : x # NULL => x \in Nat
    BY DEF Maybe, Stamp
  <1>2. /\ r.started \in Maybe(Stamp) /\ r.moved \in Maybe(Stamp)
        /\ r.completed \in Maybe(Stamp)
    BY DEF Row
  <1> QED
    BY <1>1, <1>2 DEF Good, Timely, Stamp

\* A stored row is a row.
LEMMA StoredRow ==
  ASSUME NEW r \in Row
  PROVE  /\ Stored(r) \in Row
         /\ Stored(Stored(r)) = Stored(r)
         /\ Stored(r).stage = r.stage
  BY TaskRowsAssumption DEF Stored, Supplied, Row, Maybe, Status

\* A row before its quantities are known to fit their columns.
LargeRow ==
  [stage : Stages, link : Maybe(OpIds), status : Maybe(Status),
   qty : Maybe(Nat), items : Maybe(Nat), cuts : Maybe(Nat),
   started : Maybe(Stamp), moved : Maybe(Stamp), completed : Maybe(Stamp)]

\* Every row a request computes is good, whatever was asked for, when the row
\* it starts from is good or is a new one.
LEMMA ResolveGood ==
  ASSUME NEW previous \in Row, NEW c \in Change, NEW available \in Nat,
         NEW now \in Stamp,
         Resolve(previous, c, available, now) \in Row,
         \/ previous = BlankRow(previous.stage)
         \/ Good(previous, now)
  PROVE  Good(Stored(Resolve(previous, c, available, now)), now)
  <1> USE TaskRowsAssumption
  <1> DEFINE m == Merge(previous, c)
             d == CompletionDefaults(m, available)
             a == AutoPartial(d)
             r == StampStatus(a, previous, now)
  <1>0. /\ NULL \notin Done \cup {"PARTIALLY_COMPLETE"}
        /\ NULL \notin Work \cup {"PENDING"}
    BY DEF Status, Done, Work
  <1>1. /\ m.stage = previous.stage /\ m.started = previous.started
        /\ m.moved = previous.moved /\ m.completed = previous.completed
        /\ m.status = NULL => previous.status = NULL
        /\ m \in Row
    BY DEF Merge, Supplied, Row, Change
  <1> HIDE DEF m
  <1>2. /\ d.stage = m.stage /\ d.started = m.started /\ d.status = m.status
        /\ d.moved = m.moved /\ d.completed = m.completed
        /\ (m.status = "COMPLETE" /\ m.stage \notin CutStages) =>
              d.qty # NULL /\ (m.stage = "PACKAGING" => d.items # NULL)
    <2>1. available # NULL
      OBVIOUS
    <2> QED BY <1>1, <2>1 DEF CompletionDefaults, Row, CutStages
  <1>3. d \in LargeRow
    <2>1. m \in LargeRow
      BY <1>1 DEF Row, LargeRow, Maybe, Quantity
    <2> QED
      <3>1. /\ m.qty \in Maybe(Nat) /\ m.items \in Maybe(Nat)
            /\ available \in Maybe(Nat)
        BY <2>1 DEF LargeRow, Maybe
      <3> QED
        BY <2>1, <3>1 DEF CompletionDefaults, LargeRow
  <1> HIDE DEF d
  <1>4. /\ a.stage = d.stage /\ a.started = d.started /\ a.moved = d.moved
        /\ a.completed = d.completed /\ a.qty = d.qty /\ a.items = d.items
        /\ a \in LargeRow
        /\ a.status \in {d.status, "PARTIALLY_COMPLETE"}
        /\ Positive(a.qty) => a.status \in Done \cup {"PARTIALLY_COMPLETE"}
    BY <1>3 DEF AutoPartial, LargeRow, Maybe, Status, Done
  <1> HIDE DEF a
  <1>5. /\ r.stage = a.stage /\ r.qty = a.qty /\ r.items = a.items
        /\ r.status = a.status
        /\ r \in LargeRow
        /\ a.status = NULL => r = a
        /\ a.status # NULL =>
             /\ r.moved = IF a.status # previous.status THEN now ELSE a.moved
             /\ r.started = IF a.status \in Work /\ previous.started = NULL
                            THEN now ELSE a.started
             /\ r.completed = IF a.status \in Done THEN now
                              ELSE IF previous.status \in Done THEN NULL
                              ELSE a.completed
    <2>1. CASE a.status = NULL
      BY <1>4, <2>1 DEF StampStatus
    <2>2. CASE a.status # NULL
      <3>1. /\ now \in Maybe(Stamp) /\ NULL \in Maybe(Stamp)
            /\ a.started \in Maybe(Stamp) /\ a.moved \in Maybe(Stamp)
            /\ a.completed \in Maybe(Stamp)
        BY <1>4 DEF LargeRow, Maybe
      <3> QED
        BY <1>4, <2>2, <3>1 DEF StampStatus, LargeRow
    <2> QED
      BY <2>1, <2>2
  <1>6. r = Resolve(previous, c, available, now)
    BY DEF Resolve, r, a, d, m
  <1> HIDE DEF r
  <1>7. /\ previous.completed # NULL => previous.status \in Done
        /\ previous.status \in Work => previous.started # NULL
        /\ Timely(previous, now)
    <2>1. CASE Good(previous, now)
      BY <2>1 DEF Good, Consistent
    <2>2. CASE previous = BlankRow(previous.stage)
      <3>1. /\ previous.status = NULL /\ previous.completed = NULL
            /\ previous.started = NULL /\ previous.moved = NULL
        BY <2>2 DEF BlankRow
      <3> QED
        BY <1>0, <3>1 DEF Timely
    <2> QED
      BY <2>1, <2>2
  <1>8. CASE a.status = NULL
    <2>1. previous.status = NULL
      BY <1>0, <1>1, <1>2, <1>4, <1>8
    <2>2. previous = BlankRow(previous.stage)
      BY <2>1 DEF Good, Consistent
    <2>3. /\ previous.started = NULL /\ previous.moved = NULL
          /\ previous.completed = NULL
      BY <2>2 DEF BlankRow
    <2>4. /\ r.started = NULL /\ r.moved = NULL /\ r.completed = NULL
          /\ ~Positive(r.qty) /\ r.status = NULL
      BY <1>0, <1>1, <1>2, <1>4, <1>5, <1>8, <2>3
    <2> DEFINE w == Stored(r)
    <2>5. /\ w.status = "PENDING" /\ w.qty = r.qty /\ w.started = NULL
          /\ w.moved = NULL /\ w.completed = NULL
      BY <1>5, <2>4 DEF Stored, Supplied, LargeRow
    <2> HIDE DEF w
    <2>6. Good(w, now)
      BY <1>0, <2>4, <2>5 DEF Good, Consistent, Timely, Done, Work
    <2> QED
      BY <1>6, <2>6 DEF w
  <1>9. CASE a.status # NULL
    <2> DEFINE w == Stored(r)
    <2>1. w = r
      BY <1>5, <1>9 DEF Stored, Supplied, LargeRow
    <2>2. Consistent(r)
      <3>1. /\ r.completed # NULL <=> r.status \in Done
            /\ r.status \in Work => r.started # NULL
        BY <1>1, <1>2, <1>4, <1>5, <1>7, <1>9 DEF Stamp
      <3>2. (r.status = "COMPLETE" /\ r.stage \notin CutStages) =>
              r.qty # NULL /\ (r.stage = "PACKAGING" => r.items # NULL)
        BY <1>2, <1>4, <1>5
      <3> QED
        BY <1>4, <1>5, <1>9, <3>1, <3>2 DEF Consistent
    <2>3. Timely(r, now)
      <3>1. /\ r.started \in {now, previous.started}
            /\ r.moved \in {now, previous.moved}
            /\ r.completed \in {now, NULL}
        BY <1>1, <1>2, <1>4, <1>5, <1>7, <1>9
      <3>2. now \in Nat /\ now # NULL
        BY DEF Stamp
      <3> QED
        BY <1>7, <3>1, <3>2 DEF Timely
    <2> QED
      BY <1>6, <2>1, <2>2, <2>3 DEF Good
  <1> QED
    BY <1>8, <1>9

-----------------------------------------------------------------------------
(* The table *)

LEMMA RowIsLive == \A r \in Row : r \notin {NULL, DELETED}
  BY TaskOperationsAssumption

\* Bringing the complete tasks up to date keeps every task of the table good
\* and leaves the cuttings and paper selections alone.
LEMMA SyncedGood ==
  ASSUME NEW table \in [OpIds -> Row \cup {NULL, DELETED}],
         NEW flow \in Quantity, NEW now \in Stamp,
         \A o \in Live(table) : Good(table[o], now)
  PROVE  /\ Synced(table, flow) \in [OpIds -> Row \cup {NULL, DELETED}]
         /\ \A o \in Live(Synced(table, flow)) : Good(Synced(table, flow)[o], now)
  <1> DEFINE t == Synced(table, flow)
  <1> SUFFICES ASSUME NEW o \in OpIds
               PROVE  /\ t[o] \in Row \cup {NULL, DELETED}
                      /\ t[o] \notin {NULL, DELETED} => Good(t[o], now)
    BY DEF Synced, Live
  <1> DEFINE hit == /\ flow > 0 /\ o \in At(table, Stages \ CutStages)
                    /\ table[o].status = "COMPLETE"
  <1>1. CASE ~hit
    BY <1>1 DEF Synced, Live
  <1>2. CASE hit
    <2> DEFINE p == table[o]
               r == [p EXCEPT !.qty = flow,
                       !.items = IF p.stage = "PACKAGING" THEN flow ELSE @]
    <2>1. t[o] = r
      BY <1>2 DEF Synced
    <2>2. p \in Row /\ Good(p, now) /\ p.status = "COMPLETE"
      BY <1>2, LiveRows DEF At, Live
    <2>3. flow \in Maybe(Quantity) /\ flow # NULL
      BY TaskRowsAssumption DEF Maybe, Quantity
    <2>4. /\ r \in Row
          /\ r.qty = flow /\ r.stage = p.stage /\ r.status = p.status
          /\ p.stage = "PACKAGING" => r.items = flow
          /\ r.started = p.started /\ r.moved = p.moved
          /\ r.completed = p.completed
      BY <2>2, <2>3 DEF Row
    <2> HIDE DEF r, p
    <2>5. Good(r, now)
      BY <2>2, <2>3, <2>4 DEF Good, Consistent, Timely, Done
    <2> QED
      BY <2>1, <2>4, <2>5
  <1> QED
    BY <1>1, <1>2

-----------------------------------------------------------------------------
(* Requests *)

\* A request that starts from a task as it stands, or from a new row, holds a
\* good row from then on.
LEMMA BeginUpsertInv ==
  ASSUME IInv, NEW s \in Slots, NEW target \in Maybe(OpIds),
         NEW previous \in Row, NEW c \in Changes,
         \/ previous = BlankRow(previous.stage)
         \/ Good(previous, clock),
         BeginUpsert(s, target, previous, c)
  PROVE  IInv'
  <1> DEFINE row == Resolve(previous, c, Available, clock)
             req == [kind |-> "upsert", op |-> target, row |-> row,
                     flow |-> NULL]
  <1>1. /\ row \in Row /\ Available \in Nat
        /\ slot' = [slot EXCEPT ![s] = req]
        /\ UNCHANGED <<ops, prereq, override, clock>>
    BY DEF BeginUpsert
  <1>2. c \in Change /\ clock \in Stamp
    BY TaskOperationsAssumption DEF IInv, TypeOK
  <1>3. Good(Stored(row), clock)
    BY <1>1, <1>2, ResolveGood
  <1> HIDE DEF row
  <1>4. req \in Request
    BY <1>1 DEF Request, Maybe
  <1>5. TypeOK'
    BY <1>1, <1>4 DEF IInv, TypeOK, Maybe
  <1>6. \A o \in Live(ops)' : Good(ops[o], clock)'
    BY <1>1 DEF IInv, Live
  <1>7. ASSUME NEW x \in Pending'
        PROVE  Sound(slot'[x], clock')
    <2>1. CASE x = s
      <3>1. slot'[x] = req
        BY <1>1, <2>1 DEF IInv, TypeOK
      <3> QED
        BY <1>1, <1>3, <3>1 DEF Sound
    <2>2. CASE x # s
      <3>1. x \in Pending /\ slot'[x] = slot[x]
        BY <1>1, <1>7, <2>2 DEF Pending, IInv, TypeOK
      <3> QED
        BY <1>1, <3>1 DEF IInv
    <2> QED
      BY <2>1, <2>2
  <1> QED
    BY <1>5, <1>6, <1>7 DEF IInv

\* A new row is a row.
LEMMA BlankIsRow ==
  ASSUME NEW stage \in Stages
  PROVE  /\ BlankRow(stage) \in Row
         /\ BlankRow(stage) = BlankRow(BlankRow(stage).stage)
  BY DEF BlankRow, Row, Maybe

\* Writing puts the row in its stored form and changes nothing committed.
LEMMA WriteUpsertInv ==
  ASSUME IInv, NEW s \in Slots, WriteUpsert(s)
  PROVE  IInv'
  <1>1. PICK o \in OpIds :
          /\ FlowAfter(o, Stored(slot[s].row)) \in Quantity
          /\ slot' = [slot EXCEPT ![s] =
                        [kind |-> "upsert", op |-> o,
                         row  |-> Stored(slot[s].row),
                         flow |-> FlowAfter(o, Stored(slot[s].row))]]
    BY DEF WriteUpsert
  <1>2. s \in Pending /\ UNCHANGED <<ops, prereq, override, clock>>
    BY DEF WriteUpsert, Pending
  <1> DEFINE row == Stored(slot[s].row)
             flow == FlowAfter(o, row)
             req == [kind |-> "upsert", op |-> o, row |-> row, flow |-> flow]
  <1>3. slot[s] \in Request
    BY <1>2 DEF Pending, IInv, TypeOK, Maybe
  <1>4. row \in Row /\ Stored(row) = row
    BY <1>3, StoredRow DEF Request
  <1>5. Good(row, clock)
    BY <1>2 DEF IInv, Sound
  <1> HIDE DEF row, flow
  <1>6. slot' = [slot EXCEPT ![s] = req] /\ req \in Request
    BY <1>1, <1>4 DEF row, flow, Request, Maybe
  <1>7. TypeOK'
    BY <1>2, <1>6 DEF IInv, TypeOK, Maybe
  <1>8. \A x \in Live(ops)' : Good(ops[x], clock)'
    BY <1>2 DEF IInv, Live
  <1>9. ASSUME NEW x \in Pending'
        PROVE  Sound(slot'[x], clock')
    <2>1. CASE x = s
      <3>1. slot'[x] = req
        BY <1>6, <2>1 DEF IInv, TypeOK
      <3> QED
        BY <1>2, <1>4, <1>5, <3>1 DEF Sound
    <2>2. CASE x # s
      <3>1. x \in Pending /\ slot'[x] = slot[x]
        BY <1>6, <1>9, <2>2 DEF Pending, IInv, TypeOK
      <3> QED
        BY <1>2, <3>1 DEF IInv
    <2> QED
      BY <2>1, <2>2
  <1> QED
    BY <1>7, <1>8, <1>9 DEF IInv

\* A request that ends leaves the rows of the others as they are.
LEMMA SlotFreed ==
  ASSUME IInv, NEW s \in Slots, slot' = [slot EXCEPT ![s] = NULL],
         UNCHANGED clock
  PROVE  /\ slot' \in [Slots -> Maybe(Request)]
         /\ \A x \in Pending' : Sound(slot'[x], clock')
  <1>1. slot' \in [Slots -> Maybe(Request)]
    BY DEF IInv, TypeOK, Maybe
  <1>2. ASSUME NEW x \in Pending'
        PROVE  x \in Pending /\ slot'[x] = slot[x]
    BY <1>2 DEF Pending, IInv, TypeOK
  <1> QED
    BY <1>1, <1>2 DEF IInv

LEMMA CommitUpsertInv ==
  ASSUME IInv, NEW s \in Slots, CommitUpsert(s)
  PROVE  IInv'
  <1> DEFINE o == slot[s].op
             row == slot[s].row
             flow == slot[s].flow
             table == [ops EXCEPT ![o] = row]
  <1>1. /\ s \in Pending /\ flow # NULL
        /\ ops' = Synced(table, flow)
        /\ slot' = [slot EXCEPT ![s] = NULL]
        /\ UNCHANGED <<prereq, override, clock>>
    BY DEF CommitUpsert, Pending
  <1>2. slot[s] \in Request
    BY <1>1 DEF Pending, IInv, TypeOK, Maybe
  <1>3. flow \in Quantity /\ row \in Row /\ clock \in Stamp
    BY <1>1, <1>2 DEF Request, Maybe, IInv, TypeOK
  <1>4. table \in [OpIds -> Row \cup {NULL, DELETED}]
    BY <1>3 DEF IInv, TypeOK
  <1>5. row = Stored(row) /\ Good(row, clock)
    BY <1>1 DEF IInv, Sound
  <1>6. \A x \in Live(table) : Good(table[x], clock)
    BY <1>5 DEF IInv, TypeOK, Live
  <1> HIDE DEF table, row, flow
  <1>7. /\ ops' \in [OpIds -> Row \cup {NULL, DELETED}]
        /\ \A x \in Live(ops') : Good(ops'[x], clock)
    BY <1>1, <1>3, <1>4, <1>6, SyncedGood
  <1>8. TypeOK'
    BY <1>1, <1>7, SlotFreed DEF IInv, TypeOK
  <1> QED
    BY <1>1, <1>7, <1>8, SlotFreed DEF IInv, Live

\* Deleting takes tasks away and changes none.
LEMMA CommitDeleteInv ==
  ASSUME IInv, NEW s \in Slots, CommitDelete(s)
  PROVE  IInv'
  <1>1. PICK gone \in SUBSET OpIds :
          ops' = [o \in OpIds |-> IF o \in gone THEN DELETED ELSE ops[o]]
    <2>1. PICK cut \in Cascades(slot[s].op, slot[s].row.stage) :
            ops' = [o \in OpIds |-> IF o \in cut \cup {slot[s].op}
                                    THEN DELETED ELSE ops[o]]
      BY DEF CommitDelete
    <2>2. WITNESS (cut \cup {slot[s].op}) \cap OpIds \in SUBSET OpIds
    <2> QED
      BY <2>1
  <1>2. /\ slot' = [slot EXCEPT ![s] = NULL]
        /\ UNCHANGED <<prereq, override, clock>>
    BY DEF CommitDelete
  <1>3. TypeOK'
    BY <1>1, <1>2, SlotFreed DEF IInv, TypeOK
  <1>4. \A o \in Live(ops)' : o \in Live(ops) /\ ops'[o] = ops[o]
    BY <1>1 DEF Live
  <1> QED
    BY <1>2, <1>3, <1>4, SlotFreed DEF IInv

\* The clock only moves on.
LEMMA TickInv ==
  ASSUME IInv, Tick
  PROVE  IInv'
  <1>1. /\ clock \in Stamp /\ clock' \in Stamp /\ clock <= clock'
        /\ UNCHANGED <<ops, prereq, override, slot>>
    BY TaskRowsAssumption DEF Tick, IInv, TypeOK, Stamp
  <1>2. TypeOK'
    BY <1>1 DEF IInv, TypeOK
  <1>3. \A o \in Live(ops)' : Good(ops[o], clock)'
    <2> SUFFICES ASSUME NEW o \in Live(ops) PROVE Good(ops[o], clock')
      BY <1>1 DEF Live
    <2>1. ops[o] \in Row /\ Good(ops[o], clock)
      BY LiveRows DEF IInv, TypeOK
    <2> QED
      BY <1>1, <2>1, GoodLater
  <1>4. \A x \in Pending' : Sound(slot[x], clock)'
    <2> SUFFICES ASSUME NEW x \in Pending PROVE Sound(slot[x], clock')
      BY <1>1 DEF Pending
    <2>1. slot[x] \in Request
      BY DEF Pending, IInv, TypeOK, Maybe
    <2>2. Stored(slot[x].row) \in Row
      BY <2>1, StoredRow DEF Request
    <2>3. Sound(slot[x], clock)
      BY DEF IInv
    <2> QED
      BY <1>1, <2>2, <2>3, GoodLater DEF Sound
  <1> QED
    BY <1>2, <1>3, <1>4 DEF IInv

\* An override that is saved again stays well formed.
LEMMA OverriddenType ==
  ASSUME NEW old \in Maybe(Prerequisite), NEW required \in Maybe(Stages),
         NEW threshold \in {"partial_any", "full", "percentage"}
  PROVE  Overridden(old, required, threshold) \in Maybe(Prerequisite)
  BY DEF Overridden, Prerequisite, Maybe

\* Prerequisites and overrides are no part of what tasks must satisfy.
LEMMA SettingsInv ==
  ASSUME IInv, UNCHANGED <<ops, slot, clock>>,
         prereq' \in [Stages -> Maybe(Prerequisite)],
         override' \in [Stages -> Maybe(Prerequisite)]
  PROVE  IInv'
  BY DEF IInv, TypeOK, Live, Pending

-----------------------------------------------------------------------------
(* The specification *)

LEMMA InitInv == Init => IInv
  <1> SUFFICES ASSUME Init PROVE IInv
    OBVIOUS
  <1>1. TypeOK
    BY TaskRowsAssumption DEF Init, TypeOK, Maybe, Stamp
  <1>2. Live(ops) = {} /\ Pending = {}
    BY DEF Init, Live, Pending
  <1> QED
    BY <1>1, <1>2 DEF IInv

LEMMA NextInv == IInv /\ [Next]_vars => IInv'
  <1> SUFFICES ASSUME IInv, [Next]_vars PROVE IInv'
    OBVIOUS
  <1> USE DEF Maybe
  <1>1. \A o \in Live(ops) : o \in OpIds /\ ops[o] \in Row /\ Good(ops[o], clock)
    BY LiveRows DEF IInv, TypeOK
  <1>2. ASSUME NEW s \in Slots, UpsertById(s) PROVE IInv'
    <2>1. PICK o \in Live(ops), c \in Changes : BeginUpsert(s, o, ops[o], c)
      BY <1>2 DEF UpsertById
    <2> QED
      BY <1>1, <2>1, BeginUpsertInv
  <1>3. ASSUME NEW s \in Slots, NEW stage, NEW c \in Changes,
               BeginUpsert(s, NULL, BlankRow(stage), c)
        PROVE  IInv'
    <2>1. stage \in Stages
      BY <1>3 DEF BeginUpsert, BlankRow
    <2> QED
      BY <1>3, <2>1, BlankIsRow, BeginUpsertInv
  <1>4. ASSUME NEW s \in Slots, UpsertCutting(s) PROVE IInv'
    <2>1. PICK c \in Changes :
            \/ \E o \in At(ops, {"CUTTING"}) : BeginUpsert(s, o, ops[o], c)
            \/ BeginUpsert(s, NULL, BlankRow("CUTTING"), c)
      BY <1>4 DEF UpsertCutting
    <2>2. CASE \E o \in At(ops, {"CUTTING"}) : BeginUpsert(s, o, ops[o], c)
      BY <1>1, <2>2, BeginUpsertInv DEF At
    <2> QED
      BY <1>3, <2>1, <2>2
  <1>5. ASSUME NEW s \in Slots, UpsertPaperSelection(s) PROVE IInv'
    <2>1. PICK c \in Changes :
            \/ \E o \in At(ops, {"PAPER_SELECTION"}) :
                  BeginUpsert(s, o, ops[o], c)
            \/ BeginUpsert(s, NULL, BlankRow("PAPER_SELECTION"), c)
      BY <1>5 DEF UpsertPaperSelection
    <2>2. CASE \E o \in At(ops, {"PAPER_SELECTION"}) :
                 BeginUpsert(s, o, ops[o], c)
      BY <1>1, <2>2, BeginUpsertInv DEF At
    <2> QED
      BY <1>3, <2>1, <2>2
  <1>6. ASSUME NEW s \in Slots, UpsertStage(s) PROVE IInv'
    <2>1. PICK c \in Changes, stage \in Stages \ CutStages :
            \/ \E o \in At(ops, {stage}) : BeginUpsert(s, o, ops[o], c)
            \/ BeginUpsert(s, NULL, BlankRow(stage), c)
      BY <1>6 DEF UpsertStage
    <2>2. CASE \E o \in At(ops, {stage}) : BeginUpsert(s, o, ops[o], c)
      BY <1>1, <2>2, BeginUpsertInv DEF At
    <2> QED
      BY <1>3, <2>1, <2>2
  <1>7. ASSUME NEW s \in Slots, BeginDelete(s) PROVE IInv'
    <2>1. PICK o \in Live(ops) :
            /\ slot' = [slot EXCEPT ![s] = [kind |-> "delete", op |-> o,
                                            row |-> ops[o], flow |-> NULL]]
            /\ UNCHANGED <<ops, prereq, override, clock>>
      BY <1>7 DEF BeginDelete
    <2>2. [kind |-> "delete", op |-> o, row |-> ops[o], flow |-> NULL] \in Request
      BY <1>1 DEF Request
    <2>3. TypeOK'
      BY <2>1, <2>2 DEF IInv, TypeOK
    <2>4. \A x \in Pending' : x \in Pending /\ slot'[x] = slot[x]
      BY <2>1 DEF Pending, IInv, TypeOK
    <2> QED
      BY <2>1, <2>3, <2>4 DEF IInv, Live
  <1>8. ASSUME NEW s \in Slots, RollBack(s) PROVE IInv'
    BY <1>8, SlotFreed DEF RollBack, IInv, TypeOK, Live
  <1>9. ASSUME NEW stage \in Gated, NEW threshold \in Thresholds,
               NEW required \in Maybe(Required),
               \/ SetPrerequisite(stage, required, threshold) /\ required # NULL
               \/ SetOverride(stage, required, threshold)
        PROVE  IInv'
    <2>1. /\ required \in Maybe(Stages)
          /\ threshold \in {"partial_any", "full", "percentage"}
          /\ [required |-> required, threshold |-> threshold] \in Prerequisite
      BY TaskOperationsAssumption DEF Prerequisite
    <2>2. stage \in Stages
      BY TaskOperationsAssumption
    <2>3. Overridden(override[stage], required, threshold)
            \in Maybe(Prerequisite)
      BY <2>1, <2>2, OverriddenType DEF IInv, TypeOK
    <2>4. /\ prereq' \in [Stages -> Maybe(Prerequisite)]
          /\ override' \in [Stages -> Maybe(Prerequisite)]
          /\ UNCHANGED <<ops, slot, clock>>
      BY <1>9, <2>1, <2>3 DEF SetPrerequisite, SetOverride, IInv, TypeOK
    <2> QED
      BY <2>4, SettingsInv
  <1>10. ASSUME NEW stage \in Gated,
                DeletePrerequisite(stage) \/ DeleteOverride(stage)
         PROVE  IInv'
    <2>1. /\ prereq' \in [Stages -> Maybe(Prerequisite)]
          /\ override' \in [Stages -> Maybe(Prerequisite)]
          /\ UNCHANGED <<ops, slot, clock>>
      BY <1>10 DEF DeletePrerequisite, DeleteOverride, IInv, TypeOK
    <2> QED
      BY <2>1, SettingsInv
  <1>11. CASE UNCHANGED vars
    BY <1>11 DEF vars, IInv, TypeOK, Live, Pending
  <1>12. \A x \in Required : x # NULL
    BY TaskRowsAssumption, TaskOperationsAssumption
  <1> QED
    BY <1>2, <1>4, <1>5, <1>6, <1>7, <1>8, <1>9, <1>10, <1>11, <1>12,
       WriteUpsertInv, CommitUpsertInv, CommitDeleteInv, TickInv DEF Next

LEMMA Invariance == Spec => []IInv
  BY InitInv, NextInv, PTL DEF Spec

\* Every variable keeps its type: no request, however it overlaps others,
\* leaves a value in the tables that their columns do not allow.
THEOREM TypeCorrect == Spec => []TypeOK
  <1>1. IInv => TypeOK
    BY DEF IInv
  <1> QED
    BY <1>1, Invariance, PTL

\* Lost updates, duplicate tasks and quantities brought up to date by others
\* notwithstanding, the completion time and the start time of every task agree
\* with its status (applyStatusTimestamps).
THEOREM TimestampsAgree == Spec => []TimestampsMatchStatus
  <1>1. IInv => TimestampsMatchStatus
    BY DEF IInv, Good, Consistent, TimestampsMatchStatus, Rows
  <1> QED
    BY <1>1, Invariance, PTL

\* No task ever ends before it starts or before it last moved.
THEOREM TimelineHolds == Spec => []TimelineOrdered
  <1>1. IInv => TimelineOrdered
    BY DEF IInv, Good, Timely, TimelineOrdered, Rows
  <1> QED
    BY <1>1, Invariance, PTL

\* Recorded output always shows in the status (applyAutoPartialStatus).
THEOREM OutputShows == Spec => []QuantityImpliesProgress
  <1>1. IInv => QuantityImpliesProgress
    BY DEF IInv, Good, Consistent, QuantityImpliesProgress, Rows
  <1> QED
    BY <1>1, Invariance, PTL

\* A complete later task always states its quantity, the packaging task also
\* the quantity it packed (applyCompletionQuantityDefaults).
THEOREM CompletionStated == Spec => []CompletedStatesQuantity
  <1>1. IInv => CompletedStatesQuantity
    BY DEF IInv, Good, Consistent, CompletedStatesQuantity, Rows
  <1> QED
    BY <1>1, Invariance, PTL

-----------------------------------------------------------------------------
(* One request at a time *)

\* Requests are serial when there is one slot to hold them.
Serial == \A s, t \in Slots : s = t

\* What a request that saves a task knows of the table, which nobody changes
\* before it commits: whether its task is new, when an old one was started,
\* that it may start, and the flow after its own write.
FreshSave(q) ==
  /\ q.op \notin Live(ops) => /\ q.flow = NULL => q.op = NULL
                              /\ \/ q.row.stage \in CutStages
                                 \/ At(ops, {q.row.stage}) = {}
  /\ q.op \in Live(ops) => /\ q.row.stage = ops[q.op].stage
                           /\ ops[q.op].started # NULL
                                => q.row.started = ops[q.op].started
  /\ (/\ q.row.status \in {"IN_PROGRESS", "COMPLETE"}
      /\ q.op \in Live(ops) => ops[q.op].status \notin Work)
        => GateOpen(q.row.stage)
  /\ q.flow # NULL => /\ q.op \in OpIds /\ ops[q.op] # DELETED
                      /\ q.flow = FlowAfter(q.op, q.row)

\* What a request that deletes a task knows of it.
FreshDelete(q) ==
  /\ q.op \in Live(ops) /\ q.row = ops[q.op]
  /\ ops[q.op].status \notin {"IN_PROGRESS", "COMPLETE"}

\* The request in flight, if there is one, has read the table as it stands.
Fresh ==
  \A s \in Slots : slot[s] # NULL =>
     /\ slot[s].kind = "upsert" => FreshSave(slot[s])
     /\ slot[s].kind = "delete" => FreshDelete(slot[s])

SerialInv == OneTaskPerStage /\ Fresh

\* The row a request computes is of the stage of the row it starts from, keeps
\* its start time, and is at work only if the request asked for that.
LEMMA ResolveKeeps ==
  ASSUME NEW previous \in Row, NEW c \in Change, NEW available \in Nat,
         NEW now \in Stamp
  PROVE  LET row == Resolve(previous, c, available, now)
         IN  /\ row.stage = previous.stage
             /\ previous.started # NULL => row.started = previous.started
             /\ row.status \in {"IN_PROGRESS", "COMPLETE"}
                  => row.status = Merge(previous, c).status
  <1> DEFINE m == Merge(previous, c)
             d == CompletionDefaults(m, available)
             a == AutoPartial(d)
             r == StampStatus(a, previous, now)
  <1>1. /\ m.stage = previous.stage /\ m.started = previous.started
        /\ m \in Row
    BY DEF Merge, Supplied, Row, Change
  <1> HIDE DEF m
  <1>2. /\ d.stage = m.stage /\ d.started = m.started /\ d.status = m.status
        /\ DOMAIN d = DOMAIN m
    BY <1>1 DEF CompletionDefaults, Row
  <1>3. DOMAIN m = {"stage", "link", "status", "qty", "items", "cuts",
                    "started", "moved", "completed"}
    BY <1>1 DEF Row
  <1> HIDE DEF d
  <1>4. /\ a.stage = d.stage /\ a.started = d.started /\ DOMAIN a = DOMAIN d
        /\ a.status \in {d.status, "PARTIALLY_COMPLETE"}
    BY <1>2, <1>3 DEF AutoPartial
  <1> HIDE DEF a
  <1>5. /\ r.stage = a.stage /\ r.status = a.status
        /\ previous.started # NULL => r.started = a.started
    BY <1>2, <1>3, <1>4 DEF StampStatus
  <1>6. r = Resolve(previous, c, available, now)
    BY DEF Resolve, r, a, d, m
  <1> HIDE DEF r
  <1>7. /\ r.stage = previous.stage
        /\ previous.started # NULL => r.started = previous.started
        /\ r.status \in {"IN_PROGRESS", "COMPLETE"} => r.status = m.status
    BY <1>1, <1>2, <1>4, <1>5
  <1> QED
    BY <1>6, <1>7 DEF m

\* A step that leaves the tables alone keeps what requests know of them.
LEMMA FreshStays ==
  ASSUME UNCHANGED <<ops, prereq, override>>, NEW q
  PROVE  /\ FreshSave(q)' <=> FreshSave(q)
         /\ FreshDelete(q)' <=> FreshDelete(q)
         /\ OneTaskPerStage' <=> OneTaskPerStage
  <1>1. \A stage : GateOpen(stage)' <=> GateOpen(stage)
    BY DEF GateOpen, PrerequisiteOf, At, Live
  <1>2. \A o, row : FlowAfter(o, row)' = FlowAfter(o, row)
    BY DEF FlowAfter
  <1> QED
    BY <1>1, <1>2 DEF FreshSave, FreshDelete, OneTaskPerStage, At, Live

\* While the only slot is free nothing is to be known.
LEMMA FreeIsFresh ==
  ASSUME Serial, NEW s \in Slots, slot'[s] = NULL
  PROVE  Fresh'
  BY DEF Serial, Fresh

LEMMA BeginUpsertSerial ==
  ASSUME Serial, IInv, SerialInv, NEW s \in Slots,
         NEW target \in Maybe(OpIds), NEW previous \in Row, NEW c \in Changes,
         BeginUpsert(s, target, previous, c),
         \/ target \in Live(ops) /\ previous = ops[target]
         \/ /\ target = NULL /\ previous = BlankRow(previous.stage)
            /\ \/ previous.stage \in CutStages
               \/ At(ops, {previous.stage}) = {}
  PROVE  SerialInv'
  <1> DEFINE row == Resolve(previous, c, Available, clock)
             req == [kind |-> "upsert", op |-> target, row |-> row,
                     flow |-> NULL]
  <1>1. /\ Available \in Nat /\ MayStart(previous, Merge(previous, c))
        /\ slot' = [slot EXCEPT ![s] = req]
        /\ UNCHANGED <<ops, prereq, override, clock>>
    BY DEF BeginUpsert
  <1>2. c \in Change /\ clock \in Stamp
    BY TaskOperationsAssumption DEF IInv, TypeOK
  <1>3. /\ row.stage = previous.stage
        /\ previous.started # NULL => row.started = previous.started
        /\ row.status \in {"IN_PROGRESS", "COMPLETE"}
             => row.status = Merge(previous, c).status
    BY <1>1, <1>2, ResolveKeeps
  <1>4. Merge(previous, c).stage = previous.stage
    BY DEF Merge, Row
  <1> HIDE DEF row
  <1>5. (/\ row.status \in {"IN_PROGRESS", "COMPLETE"}
         /\ previous.status \notin Work) => GateOpen(row.stage)
    BY <1>1, <1>3, <1>4 DEF MayStart, Work
  <1>6. \/ target \in Live(ops) /\ previous = ops[target]
        \/ /\ target \notin Live(ops) /\ target = NULL
           /\ previous.status \notin Work
           /\ previous.stage \in CutStages \/ At(ops, {previous.stage}) = {}
    <2>1. BlankRow(previous.stage).status \notin Work
      BY TaskRowsAssumption DEF BlankRow, Work, Status
    <2>2. NULL \notin Live(ops)
      BY TaskRowsAssumption DEF Live
    <2> QED
      BY <2>1, <2>2
  <1>7. FreshSave(req)
    BY <1>3, <1>5, <1>6 DEF FreshSave
  <1>8. slot'[s] = req
    BY <1>1 DEF IInv, TypeOK
  <1>9. \A x \in Slots : slot'[x] = req
    BY <1>8 DEF Serial
  <1> HIDE DEF req
  <1>10. req.kind = "upsert"
    BY DEF req
  <1> QED
    BY <1>1, <1>7, <1>9, <1>10, FreshStays DEF SerialInv, Fresh

\* The row is locked as it was computed, in the form the table holds, and the
\* flow is read.
LEMMA WriteUpsertSerial ==
  ASSUME Serial, IInv, SerialInv, NEW s \in Slots, WriteUpsert(s)
  PROVE  SerialInv'
  <1>1. /\ slot[s] # NULL /\ slot[s].kind = "upsert" /\ slot[s].flow = NULL
        /\ UNCHANGED <<ops, prereq, override, clock>>
    BY DEF WriteUpsert
  <1> DEFINE row == Stored(slot[s].row)
             req(o) == [kind |-> "upsert", op |-> o, row |-> row,
                        flow |-> FlowAfter(o, row)]
  <1>2. PICK o \in OpIds :
          /\ IF slot[s].op = NULL THEN ops[o] = NULL
             ELSE o = slot[s].op /\ o \in Live(ops)
          /\ FlowAfter(o, row) \in Quantity
          /\ slot' = [slot EXCEPT ![s] = req(o)]
    BY DEF WriteUpsert
  <1> DEFINE q == slot[s]
  <1>3. q \in Request /\ FreshSave(q)
    BY <1>1 DEF IInv, TypeOK, Maybe, SerialInv, Fresh
  <1>4. /\ row.stage = q.row.stage /\ row.started = q.row.started
        /\ row.status \in {"IN_PROGRESS", "COMPLETE"}
             => row.status = q.row.status
    BY <1>3 DEF Stored, Supplied, Request, Row
  <1>5. /\ o \notin Live(ops) => q.op \notin Live(ops)
        /\ o \in Live(ops) => o = q.op
        /\ ops[o] # DELETED
    BY <1>2, <1>1, TaskRowsAssumption, TaskOperationsAssumption DEF Live
  <1> HIDE DEF row, q
  <1>6. FreshSave(req(o))
    BY <1>2, <1>3, <1>4, <1>5, TaskRowsAssumption DEF FreshSave, Quantity
  <1>7. \A x \in Slots : slot'[x] = req(o)
    BY <1>2 DEF IInv, TypeOK, Serial
  <1>8. req(o).kind = "upsert"
    OBVIOUS
  <1> HIDE DEF req
  <1> QED
    BY <1>1, <1>6, <1>7, <1>8, FreshStays DEF SerialInv, Fresh

\* What a save commits, when nobody was in its way: the row it computed and
\* the complete later tasks brought up to the flow; nothing else.
LEMMA Saved ==
  ASSUME Serial, IInv, SerialInv, NEW s \in Slots, CommitUpsert(s)
  PROVE  /\ slot[s].op \in OpIds /\ ops[slot[s].op] # DELETED
         /\ slot[s] \in Request /\ FreshSave(slot[s])
         /\ slot[s].flow \in Quantity
         /\ ops' = Synced([ops EXCEPT ![slot[s].op] = slot[s].row],
                          slot[s].flow)
         /\ slot[s].row \notin {NULL, DELETED} /\ slot'[s] = NULL
         /\ slot[s].flow = FlowAfter(slot[s].op, slot[s].row)
  <1>1. /\ slot[s] # NULL /\ slot[s].kind = "upsert" /\ slot[s].flow # NULL
        /\ ops' = Synced([ops EXCEPT ![slot[s].op] = slot[s].row],
                         slot[s].flow)
        /\ slot' = [slot EXCEPT ![s] = NULL]
    BY DEF CommitUpsert
  <1>2. slot[s] \in Request /\ FreshSave(slot[s])
    BY <1>1 DEF IInv, TypeOK, Maybe, SerialInv, Fresh
  <1>3. slot[s].row \notin {NULL, DELETED}
    BY <1>2, RowIsLive DEF Request
  <1>4. slot[s].flow \in Quantity
    BY <1>1, <1>2 DEF Request, Maybe
  <1>5. slot'[s] = NULL
    BY <1>1 DEF IInv, TypeOK
  <1> QED
    BY <1>1, <1>2, <1>3, <1>4, <1>5 DEF FreshSave

\* Bringing tasks up to date changes what complete later tasks state to have
\* made and packed, no more.
LEMMA SyncedChanges ==
  ASSUME NEW table \in [OpIds -> Row \cup {NULL, DELETED}],
         NEW flow \in Quantity, NEW o \in OpIds
  PROVE  /\ Live(Synced(table, flow)) = Live(table)
         /\ o \in Live(table) =>
              /\ Synced(table, flow)[o].stage = table[o].stage
              /\ Synced(table, flow)[o].started = table[o].started
              /\ Synced(table, flow)[o].status = table[o].status
         /\ (Synced(table, flow)[o] # table[o]) =>
              /\ o \in At(table, Stages \ CutStages)
              /\ table[o].status = "COMPLETE"
         /\ (flow > 0 /\ o \in At(table, Stages \ CutStages)
             /\ table[o].status = "COMPLETE") =>
              /\ Synced(table, flow)[o].qty = flow
              /\ table[o].stage = "PACKAGING"
                   => Synced(table, flow)[o].items = flow
  <1> DEFINE t == Synced(table, flow)
             hit(p) == /\ flow > 0 /\ p \in At(table, Stages \ CutStages)
                       /\ table[p].status = "COMPLETE"
             new(p) == [table[p] EXCEPT
                          !.qty = flow,
                          !.items = IF table[p].stage = "PACKAGING" THEN flow
                                    ELSE @]
  <1>1. \A p \in OpIds : t[p] = IF hit(p) THEN new(p) ELSE table[p]
    BY DEF Synced
  <1>2. ASSUME NEW p \in OpIds, hit(p)
        PROVE  /\ p \in Live(table) /\ new(p) \in Row
               /\ new(p).stage = table[p].stage
               /\ new(p).started = table[p].started
               /\ new(p).status = table[p].status
               /\ new(p).qty = flow
               /\ table[p].stage = "PACKAGING" => new(p).items = flow
    <2>1. p \in Live(table) /\ table[p] \in Row
      BY <1>2, LiveRows DEF At
    <2>2. flow \in Maybe(Quantity)
      BY DEF Maybe
    <2> QED
      BY <2>1, <2>2 DEF Row
  <1> HIDE DEF new, t
  <1>3. Live(t) = Live(table)
    BY <1>1, <1>2, RowIsLive DEF Live
  <1> QED
    BY <1>1, <1>2, <1>3 DEF t, At

\* Stage by stage, the tasks after a save are those before and the saved one.
LEMMA SavedTasks ==
  ASSUME Serial, IInv, SerialInv, NEW s \in Slots, CommitUpsert(s)
  PROVE  LET q == slot[s]
         IN  /\ Live(ops') = Live(ops) \cup {q.op}
             /\ \A o \in Live(ops') :
                  LET r == IF o = q.op THEN q.row ELSE ops[o]
                  IN  /\ ops'[o].stage = r.stage
                      /\ ops'[o].started = r.started
                      /\ ops'[o].status = r.status
                      /\ ops'[o] # r => /\ r.stage \notin CutStages
                                        /\ r.status = "COMPLETE"
  <1> DEFINE q == slot[s]
             table == [ops EXCEPT ![q.op] = q.row]
  <1>1. /\ q.op \in OpIds /\ q.flow \in Quantity /\ q \in Request
        /\ q.row \notin {NULL, DELETED}
        /\ ops' = Synced(table, q.flow)
    BY Saved
  <1>2. /\ table \in [OpIds -> Row \cup {NULL, DELETED}]
        /\ Live(table) = Live(ops) \cup {q.op}
        /\ \A o \in OpIds : table[o] = IF o = q.op THEN q.row ELSE ops[o]
    BY <1>1 DEF IInv, TypeOK, Request, Live
  <1> HIDE DEF table, q
  <1>3. Live(ops') = Live(table)
    BY <1>1, <1>2, SyncedChanges
  <1>4. ASSUME NEW o \in Live(table)
        PROVE  /\ ops'[o].stage = table[o].stage
               /\ ops'[o].started = table[o].started
               /\ ops'[o].status = table[o].status
               /\ ops'[o] # table[o] => /\ table[o].stage \notin CutStages
                                        /\ table[o].status = "COMPLETE"
    <2>1. o \in OpIds
      BY DEF Live
    <2> QED
      BY <1>1, <1>2, <2>1, SyncedChanges DEF At
  <1>5. Live(table) \subseteq OpIds
    BY DEF Live
  <1> QED
    BY <1>2, <1>3, <1>4, <1>5 DEF q

LEMMA CommitUpsertSerial ==
  ASSUME Serial, IInv, SerialInv, NEW s \in Slots, CommitUpsert(s)
  PROVE  SerialInv'
  <1> DEFINE q == slot[s]
  <1>1. slot'[s] = NULL /\ FreshSave(q)
    BY Saved
  <1>2. /\ Live(ops') = Live(ops) \cup {q.op}
        /\ \A o \in Live(ops') :
             ops'[o].stage = IF o = q.op THEN q.row.stage ELSE ops[o].stage
    BY SavedTasks
  <1> HIDE DEF q
  <1>3. \/ q.op \in Live(ops) /\ q.row.stage = ops[q.op].stage
        \/ q.op \notin Live(ops) /\ \/ q.row.stage \in CutStages
                                    \/ \A o \in Live(ops) : ops[o].stage # q.row.stage
    BY <1>1 DEF FreshSave, At
  <1>4. \A o, p \in Live(ops) :
          (ops[o].stage = ops[p].stage /\ ops[o].stage \in Stages \ CutStages)
             => o = p
    BY DEF SerialInv, OneTaskPerStage, At
  <1>5. \A o, p \in Live(ops') :
          (ops'[o].stage = ops'[p].stage /\ ops'[o].stage \in Stages \ CutStages)
             => o = p
    BY <1>2, <1>3, <1>4
  <1>6. OneTaskPerStage'
    BY <1>5 DEF OneTaskPerStage, At
  <1> QED
    BY <1>1, <1>6, FreeIsFresh DEF SerialInv

\* What goes with a deletion, when nobody was in its way.
LEMMA Deleted ==
  ASSUME Serial, IInv, SerialInv, NEW s \in Slots, CommitDelete(s)
  PROVE  /\ slot'[s] = NULL /\ FreshDelete(slot[s])
         /\ \E cut \in Cascades(slot[s].op, ops[slot[s].op].stage) :
              ops' = [o \in OpIds |-> IF o \in cut \cup {slot[s].op}
                                      THEN DELETED ELSE ops[o]]
  <1>1. /\ slot[s] # NULL /\ slot[s].kind = "delete"
        /\ slot' = [slot EXCEPT ![s] = NULL]
        /\ \E cut \in Cascades(slot[s].op, slot[s].row.stage) :
             ops' = [o \in OpIds |-> IF o \in cut \cup {slot[s].op}
                                     THEN DELETED ELSE ops[o]]
    BY DEF CommitDelete
  <1>2. FreshDelete(slot[s])
    BY <1>1 DEF SerialInv, Fresh
  <1>3. slot'[s] = NULL
    BY <1>1 DEF IInv, TypeOK
  <1> QED
    BY <1>1, <1>2, <1>3 DEF FreshDelete

LEMMA CommitDeleteSerial ==
  ASSUME Serial, IInv, SerialInv, NEW s \in Slots, CommitDelete(s)
  PROVE  SerialInv'
  <1>1. slot'[s] = NULL
    BY Deleted
  <1>2. \A o \in Live(ops') : o \in Live(ops) /\ ops'[o] = ops[o]
    BY Deleted DEF Live
  <1>3. OneTaskPerStage'
    BY <1>2 DEF SerialInv, OneTaskPerStage, At
  <1> QED
    BY <1>1, <1>3, FreeIsFresh DEF SerialInv

\* A prerequisite or an override changes only between requests.
LEMMA SettingsSerial ==
  ASSUME Serial, SerialInv, Accepting, UNCHANGED <<ops, slot>>
  PROVE  SerialInv'
  <1>1. PICK s \in Slots : slot'[s] = NULL
    BY DEF Accepting
  <1>2. OneTaskPerStage'
    BY DEF SerialInv, OneTaskPerStage, At, Live
  <1> QED
    BY <1>1, <1>2, FreeIsFresh DEF SerialInv

LEMMA InitSerial == Init => SerialInv
  BY DEF Init, SerialInv, OneTaskPerStage, Fresh, At, Live

\* The steps of Next, by what they do to the tasks.
LEMMA Steps ==
  ASSUME IInv, [Next]_vars
  PROVE  \/ \E s \in Slots, target \in Maybe(OpIds), previous \in Row,
               c \in Changes :
              /\ BeginUpsert(s, target, previous, c)
              /\ \/ target \in Live(ops) /\ previous = ops[target]
                 \/ /\ target = NULL /\ previous = BlankRow(previous.stage)
                    /\ \/ previous.stage \in CutStages
                       \/ At(ops, {previous.stage}) = {}
         \/ \E s \in Slots : \/ WriteUpsert(s) \/ CommitUpsert(s)
                             \/ BeginDelete(s) \/ CommitDelete(s)
                             \/ RollBack(s)
         \/ Accepting /\ UNCHANGED <<ops, slot>>
         \/ UNCHANGED <<ops, prereq, override, slot>>
  <1> DEFINE Begins(s) ==
        \E target \in Maybe(OpIds), previous \in Row, c \in Changes :
          /\ BeginUpsert(s, target, previous, c)
          /\ \/ target \in Live(ops) /\ previous = ops[target]
             \/ /\ target = NULL /\ previous = BlankRow(previous.stage)
                /\ \/ previous.stage \in CutStages
                   \/ At(ops, {previous.stage}) = {}
  <1>1. ASSUME NEW s \in Slots, NEW o \in Live(ops), NEW c \in Changes,
               BeginUpsert(s, o, ops[o], c)
        PROVE  Begins(s)
    <2>1. o \in Maybe(OpIds) /\ ops[o] \in Row
      BY LiveRows DEF IInv, TypeOK, Maybe
    <2> QED
      BY <1>1, <2>1
  <1>2. ASSUME NEW s \in Slots, NEW stage, NEW c \in Changes,
               BeginUpsert(s, NULL, BlankRow(stage), c),
               stage \in CutStages \/ At(ops, {stage}) = {}
        PROVE  Begins(s)
    <2>1. stage \in Stages /\ BlankRow(stage).stage = stage
      BY <1>2 DEF BeginUpsert, BlankRow
    <2>2. NULL \in Maybe(OpIds) /\ BlankRow(stage) \in Row
      BY <2>1, BlankIsRow DEF Maybe
    <2> QED
      BY <1>2, <2>1, <2>2
  <1> HIDE DEF Begins
  <1>3. ASSUME NEW s \in Slots,
               \/ UpsertById(s) \/ UpsertCutting(s) \/ UpsertPaperSelection(s)
               \/ UpsertStage(s)
        PROVE  Begins(s)
    <2>1. CASE UpsertById(s)
      BY <1>1, <2>1 DEF UpsertById
    <2>2. CASE UpsertCutting(s)
      BY <1>1, <1>2, <2>2 DEF UpsertCutting, At, CutStages
    <2>3. CASE UpsertPaperSelection(s)
      BY <1>1, <1>2, <2>3 DEF UpsertPaperSelection, At, CutStages
    <2>4. CASE UpsertStage(s)
      BY <1>1, <1>2, <2>4 DEF UpsertStage, At
    <2> QED
      BY <1>3, <2>1, <2>2, <2>3, <2>4
  <1>4. ASSUME NEW stage, NEW threshold, NEW required,
               \/ SetPrerequisite(stage, required, threshold)
               \/ SetOverride(stage, required, threshold)
               \/ DeletePrerequisite(stage) \/ DeleteOverride(stage)
        PROVE  Accepting /\ UNCHANGED <<ops, slot>>
    BY <1>4 DEF SetPrerequisite, SetOverride, DeletePrerequisite, DeleteOverride
  <1>5. Tick \/ UNCHANGED vars => UNCHANGED <<ops, prereq, override, slot>>
    BY DEF Tick, vars
  <1>6. \/ \E s \in Slots : Begins(s)
        \/ \E s \in Slots : \/ WriteUpsert(s) \/ CommitUpsert(s)
                            \/ BeginDelete(s) \/ CommitDelete(s) \/ RollBack(s)
        \/ Accepting /\ UNCHANGED <<ops, slot>>
        \/ UNCHANGED <<ops, prereq, override, slot>>
    BY <1>3, <1>4, <1>5 DEF Next
  <1> QED
    BY <1>6 DEF Begins

LEMMA NextSerial == Serial /\ IInv /\ SerialInv /\ [Next]_vars => SerialInv'
  <1> SUFFICES ASSUME Serial, IInv, SerialInv, [Next]_vars PROVE SerialInv'
    OBVIOUS
  <1>1. ASSUME NEW s \in Slots, BeginDelete(s) PROVE SerialInv'
    <2>1. PICK o \in Live(ops) :
            /\ ops[o].status \notin {"IN_PROGRESS", "COMPLETE"}
            /\ slot' = [slot EXCEPT ![s] = [kind |-> "delete", op |-> o,
                                            row |-> ops[o], flow |-> NULL]]
            /\ UNCHANGED <<ops, prereq, override>>
      BY <1>1 DEF BeginDelete
    <2> DEFINE q == [kind |-> "delete", op |-> o, row |-> ops[o],
                     flow |-> NULL]
    <2>2. \A x \in Slots : slot'[x] = q
      BY <2>1 DEF IInv, TypeOK, Serial
    <2>3. FreshDelete(q)
      BY <2>1 DEF FreshDelete
    <2>4. q.kind = "delete"
      OBVIOUS
    <2> HIDE DEF q
    <2> QED
      BY <2>1, <2>2, <2>3, <2>4, FreshStays DEF SerialInv, Fresh
  <1>2. ASSUME NEW s \in Slots, RollBack(s) PROVE SerialInv'
    <2>1. slot'[s] = NULL
      BY <1>2 DEF RollBack, IInv, TypeOK
    <2>2. UNCHANGED <<ops, prereq, override>>
      BY <1>2 DEF RollBack
    <2> QED
      BY <2>1, <2>2, FreshStays, FreeIsFresh DEF SerialInv
  <1>3. ASSUME UNCHANGED <<ops, prereq, override, slot>> PROVE SerialInv'
    BY <1>3, FreshStays DEF SerialInv, Fresh
  <1> QED
    BY <1>1, <1>2, <1>3, Steps, BeginUpsertSerial, WriteUpsertSerial,
       CommitUpsertSerial, CommitDeleteSerial, SettingsSerial

LEMMA SerialInvariance ==
  ASSUME Serial
  PROVE  Spec => [](IInv /\ SerialInv)
  <1>1. Init => IInv /\ SerialInv
    BY InitInv, InitSerial
  <1>2. (IInv /\ SerialInv) /\ [Next]_vars => (IInv /\ SerialInv)'
    BY NextInv, NextSerial
  <1> QED
    BY <1>1, <1>2, PTL DEF Spec

\* Only a save and a deletion change what the table holds.
LEMMA OtherSteps ==
  ASSUME IInv, [Next]_vars,
         \A s \in Slots : ~CommitUpsert(s) /\ ~CommitDelete(s)
  PROVE  ops' = ops
  BY Steps DEF BeginUpsert, WriteUpsert, BeginDelete, RollBack

LEMMA SavesKeepStart ==
  ASSUME Serial, IInv, SerialInv, NEW s \in Slots, CommitUpsert(s)
  PROVE  StartKept
  <1> DEFINE q == slot[s]
  <1>1. FreshSave(q)
    BY Saved
  <1>2. \A o \in Live(ops') :
          ops'[o].started = IF o = q.op THEN q.row.started ELSE ops[o].started
    BY SavedTasks
  <1> HIDE DEF q
  <1> QED
    BY <1>1, <1>2 DEF StartKept, FreshSave

LEMMA SavesStartThroughGate ==
  ASSUME Serial, IInv, SerialInv, NEW s \in Slots, CommitUpsert(s)
  PROVE  StartedThroughGate
  <1> DEFINE q == slot[s]
  <1>1. FreshSave(q)
    BY Saved
  <1>2. /\ Live(ops') = Live(ops) \cup {q.op}
        /\ \A o \in Live(ops') :
             /\ ops'[o].stage = IF o = q.op THEN q.row.stage ELSE ops[o].stage
             /\ ops'[o].status = IF o = q.op THEN q.row.status ELSE ops[o].status
    BY SavedTasks
  <1> HIDE DEF q
  <1>3. {"IN_PROGRESS", "COMPLETE"} \subseteq Work
    BY DEF Work
  <1> QED
    BY <1>1, <1>2, <1>3 DEF StartedThroughGate, FreshSave

\* The flow only depends on the cuttings and paper selections.
LEMMA FlowOfCutStages ==
  ASSUME NEW t1, NEW t2,
         At(t1, CutStages) = At(t2, CutStages),
         \A o \in At(t1, CutStages) : t1[o] = t2[o]
  PROVE  Flow(t1) = Flow(t2)
  <1>1. ASSUME NEW stage \in CutStages, NEW field
        PROVE  TotalOf(t1, stage, field) = TotalOf(t2, stage, field)
    <2>1. At(t1, {stage}) = At(t2, {stage})
      BY DEF At
    <2>2. \A o \in At(t1, {stage}) : t1[o] = t2[o]
      BY DEF At
    <2>3. [o \in At(t1, {stage}) |-> Supplied(t1[o][field], 0)]
            = [o \in At(t2, {stage}) |-> Supplied(t2[o][field], 0)]
      BY <2>1, <2>2
    <2> QED
      BY <2>3 DEF TotalOf
  <1> QED
    BY <1>1 DEF Flow, CutStages

LEMMA SavesAreFollowed ==
  ASSUME Serial, IInv, SerialInv, NEW s \in Slots, CommitUpsert(s)
  PROVE  FlowFollowed
  <1> DEFINE q == slot[s]
             table == [ops EXCEPT ![q.op] = q.row]
  <1>1. /\ q.op \in OpIds /\ q.flow \in Quantity /\ q \in Request
        /\ q.row \notin {NULL, DELETED}
        /\ ops' = Synced(table, q.flow)
        /\ q.flow = FlowAfter(q.op, q.row)
    BY Saved
  <1>2. /\ table \in [OpIds -> Row \cup {NULL, DELETED}]
        /\ \A o \in OpIds : table[o] = IF o = q.op THEN q.row ELSE ops[o]
        /\ q.flow = IF q.row.stage \in CutStages THEN Flow(table) ELSE 0
    BY <1>1 DEF IInv, TypeOK, Request, FlowAfter
  <1> HIDE DEF table, q
  <1>3. /\ Live(ops') = Live(table)
        /\ \A o \in Live(table) :
             /\ ops'[o].stage = table[o].stage
             /\ ops'[o].status = table[o].status
             /\ ops'[o] # table[o] => table[o].stage \notin CutStages
             /\ (/\ q.flow > 0 /\ o \in At(table, Stages \ CutStages)
                 /\ table[o].status = "COMPLETE")
                  => /\ ops'[o].qty = q.flow
                     /\ table[o].stage = "PACKAGING" => ops'[o].items = q.flow
    <2>1. Live(table) \subseteq OpIds
      BY DEF Live
    <2> QED
      BY <1>1, <1>2, <2>1, SyncedChanges DEF At
  <1>4. Flow(ops') = Flow(table)
    <2>1. /\ At(ops', CutStages) = At(table, CutStages)
          /\ \A o \in At(ops', CutStages) : ops'[o] = table[o]
      BY <1>3 DEF At
    <2> QED
      BY <2>1, FlowOfCutStages
  <1> SUFFICES ASSUME NEW x \in Live(ops'), ops'[x].stage \in CutStages,
                      ops'[x] # ops[x], Flow(ops') > 0,
                      NEW o \in At(ops', Stages \ CutStages),
                      ops'[o].status = "COMPLETE"
               PROVE  /\ ops'[o].qty = Flow(ops')
                      /\ ops'[o].stage = "PACKAGING"
                           => ops'[o].items = Flow(ops')
    BY DEF FlowFollowed
  <1>5. x = q.op /\ q.row.stage \in CutStages
    <2>1. ops'[x] = table[x] /\ x \in OpIds
      BY <1>3 DEF Live
    <2> QED
      BY <1>2, <2>1
  <1>6. q.flow = Flow(ops') /\ q.flow > 0
    BY <1>2, <1>4, <1>5
  <1>7. /\ o \in Live(table) /\ o \in At(table, Stages \ CutStages)
        /\ table[o].status = "COMPLETE"
    BY <1>3 DEF At
  <1> QED
    BY <1>3, <1>6, <1>7

\* A save removes nothing, and a deletion adds and changes nothing.
LEMMA SavesRemoveNothing ==
  ASSUME Serial, IInv, SerialInv, NEW s \in Slots, CommitUpsert(s)
  PROVE  Removed = {}
  <1>1. Live(ops) \subseteq Live(ops')
    BY SavedTasks
  <1> QED
    BY <1>1 DEF Removed, Live

LEMMA DeletionsOnlyRemove ==
  ASSUME Serial, IInv, SerialInv, NEW s \in Slots, CommitDelete(s)
  PROVE  /\ \A o \in Live(ops') : o \in Live(ops) /\ ops'[o] = ops[o]
         /\ RemovedWithItsCutting
  <1> DEFINE o == slot[s].op
  <1>1. /\ o \in Live(ops)
        /\ ops[o].status \notin {"IN_PROGRESS", "COMPLETE"}
    BY Deleted DEF FreshDelete
  <1>2. PICK cut \in Cascades(o, ops[o].stage) :
          ops' = [x \in OpIds |-> IF x \in cut \cup {o} THEN DELETED ELSE ops[x]]
    BY Deleted
  <1>3. \/ cut = {}
        \/ /\ ops[o].stage = "PAPER_SELECTION"
           /\ \E x \in At(ops, {"CUTTING"}) : cut = {x} /\ ops[x].link \in {o, NULL}
    BY <1>2 DEF Cascades
  <1> HIDE DEF o
  <1>4. cut \subseteq Live(ops)
    BY <1>3 DEF At
  <1>5. Removed = cut \cup {o}
    BY <1>1, <1>2, <1>4 DEF Removed, Live
  <1>6. \A p \in Removed \ {o} : /\ ops[o].stage = "PAPER_SELECTION"
                                 /\ Removed = {o, p}
                                 /\ ops[p].stage = "CUTTING"
                                 /\ ops[p].link \in {o, NULL}
    BY <1>3, <1>5 DEF At
  <1>7. RemovedWithItsCutting
    BY <1>1, <1>5, <1>6 DEF RemovedWithItsCutting
  <1>8. \A x \in Live(ops') : x \in Live(ops) /\ ops'[x] = ops[x]
    BY <1>2 DEF Live
  <1> QED
    BY <1>7, <1>8

\* What a step may do to the tasks while requests are serial.
LEMMA SerialSteps ==
  ASSUME Serial
  PROVE  (IInv /\ SerialInv) /\ [Next]_vars =>
           /\ [StartKept]_vars /\ [StartedThroughGate]_vars
           /\ [FlowFollowed]_vars /\ [RemovedWithItsCutting]_vars
  <1> SUFFICES ASSUME IInv, SerialInv, [Next]_vars
               PROVE  /\ StartKept /\ StartedThroughGate
                      /\ FlowFollowed /\ RemovedWithItsCutting
    OBVIOUS
  <1>1. ASSUME NEW s \in Slots, CommitUpsert(s)
        PROVE  /\ StartKept /\ StartedThroughGate
               /\ FlowFollowed /\ RemovedWithItsCutting
    BY <1>1, SavesKeepStart, SavesStartThroughGate, SavesAreFollowed,
       SavesRemoveNothing DEF RemovedWithItsCutting
  <1>2. ASSUME \A o \in Live(ops') : o \in Live(ops) /\ ops'[o] = ops[o]
        PROVE  StartKept /\ StartedThroughGate /\ FlowFollowed
    BY <1>2 DEF StartKept, StartedThroughGate, FlowFollowed, Work
  <1>3. ASSUME NEW s \in Slots, CommitDelete(s)
        PROVE  /\ StartKept /\ StartedThroughGate
               /\ FlowFollowed /\ RemovedWithItsCutting
    BY <1>2, <1>3, DeletionsOnlyRemove
  <1>4. ASSUME ops' = ops
        PROVE  /\ StartKept /\ StartedThroughGate
               /\ FlowFollowed /\ RemovedWithItsCutting
    <2>1. Removed = {}
      BY <1>4 DEF Removed, Live
    <2> QED
      BY <1>2, <1>4, <2>1 DEF RemovedWithItsCutting
  <1> QED
    BY <1>1, <1>3, <1>4, OtherSteps

\* Requests that come one after the other never make two tasks of one later
\* stage: a create looks for the task of its stage first (upsertOperation).
THEOREM StagesStayUnique ==
  ASSUME Serial
  PROVE  Spec => []OneTaskPerStage
  <1>1. SerialInv => OneTaskPerStage
    BY DEF SerialInv
  <1> QED
    BY <1>1, SerialInvariance, PTL

\* What a serial request writes over a task keeps when it was started
\* (applyStatusTimestamps), and bringing others up to date does so too.
THEOREM StartsStay ==
  ASSUME Serial
  PROVE  Spec => StartedOnce
  BY SerialSteps, SerialInvariance, PTL DEF Spec, StartedOnce

\* No serial request starts a task whose prerequisite is not met, and no
\* other task starts along with it (validateTaskStartPrerequisites).
THEOREM GateHolds ==
  ASSUME Serial
  PROVE  Spec => StartsThroughGate
  BY SerialSteps, SerialInvariance, PTL DEF Spec, StartsThroughGate

\* After a serial save of a cutting or paper selection every complete later
\* task states the flow that results from it, whatever it stated before
\* (syncCompletedOperationQuantities).
THEOREM FlowReachesCompleted ==
  ASSUME Serial
  PROVE  Spec => CompletedFollowFlow
  BY SerialSteps, SerialInvariance, PTL DEF Spec, CompletedFollowFlow

\* A serial delete takes the task it names, which is neither in progress nor
\* complete, and with a paper selection at most one cutting (deleteOperation).
THEOREM DeletionIsBounded ==
  ASSUME Serial
  PROVE  Spec => DeletesAtMostItsCutting
  BY SerialSteps, SerialInvariance, PTL DEF Spec, DeletesAtMostItsCutting
=============================================================================
