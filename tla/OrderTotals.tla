----------------------------- MODULE OrderTotals -----------------------------
(***************************************************************************)
(* The money totals of production orders, kept by the transactions that    *)
(* change the rows they are the sums of: materials, tasks of the stages    *)
(* after the cutting, factory worker activities, repeated and deleted      *)
(* orders.                                                                 *)
(*                                                                         *)
(* A transaction is READ COMMITTED.  It reads what it is about to change   *)
(* (Begin), changes its rows and locks them (Write), then for each order   *)
(* it recalculates: sums the rows it sees (Sum) and stores the sums, which *)
(* locks the order (Store).  It commits at the end, or is rolled back: by  *)
(* an error, by the time limit of an interactive transaction, or by the    *)
(* database when it waits in a cycle.                                      *)
(***************************************************************************)
EXTENDS ServiceCosts, Sequences

CONSTANTS
  Orders,     \* primary keys of production orders
  Slots,      \* transactions in flight at once
  Quantities, \* quantities an order is made for
  Contents,   \* what clients save in a row (bounds the model)
  DELETED     \* a primary key whose row is gone

Row == [order : Orders, content : Content]
Totals == [subtotal : Int, labourCost : Int, grandTotal : Int]
Order == [quantity : Quantities, totals : Totals]
Unset == {NULL, DELETED}

\* rows: what it writes, by key, NULL elsewhere (an order NULL: as it is);
\* insert: the keys it creates; refers: the orders it puts rows into; create: the order it
\* creates; todo: the orders still to recalculate, or to delete; written: the
\* rows are written, or the first of todo is locked to be deleted; gone: the
\* orders it deleted; sums: what it summed for the first of todo; stored: the
\* totals it stored; scope: the orders it is about; alone: no transaction
\* about one of them ran at the same time (history).
Transaction ==
  [kind   : {"change", "drop"},
   rows   : [RowIds -> [order : Maybe(Orders), content : Content] \cup Unset],
   insert : SUBSET RowIds,  refers : SUBSET Orders,
   create : Maybe(Orders),  quantity : Maybe(Quantities),
   todo   : Seq(Orders),    written : BOOLEAN,   gone : SUBSET Orders,
   sums   : Maybe(Totals),
   stored : [Orders -> Maybe(Totals)],
   scope  : SUBSET Orders,  alone : BOOLEAN]

ASSUME OrderTotalsAssumption ==
  /\ IsFiniteSet(Orders)
  /\ Quantities \subseteq Nat \ {0}
  /\ Contents \subseteq Content
  /\ NULL \notin Orders
  /\ DELETED # NULL
  /\ {NULL, DELETED} \cap [order : Maybe(Orders), content : Content] = {}
  /\ {NULL, DELETED} \cap Order = {}
  /\ NULL \notin Totals
  /\ NULL \notin Transaction

VARIABLES
  row,    \* the three tables of rows, by primary key
  order,  \* the table ProductOrder, by primary key
  slot,   \* the transactions in flight
  raced   \* orders that transactions in flight together were about (history)

vars == <<row, order, slot, raced>>

TypeOK ==
  /\ row \in [RowIds -> Row \cup Unset]
  /\ order \in [Orders -> Order \cup Unset]
  /\ slot \in [Slots -> Maybe(Transaction)]
  /\ raced \in SUBSET Orders

-----------------------------------------------------------------------------
(* The rows of an order *)

LiveOrders == {o \in Orders : order[o] \notin Unset}
LiveRows == {r \in RowIds : row[r] \notin Unset}
KeysOf(table, o) == {r \in RowIds : table[r] \notin Unset /\ table[r].order = o}

\* The contents of the rows of an order, as recalcTotals loads them.
RowsOf(table, o) == [r \in KeysOf(table, o) |-> table[r].content]

\* Mutant of View: recalcTotals reads outside the transaction.
CommittedView(t) == row

\* What a transaction sees: what is committed, under its own writes.
View(t) == [r \in RowIds |-> IF t.written /\ t.rows[r] # NULL THEN t.rows[r]
                             ELSE row[r]]

Exists(t, o) == o = t.create \/ o \in LiveOrders
QuantityOf(t, o) == IF o = t.create THEN t.quantity ELSE order[o].quantity

-----------------------------------------------------------------------------
(* Locks *)

Active == {s \in Slots : slot[s] # NULL}
Recalculated(t) == {o \in Orders : t.stored[o] # NULL}

\* The rows it updates or deletes, and all it writes.
Changed(t) == {r \in RowIds : t.rows[r] # NULL} \ t.insert
Saved(t) == {r \in RowIds : t.rows[r] \notin Unset}
Changing(t) == t.kind = "change"

\* Rows updated or deleted; those inserted, no one else sees.
LocksRows(t) ==
  IF Changing(t) THEN IF t.written THEN Changed(t) ELSE {}
  ELSE UNION {KeysOf(row, o) : o \in t.gone}

\* Orders locked to be deleted (FOR UPDATE), which is in everyone's way.
Deletes(t) ==
  IF Changing(t) THEN {}
  ELSE t.gone \cup IF t.written THEN {Head(t.todo)} ELSE {}

\* Mutant of Updates: a reference to an order locks it like an update of it.
UpdatesAndRefers(t) ==
  Recalculated(t) \cup IF t.written THEN t.refers ELSE {}

\* Orders updated (FOR NO KEY UPDATE).
Updates(t) == Recalculated(t)

\* Orders that a new reference keeps from being deleted (FOR KEY SHARE).
Shares(t) == IF t.written THEN t.refers ELSE {}

\* What the next statement of t needs is held by v.
Blocks(v, t) ==
  CASE Changing(t) /\ ~t.written ->
         \/ Changed(t) \cap LocksRows(v) # {}
         \/ t.refers \cap Deletes(v) # {}
    [] Changing(t) /\ t.written ->
         /\ t.sums # NULL
         /\ Head(t.todo) \in Updates(v) \cup Deletes(v)
    [] ~Changing(t) /\ ~t.written /\ t.todo # <<>> ->
         Head(t.todo) \in Updates(v) \cup Deletes(v) \cup Shares(v)
    [] ~Changing(t) /\ t.written ->
         KeysOf(row, Head(t.todo)) \cap LocksRows(v) # {}
    [] OTHER -> FALSE

WaitsFor(s, u) == s # u /\ Blocks(slot[u], slot[s])
Free(s) == \A u \in Active : ~WaitsFor(s, u)

\* Everyone in D waits for someone in D, and is waited for by someone in D.
Cycle(D) ==
  \A s \in D : /\ \E u \in D : WaitsFor(s, u)
               /\ \E u \in D : WaitsFor(u, s)

\* Mutant of Deadlocked: nobody looks for cycles.
NeverDeadlocked(s) == FALSE

Deadlocked(s) == \E D \in SUBSET Active : s \in D /\ Cycle(D)

-----------------------------------------------------------------------------
(* What requests start *)

Init ==
  /\ row = [r \in RowIds |-> NULL]
  /\ order = [o \in Orders |-> NULL]
  /\ slot = [s \in Slots |-> NULL]
  /\ raced = {}

Nothing == [r \in RowIds |-> NULL]
NoTotals == [o \in Orders |-> NULL]

Change(rows, insert, refers, todo) ==
  [kind |-> "change", rows |-> rows, insert |-> insert, refers |-> refers,
   create |-> NULL, quantity |-> NULL, todo |-> todo, written |-> FALSE,
   gone |-> {}, sums |-> NULL, stored |-> NoTotals,
   scope |-> Range(todo) \cup refers, alone |-> TRUE]

Single(r, value) == [Nothing EXCEPT ![r] = value]

\* Keys and orders no one has taken.
FreeKeys == {r \in RowIds : row[r] = NULL /\ \A s \in Active : r \notin slot[s].insert}
FreeOrders == {o \in Orders : order[o] = NULL /\ \A s \in Active : slot[s].create # o}

\* The slot s becomes t.  It and the others about the same orders are no
\* longer alone, if there are any.  moved: orders its rows were moved to by
\* transactions that ran at the same time and have ended.
Enter(s, t, moved) ==
  LET others == {u \in Active \ {s} : slot[u].scope \cap t.scope # {}}
  IN  /\ slot' = [u \in Slots |->
                    IF u = s THEN [t EXCEPT !.alone = @ /\ others = {}]
                    ELSE IF u \in others THEN [slot[u] EXCEPT !.alone = FALSE]
                    ELSE slot[u]]
      /\ raced' = raced \cup moved
                    \cup UNION {slot[u].scope \cup t.scope : u \in others}

Begin(s, t) == slot[s] = NULL /\ Enter(s, t, {}) /\ UNCHANGED <<row, order>>

BeginInsert(s, r, o, c) ==
  Begin(s, Change(Single(r, [order |-> o, content |-> c]), {r}, {o}, <<o>>))

BeginUpdate(s, r, c) ==
  Begin(s, Change(Single(r, [order |-> NULL, content |-> c]), {}, {},
                  <<row[r].order>>))

BeginRemove(s, r) ==
  Begin(s, Change(Single(r, DELETED), {}, {}, <<row[r].order>>))

\* createProductionOrder: one statement, no totals yet.
CreateProductionOrder(o, q) ==
  /\ o \in FreeOrders
  /\ order' = [order EXCEPT ![o] =
                 [quantity |-> q, totals |-> [subtotal |-> 0, labourCost |-> 0,
                                              grandTotal |-> 0]]]
  /\ UNCHANGED <<row, slot, raced>>

\* addMaterial: an item the order has already is refused.
AddMaterial(s) ==
  \E o \in LiveOrders, r \in FreeKeys, c \in Contents \cap Material :
    /\ \A x \in KeysOf(row, o) : row[x].content.table = "material"
                                   => row[x].content.item # c.item
    /\ BeginInsert(s, r, o, c)

RemoveMaterial(s) ==
  \E r \in LiveRows : /\ row[r].content.table = "material"
                      /\ BeginRemove(s, r)

\* upsertOperation: the order's task of that stage is updated, or created.
\* (A task of the first two stages moves materials too: PaperSheets.)
SaveTask(s) ==
  \E o \in LiveOrders, c \in Contents \cap Task :
    LET same == {r \in KeysOf(row, o) : /\ row[r].content.table = "task"
                                        /\ row[r].content.stage = c.stage}
    IN  \/ \E r \in same : BeginUpdate(s, r, c)
        \/ same = {} /\ \E r \in FreeKeys : BeginInsert(s, r, o, c)

DeleteOperation(s) ==
  \E r \in LiveRows : row[r].content.table = "task" /\ BeginRemove(s, r)

CreateActivity(s) ==
  \E o \in LiveOrders, r \in FreeKeys, c \in Contents \cap Activity :
    BeginInsert(s, r, o, c)

\* An activity saved with another order moves to it; the order it was read
\* with and the order it ends up with are both recalculated.
UpdateActivity(s) ==
  \E r \in LiveRows, c \in Contents \cap Activity :
    /\ row[r].content.table = "activity"
    /\ \/ BeginUpdate(s, r, c)
       \/ \E o \in Orders \ {row[r].order} :
            Begin(s, Change(Single(r, [order |-> o, content |-> c]), {}, {o},
                            <<row[r].order>>))

RemoveActivity(s) ==
  \E r \in LiveRows : row[r].content.table = "activity" /\ BeginRemove(s, r)

\* repeatProductionOrder: materials as they are, tasks with part of their
\* columns, no activities.  The source was read before the transaction.
RepeatProductionOrder(s) ==
  \E src \in LiveOrders, o \in FreeOrders :
    LET copied == {r \in KeysOf(row, src) : row[r].content.table # "activity"}
        Copy(c) == IF c.table = "task" THEN Repeated(c) ELSE c
    IN  \E key \in [copied -> FreeKeys] :
          /\ IsInjective(key)
          /\ Begin(s, [Change([r \in RowIds |->
                                 IF r \notin Range(key) THEN NULL
                                 ELSE [order |-> o, content |->
                                        Copy(row[AntiFunction(key)[r]].content)]],
                              Range(key), {o}, <<o>>)
                       EXCEPT !.create = o, !.quantity = order[src].quantity])

\* deleteProductionOrder deletes one order, bulkDeleteProductionOrders several
\* in the order they are named in; all are deleted or none.
DeleteProductionOrders(s) ==
  \E o \in Orders, p \in Orders :
    LET named == IF o = p THEN <<o>> ELSE <<o, p>>
    IN  /\ o = p => o \in LiveOrders
        /\ Begin(s, [Change(Nothing, {}, {}, named) EXCEPT !.kind = "drop"])

-----------------------------------------------------------------------------
(* What a transaction does next *)

Goes(s, t) == slot' = [slot EXCEPT ![s] = t]

\* Mutant of Resolved: an update that names no order clears it.
ResolvedBlank(t) == t.rows

\* An order NULL keeps the order the row has by now.
Resolved(t) ==
  [r \in RowIds |->
     IF t.rows[r] \in Unset THEN t.rows[r]
     ELSE [t.rows[r] EXCEPT !.order = IF @ = NULL THEN row[r].order ELSE @]]

\* Mutant of Destinations: the order an activity moves to is not recalculated.
NoDestination(t) == {}

\* The orders the written rows belong to, that are not yet to recalculate.
Destinations(t) ==
  {Resolved(t)[r].order : r \in Saved(t)} \ Range(t.todo)

\* The orders those rows are in, which may not be the ones they were read in.
Origins(t) == {row[r].order : r \in Changed(t)}

\* A row that was to be updated or deleted, or an order referred to, is gone.
Missing(t) ==
  IF Changing(t)
  THEN \/ ~t.written /\ \/ \E r \in Changed(t) : row[r] \in Unset
                        \/ \E o \in t.refers : ~Exists(t, o)
       \/ t.written /\ t.todo # <<>> /\ ~Exists(t, Head(t.todo))
  ELSE ~t.written /\ t.todo # <<>> /\ Head(t.todo) \notin LiveOrders \ t.gone

Write(s) ==
  LET t == slot[s]
      moved == Origins(t) \ Range(t.todo)
  IN  /\ Changing(t) /\ ~t.written
      /\ Free(s) /\ ~Missing(t)
      /\ \E more \in IF Destinations(t) = {} THEN {<<>>}
                     ELSE {<<o>> : o \in Destinations(t)} :
           Enter(s, [t EXCEPT !.rows = Resolved(t), !.written = TRUE,
                              !.todo = @ \o more, !.scope = @ \cup Origins(t)],
                 moved)
      /\ UNCHANGED <<row, order>>

\* The reads of recalcTotals.
Sum(s) ==
  LET t == slot[s]
      o == Head(t.todo)
  IN  /\ Changing(t) /\ t.written /\ t.todo # <<>> /\ t.sums = NULL
      /\ ~Missing(t)
      /\ Goes(s, [t EXCEPT !.sums =
                    TotalsOf(RowsOf(View(t), o), QuantityOf(t, o))])
      /\ UNCHANGED <<row, order, raced>>

\* Its update of the order.
Store(s) ==
  LET t == slot[s]
      o == Head(t.todo)
  IN  /\ Changing(t) /\ t.written /\ t.todo # <<>> /\ t.sums # NULL
      /\ Free(s) /\ ~Missing(t)
      /\ Goes(s, [t EXCEPT !.stored[o] = t.sums,
                           !.sums = NULL, !.todo = Tail(@)])
      /\ UNCHANGED <<row, order, raced>>

LockOrder(s) ==
  LET t == slot[s]
  IN  /\ ~Changing(t) /\ ~t.written /\ t.todo # <<>>
      /\ Free(s) /\ ~Missing(t)
      /\ Goes(s, [t EXCEPT !.written = TRUE])
      /\ UNCHANGED <<row, order, raced>>

\* The rows of the order go with it (ON DELETE CASCADE).
Cascade(s) ==
  LET t == slot[s]
  IN  /\ ~Changing(t) /\ t.written
      /\ Free(s)
      /\ Goes(s, [t EXCEPT !.gone = @ \cup {Head(t.todo)}, !.todo = Tail(@),
                           !.written = FALSE])
      /\ UNCHANGED <<row, order, raced>>

Commit(s) ==
  LET t == slot[s]
      lost == UNION {KeysOf(row, o) : o \in t.gone}
  IN  /\ t.todo = <<>> /\ (Changing(t) => t.written)
      /\ row' = [r \in RowIds |-> IF r \in lost THEN DELETED
                                ELSE IF t.rows[r] # NULL THEN t.rows[r]
                                ELSE row[r]]
      /\ order' = [o \in Orders |->
                     IF o \in t.gone THEN DELETED
                     ELSE IF t.stored[o] # NULL
                     THEN [quantity |-> QuantityOf(t, o), totals |-> t.stored[o]]
                     ELSE order[o]]
      /\ Goes(s, NULL)
      /\ UNCHANGED raced

Rollback(s) == Goes(s, NULL) /\ UNCHANGED <<row, order, raced>>

\* An update or a delete of a row that is gone, or a foreign key to it.
Refuse(s) == Missing(slot[s]) /\ Free(s) /\ Rollback(s)

\* The database ends a cycle of waiting transactions.
BreakDeadlock(s) == Deadlocked(s) /\ Rollback(s)

\* The time limit of the transaction, a lost connection, a stopped server.
Expire(s) == Rollback(s)

\* The statements of the transaction in the slot s.
Proceed(s) ==
  /\ s \in Active
  /\ \/ Write(s) \/ Sum(s) \/ Store(s) \/ LockOrder(s) \/ Cascade(s)
     \/ Commit(s) \/ Refuse(s)

Request(s) ==
  \/ AddMaterial(s) \/ RemoveMaterial(s)
  \/ SaveTask(s) \/ DeleteOperation(s)
  \/ CreateActivity(s) \/ UpdateActivity(s) \/ RemoveActivity(s)
  \/ RepeatProductionOrder(s) \/ DeleteProductionOrders(s)

Next ==
  \/ \E o \in Orders, q \in Quantities : CreateProductionOrder(o, q)
  \/ \E s \in Slots :
       \/ Request(s) \/ Proceed(s)
       \/ s \in Active /\ (BreakDeadlock(s) \/ Expire(s))

\* The database grants locks in the order they are asked for, and looks for
\* cycles of waiting transactions.  Nobody has to send a request.
Fairness ==
  \A s \in Slots : /\ SF_vars(Proceed(s))
                   /\ WF_vars(s \in Active /\ BreakDeadlock(s))

Spec == Init /\ [][Next]_vars /\ Fairness

-----------------------------------------------------------------------------
(* Properties *)

\* The stored totals are those of the rows, for every order that no two
\* transactions were about at the same time, whatever was rolled back:
\* recalcTotals is called by everything that changes a row it sums, for the
\* order the row leaves as well as for the one it is in.
TotalsAgree ==
  \A o \in LiveOrders \ raced :
    order[o].totals = TotalsOf(RowsOf(row, o), order[o].quantity)

\* Sums that a race made wrong stay wrong only until the next transaction
\* about the order that runs alone: it stores the sums of all rows, not what
\* it changed.
LoneRepairs ==
  \A s \in Slots :
    (/\ slot[s] # NULL /\ slot[s].alone /\ slot'[s] = NULL
     /\ <<row, order>>' # <<row, order>>)
    => \A o \in Recalculated(slot[s]) :
         order'[o].totals = TotalsOf(RowsOf(row', o), order'[o].quantity)

\* ... in every step.
LoneTransactionRepairs == [][LoneRepairs]_vars

\* Transactions wait for each other in a cycle only when one of them deletes
\* an order or recalculates two (an activity that moves): all others lock
\* their row first and their order last.
DeadlockNeedsTwoOrders ==
  \A D \in SUBSET Active :
    (D # {} /\ Cycle(D)) =>
      \E s \in D : \/ slot[s].kind = "drop"
                   \/ Cardinality(Recalculated(slot[s]) \cup Range(slot[s].todo)) > 1

\* Every transaction ends, although activities that move in opposite
\* directions, and deletes of orders, can wait for each other.
Ends == \A s \in Slots : slot[s] # NULL ~> slot[s] = NULL
=============================================================================
