-------------------------- MODULE OrderTotals_proofs --------------------------
(***************************************************************************)
(* Proofs about OrderTotals, for any number of orders, rows and            *)
(* transactions: which transactions can wait for each other in a cycle;    *)
(* that tables and transactions keep their shape; and that the stored      *)
(* totals are those of the rows, except after a race, which the next       *)
(* transaction that runs alone repairs.                                    *)
(***************************************************************************)
EXTENDS OrderTotals, InductionLemmas, SequenceTheorems, TLAPS

Fields == {"kind", "rows", "insert", "refers", "create", "quantity", "todo",
           "written", "gone", "sums", "stored", "scope", "alone"}

\* At most two orders, each once.
Short(todo) ==
  \/ todo = <<>>
  \/ \E o : todo = <<o>>
  \/ \E o, p : o # p /\ todo = <<o, p>>

\* A transaction that changes rows writes them first; then it recalculates
\* each order once, and does not sum before.
Orderly(t) ==
  /\ Short(t.todo)
  /\ ~t.written => /\ \E o : t.todo = <<o>>
                   /\ Recalculated(t) = {} /\ t.sums = NULL
  /\ \A i \in DOMAIN t.todo : t.todo[i] \notin Recalculated(t)
  /\ t.sums # NULL => t.todo # <<>>

Tidy(t) ==
  /\ DOMAIN t = Fields
  /\ t.kind \in {"change", "drop"} /\ t.written \in BOOLEAN
  /\ DOMAIN t.stored = Orders
  /\ Changing(t) => Orderly(t)

IInv ==
  /\ DOMAIN slot = Slots
  /\ \A s \in Slots : slot[s] = NULL \/ Tidy(slot[s])

-----------------------------------------------------------------------------
(* Transactions that begin *)

LEMMA ChangeTidy ==
  ASSUME NEW rows, NEW insert, NEW refers, NEW o
  PROVE  /\ Tidy(Change(rows, insert, refers, <<o>>))
         /\ Changing(Change(rows, insert, refers, <<o>>))
<1> DEFINE t == Change(rows, insert, refers, <<o>>)
<1>1. /\ DOMAIN t = Fields /\ t.kind = "change" /\ t.written = FALSE
      /\ t.todo = <<o>> /\ t.sums = NULL /\ t.stored = NoTotals
  BY DEF Change, Fields
<1>2. DOMAIN t.stored = Orders /\ Recalculated(t) = {}
  BY <1>1 DEF NoTotals, Recalculated
<1> HIDE DEF t
<1> QED
  BY <1>1, <1>2 DEF Tidy, Orderly, Short, Changing, t

\* Fields that no order depends on.
LEMMA AloneTidy ==
  ASSUME NEW t, Tidy(t), NEW b
  PROVE  Tidy([t EXCEPT !.alone = b])
<1> DEFINE u == [t EXCEPT !.alone = b]
<1>1. /\ DOMAIN u = Fields /\ u.kind = t.kind /\ u.written = t.written
      /\ u.todo = t.todo /\ u.sums = t.sums /\ u.stored = t.stored
  BY DEF Tidy, Fields
<1> HIDE DEF u
<1>2. Recalculated(u) = Recalculated(t) /\ Changing(u) = Changing(t)
  BY <1>1 DEF Recalculated, Changing
<1> QED
  BY <1>1, <1>2 DEF Tidy, Orderly, u

LEMMA Entered ==
  ASSUME IInv, NEW s \in Slots, NEW t, Tidy(t), NEW moved, Enter(s, t, moved)
  PROVE  IInv'
<1>1. DOMAIN slot' = Slots
  BY DEF Enter
<1>2. ASSUME NEW u \in Slots
      PROVE  slot'[u] = NULL \/ Tidy(slot'[u])
  <2>1. \/ \E b : slot'[u] = [t EXCEPT !.alone = b]
        \/ u \in Active /\ slot'[u] = [slot[u] EXCEPT !.alone = FALSE]
        \/ slot'[u] = slot[u]
    <3> DEFINE others == {v \in Active \ {s} : slot[v].scope \cap t.scope # {}}
    <3>1. slot'[u] = IF u = s THEN [t EXCEPT !.alone = @ /\ others = {}]
                     ELSE IF u \in others THEN [slot[u] EXCEPT !.alone = FALSE]
                     ELSE slot[u]
      BY DEF Enter
    <3>2. others \subseteq Active
      OBVIOUS
    <3> HIDE DEF others
    <3> QED
      BY <3>1, <3>2
  <2>2. CASE \E b : slot'[u] = [t EXCEPT !.alone = b]
    BY <2>2, AloneTidy
  <2>3. CASE u \in Active /\ slot'[u] = [slot[u] EXCEPT !.alone = FALSE]
    <3>1. Tidy(slot[u])
      BY <2>3 DEF IInv, Active
    <3> QED
      BY <2>3, <3>1, AloneTidy
  <2>4. CASE slot'[u] = slot[u]
    BY <2>4 DEF IInv
  <2> QED
    BY <2>1, <2>2, <2>3, <2>4
<1> QED
  BY <1>1, <1>2 DEF IInv, Tidy, Orderly, Recalculated, Changing, Short

LEMMA RequestInv ==
  ASSUME IInv, NEW s \in Slots, Request(s)
  PROVE  IInv'
<1>1. ASSUME NEW t, Tidy(t), Begin(s, t) PROVE IInv'
  BY <1>1, Entered DEF Begin
<1>2. ASSUME NEW rows, NEW insert, NEW refers, NEW o,
             Begin(s, Change(rows, insert, refers, <<o>>))
      PROVE  IInv'
  BY <1>1, <1>2, ChangeTidy
<1>3. CASE AddMaterial(s) \/ RemoveMaterial(s)
  BY <1>2, <1>3 DEF AddMaterial, RemoveMaterial, BeginInsert, BeginRemove
<1>4. CASE SaveTask(s) \/ DeleteOperation(s)
  BY <1>2, <1>4
  DEF SaveTask, DeleteOperation, BeginInsert, BeginUpdate, BeginRemove
<1>5. CASE CreateActivity(s) \/ UpdateActivity(s) \/ RemoveActivity(s)
  BY <1>2, <1>5 DEF CreateActivity, UpdateActivity, RemoveActivity,
                    BeginInsert, BeginUpdate, BeginRemove
<1>6. CASE RepeatProductionOrder(s)
  <2>1. PICK rows, insert, refers, o, q :
          Begin(s, [Change(rows, insert, refers, <<o>>)
                    EXCEPT !.create = o, !.quantity = q])
    BY <1>6 DEF RepeatProductionOrder
  <2> DEFINE c == Change(rows, insert, refers, <<o>>)
             t == [c EXCEPT !.create = o, !.quantity = q]
  <2>2. Tidy(c)
    BY ChangeTidy
  <2> HIDE DEF c
  <2>3. /\ DOMAIN t = Fields /\ t.kind = c.kind /\ t.written = c.written
        /\ t.todo = c.todo /\ t.sums = c.sums /\ t.stored = c.stored
    BY <2>2 DEF Tidy, Fields
  <2>4. Begin(s, t)
    BY <2>1 DEF c
  <2> HIDE DEF t
  <2>5. Tidy(t)
    BY <2>2, <2>3 DEF Tidy, Orderly, Recalculated, Changing
  <2> QED
    BY <1>1, <2>4, <2>5
<1>7. CASE DeleteProductionOrders(s)
  <2>1. PICK named :
          Begin(s, [Change(Nothing, {}, {}, named) EXCEPT !.kind = "drop"])
    BY <1>7 DEF DeleteProductionOrders
  <2> DEFINE t == [Change(Nothing, {}, {}, named) EXCEPT !.kind = "drop"]
  <2>2. /\ DOMAIN t = Fields /\ t.kind = "drop" /\ t.written = FALSE
        /\ t.stored = NoTotals
    BY DEF Change, Fields
  <2>3. Begin(s, t)
    BY <2>1
  <2> HIDE DEF t
  <2>4. Tidy(t)
    BY <2>2 DEF Tidy, Changing, NoTotals
  <2> QED
    BY <1>1, <2>3, <2>4
<1> QED
  BY <1>3, <1>4, <1>5, <1>6, <1>7 DEF Request

-----------------------------------------------------------------------------
(* The statements of a transaction *)

LEMMA GoesInv ==
  ASSUME IInv, NEW s \in Slots, NEW t, t = NULL \/ Tidy(t), Goes(s, t)
  PROVE  IInv'
<1>1. DOMAIN slot' = Slots
  BY DEF Goes, IInv
<1>2. \A u \in Slots : slot'[u] = NULL \/ Tidy(slot'[u])
  BY DEF Goes, IInv
<1> QED
  BY <1>1, <1>2 DEF IInv, Tidy, Orderly, Recalculated, Changing, Short

\* A row that moves to another order adds it to those to recalculate.
LEMMA Appended ==
  ASSUME NEW o, NEW p
  PROVE  <<o>> \o <<p>> = <<o, p>> /\ <<o>> \o <<>> = <<o>>
<1>1. <<o>> \in Seq({o, p})
  OBVIOUS
<1>2. <<o>> \o <<>> = <<o>>
  BY <1>1, ConcatEmptySeq
<1>3. <<o>> \o <<p>> \in Seq({o, p}) /\ <<o, p>> \in Seq({o, p})
  BY <1>1
<1>4. /\ Len(<<o>> \o <<p>>) = 2 /\ Len(<<o, p>>) = 2
      /\ (<<o>> \o <<p>>)[1] = o /\ (<<o>> \o <<p>>)[2] = p
  BY <1>1
<1>5. <<o>> \o <<p>> = <<o, p>>
  <2> DEFINE l == <<o>> \o <<p>>
             m == <<o, p>>
  <2>1. m[1] = o /\ m[2] = p
    OBVIOUS
  <2>2. l[1] = m[1] /\ l[2] = m[2] /\ Len(l) = 2 /\ Len(m) = 2
    BY <1>4, <2>1
  <2> HIDE DEF l, m
  <2>3. \A i \in 1 .. Len(l) : l[i] = m[i]
    BY <2>2
  <2>4. l \in Seq({o, p}) /\ m \in Seq({o, p})
    BY <1>3 DEF l, m
  <2>5. l = m
    BY <2>2, <2>3, <2>4, SeqEqual
  <2> QED
    BY <2>5 DEF l, m
<1> QED
  BY <1>2, <1>5

LEMMA WriteInv ==
  ASSUME IInv, NEW s \in Active, Write(s)
  PROVE  IInv'
<1> DEFINE t == slot[s]
<1>1. /\ Tidy(t) /\ Changing(t) /\ Orderly(t) /\ t.written = FALSE
  BY DEF Write, IInv, Active, Tidy
<1>2. PICK o : t.todo = <<o>>
  BY <1>1 DEF Orderly
<1>3. PICK more, rows, scope, moved :
        /\ more = <<>> \/ \E p \in Destinations(t) : more = <<p>>
        /\ Enter(s, [t EXCEPT !.rows = rows, !.written = TRUE,
                              !.todo = @ \o more, !.scope = scope],
                 moved)
  BY DEF Write
<1> DEFINE u == [t EXCEPT !.rows = rows, !.written = TRUE,
                          !.todo = @ \o more, !.scope = scope]
<1>4. /\ DOMAIN u = Fields /\ u.kind = t.kind /\ u.written = TRUE
      /\ u.todo = t.todo \o more /\ u.sums = t.sums /\ u.stored = t.stored
  BY <1>1 DEF Tidy, Fields
<1>5. Enter(s, u, moved)
  BY <1>3
<1> HIDE DEF u
<1>6. \/ u.todo = <<o>>
      \/ \E p : p # o /\ u.todo = <<o, p>>
  <2>1. CASE more = <<>>
    BY <1>2, <1>4, <2>1, Appended
  <2>2. ASSUME NEW p \in Destinations(t), more = <<p>>
        PROVE  p # o /\ u.todo = <<o, p>>
    <3>1. o \in Range(t.todo)
      BY <1>2 DEF Range
    <3> QED
      BY <1>2, <1>4, <2>2, <3>1, Appended DEF Destinations
  <2> QED
    BY <1>3, <2>1, <2>2
<1>7. Recalculated(u) = {} /\ u.sums = NULL
  BY <1>1, <1>4 DEF Orderly, Recalculated
<1>8. Tidy(u)
  BY <1>1, <1>4, <1>6, <1>7 DEF Tidy, Orderly, Short
<1> QED
  BY <1>5, <1>8, Entered DEF Active

LEMMA SumInv ==
  ASSUME IInv, NEW s \in Active, Sum(s)
  PROVE  IInv'
<1> DEFINE t == slot[s]
<1>1. Tidy(t) /\ Changing(t) /\ Orderly(t) /\ t.written /\ t.todo # <<>>
  BY DEF Sum, IInv, Active, Tidy
<1>2. PICK sums : Goes(s, [t EXCEPT !.sums = sums])
  BY DEF Sum
<1> DEFINE u == [t EXCEPT !.sums = sums]
<1>3. /\ DOMAIN u = Fields /\ u.kind = t.kind /\ u.written = t.written
      /\ u.todo = t.todo /\ u.stored = t.stored
  BY <1>1 DEF Tidy, Fields
<1>4. Goes(s, u)
  BY <1>2
<1> HIDE DEF u
<1>5. Recalculated(u) = Recalculated(t)
  BY <1>3 DEF Recalculated
<1>6. Tidy(u)
  BY <1>1, <1>3, <1>5 DEF Tidy, Orderly
<1> QED
  BY <1>4, <1>6, GoesInv DEF Active

LEMMA StoreInv ==
  ASSUME IInv, NEW s \in Active, Store(s)
  PROVE  IInv'
<1> DEFINE t == slot[s]
           o == Head(t.todo)
           u == [t EXCEPT !.stored[o] = t.sums, !.sums = NULL, !.todo = Tail(@)]
<1>1. /\ Tidy(t) /\ Changing(t) /\ Orderly(t) /\ t.written /\ t.todo # <<>>
  BY DEF Store, IInv, Active, Tidy
<1>2. Goes(s, u)
  BY DEF Store
<1>3. /\ DOMAIN u = Fields /\ u.kind = t.kind /\ u.written = t.written
      /\ u.todo = Tail(t.todo) /\ u.sums = NULL
      /\ u.stored = [t.stored EXCEPT ![o] = t.sums]
  BY <1>1 DEF Tidy, Fields
<1> HIDE DEF u
<1>4. \/ t.todo = <<o>> /\ u.todo = <<>>
      \/ \E p : p # o /\ t.todo = <<o, p>> /\ u.todo = <<p>>
  <2>1. ASSUME NEW a, t.todo = <<a>>
        PROVE  a = o /\ u.todo = <<>>
    BY <1>3, <2>1
  <2>2. ASSUME NEW a, NEW b, t.todo = <<a, b>>
        PROVE  a = o /\ u.todo = <<b>>
    BY <1>3, <2>2
  <2> QED
    BY <1>1, <2>1, <2>2 DEF Orderly, Short
<1>5. Recalculated(u) \subseteq Recalculated(t) \cup {o}
  BY <1>1, <1>3 DEF Recalculated, Tidy
<1>6. \A i \in DOMAIN u.todo : u.todo[i] \notin Recalculated(u)
  BY <1>1, <1>4, <1>5 DEF Orderly
<1>7. DOMAIN u.stored = Orders
  BY <1>1, <1>3 DEF Tidy
<1>8. Tidy(u)
  BY <1>1, <1>3, <1>4, <1>6, <1>7 DEF Tidy, Orderly, Short
<1> QED
  BY <1>2, <1>8, GoesInv DEF Active

\* Deletes stay deletes.
LEMMA DropInv ==
  ASSUME IInv, NEW s \in Active, LockOrder(s) \/ Cascade(s)
  PROVE  IInv'
<1> DEFINE t == slot[s]
<1>1. Tidy(t) /\ ~Changing(t)
  BY DEF LockOrder, Cascade, IInv, Active
<1>2. PICK u : /\ Goes(s, u)
               /\ \/ u = [t EXCEPT !.written = TRUE]
                  \/ u = [t EXCEPT !.gone = @ \cup {Head(t.todo)},
                                   !.todo = Tail(@), !.written = FALSE]
  BY DEF LockOrder, Cascade
<1>3. /\ DOMAIN u = Fields /\ u.kind = t.kind /\ u.written \in BOOLEAN
      /\ u.stored = t.stored
  BY <1>1, <1>2 DEF Tidy, Fields
<1>4. Tidy(u)
  BY <1>1, <1>3 DEF Tidy, Changing
<1> QED
  BY <1>2, <1>4, GoesInv DEF Active

LEMMA InitInv == Init => IInv
BY DEF Init, IInv

LEMMA NextInv == IInv /\ [Next]_vars => IInv'
<1> SUFFICES ASSUME IInv, [Next]_vars PROVE IInv'
  OBVIOUS
<1>1. CASE UNCHANGED slot
  BY <1>1 DEF IInv, Tidy, Orderly, Recalculated, Changing, Short
<1>2. ASSUME NEW s \in Slots, Goes(s, NULL) PROVE IInv'
  BY <1>2, GoesInv
<1>3. ASSUME NEW s \in Slots, Proceed(s) PROVE IInv'
  BY <1>2, <1>3, WriteInv, SumInv, StoreInv, DropInv
  DEF Proceed, Commit, Refuse, Rollback
<1>4. ASSUME NEW s \in Slots, BreakDeadlock(s) \/ Expire(s) PROVE IInv'
  BY <1>2, <1>4 DEF BreakDeadlock, Expire, Rollback
<1> QED
  BY <1>1, <1>3, <1>4, RequestInv DEF Next, CreateProductionOrder, vars

-----------------------------------------------------------------------------
(* Cycles *)

LEMMA TwoOrders ==
  ASSUME NEW t, Orderly(t), t.todo # <<>>, Recalculated(t) # {}
  PROVE  Cardinality(Recalculated(t) \cup Range(t.todo)) > 1
<1> DEFINE S == Recalculated(t) \cup Range(t.todo)
<1>1. IsFiniteSet(Recalculated(t))
  BY OrderTotalsAssumption, FS_Subset DEF Recalculated
<1>2. /\ IsFiniteSet(Range(t.todo))
      /\ \E o \in Range(t.todo) : o \notin Recalculated(t)
  <2>1. ASSUME NEW o, t.todo = <<o>>
        PROVE  Range(t.todo) = {o} /\ o \notin Recalculated(t)
    BY <2>1 DEF Orderly, Range
  <2>2. ASSUME NEW o, NEW p, t.todo = <<o, p>>
        PROVE  Range(t.todo) = {o} \cup {p} /\ o \notin Recalculated(t)
    BY <2>2 DEF Orderly, Range
  <2>3. \A o, p : IsFiniteSet({o}) /\ IsFiniteSet({o} \cup {p})
    BY FS_Singleton, FS_AddElement
  <2> QED
    <3>1. CASE \E o : t.todo = <<o>>
      BY <2>1, <2>3, <3>1
    <3>2. CASE \E o, p : t.todo = <<o, p>>
      <4>1. PICK o, p : t.todo = <<o, p>>
        BY <3>2
      <4>2. Range(t.todo) = {o} \cup {p} /\ o \notin Recalculated(t)
        BY <2>2, <4>1
      <4> QED
        BY <2>3, <4>2
    <3> QED
      BY <3>1, <3>2 DEF Orderly, Short
<1>3. IsFiniteSet(S)
  BY <1>1, <1>2, FS_Union
<1>4. PICK a \in S, b \in S : a # b
  BY <1>2
<1>5. /\ IsFiniteSet({a} \cup {b})
      /\ Cardinality({a} \cup {b}) = 2
  <2>1. IsFiniteSet({a}) /\ Cardinality({a}) = 1 /\ b \notin {a}
    BY <1>4, FS_Singleton
  <2>2. /\ IsFiniteSet({a} \cup {b})
        /\ Cardinality({a} \cup {b}) =
             IF b \in {a} THEN Cardinality({a}) ELSE Cardinality({a}) + 1
    BY <2>1, FS_AddElement, Zenon
  <2> DEFINE n == Cardinality({a})
             two == {a} \cup {b}
  <2>3. n = 1 /\ IsFiniteSet(two) /\ Cardinality(two) = n + 1
    BY <2>1, <2>2, Zenon
  <2> HIDE DEF S, n, two
  <2>4. IsFiniteSet(two) /\ Cardinality(two) = 2
    BY <2>3
  <2> QED
    BY <2>4 DEF two
<1>6. ({a} \cup {b}) \in SUBSET S
  BY <1>4
<1> HIDE DEF S
<1>7. 2 <= Cardinality(S) /\ Cardinality(S) \in Nat
  BY <1>3, <1>5, <1>6, FS_Subset, FS_CardinalityType
<1> QED
  BY <1>7 DEF S

\* One that waits in a cycle without deletes is still to write, or has an
\* order recalculated and another one to go.
LEMMA Deadlocks ==
  ASSUME IInv
  PROVE  DeadlockNeedsTwoOrders
<1> SUFFICES ASSUME NEW D \in SUBSET Active, D # {}, Cycle(D),
                    \A s \in D : slot[s].kind # "drop",
                    \A s \in D : ~ (Cardinality(Recalculated(slot[s])
                                      \cup Range(slot[s].todo)) > 1)
             PROVE  FALSE
  BY DEF DeadlockNeedsTwoOrders
<1>1. ASSUME NEW s \in D
      PROVE  /\ Changing(slot[s]) /\ Orderly(slot[s]) /\ Deletes(slot[s]) = {}
             /\ slot[s].written \in BOOLEAN
  BY DEF IInv, Active, Tidy, Changing, Deletes
<1>2. ASSUME NEW s \in D
      PROVE  \E u \in D : Blocks(slot[u], slot[s])
  BY DEF Cycle, WaitsFor
<1>3. ASSUME NEW s \in D, slot[s].written
      PROVE  /\ slot[s].todo # <<>>
             /\ \E u \in D : Recalculated(slot[u]) # {}
  <2>1. PICK u \in D : Blocks(slot[u], slot[s])
    BY <1>2
  <2>2. /\ slot[s].sums # NULL
        /\ Head(slot[s].todo) \in Updates(slot[u]) \cup Deletes(slot[u])
    BY <1>1, <1>3, <2>1 DEF Blocks
  <2> QED
    BY <1>1, <2>2 DEF Orderly, Updates
<1>4. ASSUME NEW s \in D PROVE ~ slot[s].written
  <2> SUFFICES ASSUME slot[s].written PROVE FALSE
    OBVIOUS
  <2>1. PICK u \in D : Recalculated(slot[u]) # {}
    BY <1>3
  <2>2. slot[u].written
    BY <1>1, <2>1 DEF Orderly
  <2>3. slot[u].todo # <<>>
    BY <1>3, <2>2
  <2> QED
    BY <1>1, <2>1, <2>3, TwoOrders
<1>5. PICK s \in D : TRUE
  OBVIOUS
<1>6. PICK u \in D : Blocks(slot[u], slot[s])
  BY <1>2
<1>7. \/ Changed(slot[s]) \cap LocksRows(slot[u]) # {}
      \/ slot[s].refers \cap Deletes(slot[u]) # {}
  BY <1>1, <1>4, <1>6 DEF Blocks
<1> QED
  BY <1>1, <1>4, <1>7 DEF LocksRows

\* Whatever any number of transactions do to any rows and orders: they only
\* wait for each other in a cycle when one of them deletes an order or
\* recalculates two.
THEOREM DeadlocksNeedTwoOrders == Spec => []DeadlockNeedsTwoOrders
<1> QED
  BY InitInv, NextInv, Deadlocks, PTL DEF Spec

-----------------------------------------------------------------------------
(* What recalcTotals sums are amounts *)

LEMMA CostIsInt ==
  ASSUME NEW t \in Task, NEW column \in Columns
  PROVE  Cost(t, column) \in Int
BY DEF Cost, Task, Maybe

LEMMA CountIsInt ==
  ASSUME NEW t \in Task, NEW column \in Columns, NEW fallback \in Int
  PROVE  Count(t, column, fallback) \in Int
<1>1. t.column[column] \in Maybe(Nat)
  BY DEF Task
<1> QED
  BY <1>1 DEF Count, Positive, Maybe

LEMMA ServiceTotalIsInt ==
  ASSUME NEW t \in Task, NEW quantity \in Nat
  PROVE  ServiceTotal(t, quantity) \in Int
<1>1. t.stage \in Stages
  BY DEF Task
<1>2. /\ CountColumn(t) \in Columns
      /\ "twistedHandles" \in Columns
  BY <1>1 DEF CountColumn, Stages, Columns, CountColumns
<1>3. ServiceQuantity(t, quantity) \in Int
  <2> DEFINE fallback == IF t.stage \in {"ARTWORK_DESIGN", "CTP_MAKING"} THEN 1
                         ELSE IF quantity > 0 THEN quantity ELSE 1
  <2>1. fallback \in Int
    OBVIOUS
  <2> HIDE DEF fallback
  <2>2. Count(t, CountColumn(t), fallback) \in Int
    BY <1>2, <2>1, CountIsInt
  <2> QED
    BY <2>2 DEF ServiceQuantity, fallback
<1>4. UnitCost(t) \in Int
  <2>1. /\ Cost(t, "costPerCut") \in Int /\ Cost(t, "ctpCostPerColor") \in Int
        /\ Cost(t, "printCostPerColor") \in Int
        /\ Cost(t, "printCostPerImpression") \in Int
        /\ Cost(t, "costPerDiecut") \in Int /\ Cost(t, "matteCost") \in Int
        /\ Cost(t, "glossCost") \in Int /\ Cost(t, "costPerFinish") \in Int
        /\ Cost(t, "bagBaseCost") \in Int /\ Cost(t, "costPerPackaging") \in Int
    BY CostIsInt DEF Columns, CostColumns
  <2> QED
    BY <1>1, <2>1 DEF UnitCost, Stages
<1>5. Count(t, "twistedHandles", 0) \in Int
  BY <1>2, CountIsInt
<1> QED
  <2> DEFINE n == ServiceQuantity(t, quantity)
             c == UnitCost(t)
             h == Count(t, "twistedHandles", 0)
  <2>1. n \in Int /\ c \in Int /\ h \in Int
    BY <1>3, <1>4, <1>5
  <2> HIDE DEF n, c, h
  <2>2. n * c \in Int /\ h * 6500 \in Int
    BY <2>1
  <2>3. ServiceTotal(t, quantity) =
          IF t.stage = "PAPER_SELECTION" /\ ~Positive(t.column["cutQuantity"])
          THEN 0
          ELSE n * c + IF t.stage = "FINISHING" THEN h * 6500 ELSE 0
    BY DEF ServiceTotal, TwistedHandleUnitCost, n, c, h
  <2> QED
    BY <2>2, <2>3

LEMMA PaperCostIsInt ==
  ASSUME NEW t \in Task, t.cutOuts # NULL, Positive(t.column["costPerSheet"])
  PROVE  PaperCostPerPiece(t) \in Int
<1>1. t.cutOuts \in Nat \ {0} /\ t.column["costPerSheet"] \in Nat
  BY DEF Task, Maybe, Positive, Columns, CostColumns
<1> QED
  BY <1>1 DEF PaperCostPerPiece

LEMMA TotalIsInt ==
  ASSUME NEW amount, IsFiniteSet(DOMAIN amount),
         \A r \in DOMAIN amount : amount[r] \in Int
  PROVE  TotalOver(amount) \in Int
BY SumIsInt DEF TotalOver

LEMMA TotalsAreAmounts ==
  ASSUME NEW rows, IsFiniteSet(DOMAIN rows),
         \A r \in DOMAIN rows : rows[r] \in Content, NEW quantity \in Nat
  PROVE  TotalsOf(rows, quantity) \in Totals
<1>1. /\ \A r \in OfTable(rows, "task") : rows[r] \in Task
      /\ \A r \in OfTable(rows, "material") : rows[r] \in Material
      /\ \A r \in OfTable(rows, "activity") : rows[r] \in Activity
  BY DEF OfTable, Content, Task, Material, Activity
<1>2. /\ \A table : IsFiniteSet(OfTable(rows, table))
      /\ IsFiniteSet(PricedPaper(rows)) /\ IsFiniteSet(PricedActivities(rows))
  <2>1. \A table : OfTable(rows, table) \subseteq DOMAIN rows
    BY DEF OfTable
  <2>2. /\ PricedPaper(rows) \subseteq DOMAIN rows
        /\ PricedActivities(rows) \subseteq DOMAIN rows
    BY DEF PricedPaper, PricedActivities, OfTable
  <2> QED
    BY <2>1, <2>2, FS_Subset
<1>3. MaterialsTotal(rows) \in Int
  <2> DEFINE amount == [r \in OfTable(rows, "material") |-> rows[r].lineTotal]
  <2>1. DOMAIN amount = OfTable(rows, "material")
    OBVIOUS
  <2>2. \A r \in DOMAIN amount : amount[r] \in Int
    BY <1>1 DEF Material
  <2> HIDE DEF amount
  <2>3. TotalOver(amount) \in Int
    BY <1>2, <2>1, <2>2, TotalIsInt
  <2> QED
    BY <2>3 DEF MaterialsTotal, amount
<1>4. ServicesTotal(rows, quantity) \in Int
  <2> DEFINE amount == [r \in OfTable(rows, "task") |->
                          ServiceTotal(rows[r], quantity)]
  <2>1. DOMAIN amount = OfTable(rows, "task")
    OBVIOUS
  <2>2. \A r \in DOMAIN amount : amount[r] \in Int
    BY <1>1, ServiceTotalIsInt
  <2> HIDE DEF amount
  <2>3. TotalOver(amount) \in Int
    BY <1>2, <2>1, <2>2, TotalIsInt
  <2> QED
    BY <2>3 DEF ServicesTotal, amount
<1>5. DerivedPaperCost(rows, quantity) \in Int
  <2> DEFINE amount == [r \in PricedPaper(rows) |->
                          PaperCostPerPiece(rows[r]) * quantity]
  <2>1. DOMAIN amount = PricedPaper(rows)
    OBVIOUS
  <2>2. ASSUME NEW r \in PricedPaper(rows)
        PROVE  PaperCostPerPiece(rows[r]) \in Int
    BY <1>1, PaperCostIsInt DEF PricedPaper
  <2>3. \A r \in DOMAIN amount : amount[r] \in Int
    BY <2>2
  <2> HIDE DEF amount
  <2>4. TotalOver(amount) \in Int
    BY <1>2, <2>1, <2>3, TotalIsInt
  <2> QED
    BY <2>4 DEF DerivedPaperCost, amount
<1>6. TaskLabour(rows) \in Int
  <2> DEFINE amount == [r \in OfTable(rows, "task") |->
                          Cost(rows[r], "labourCost")]
  <2>1. DOMAIN amount = OfTable(rows, "task")
    OBVIOUS
  <2>2. \A r \in DOMAIN amount : amount[r] \in Int
    BY <1>1, CostIsInt DEF Columns, CostColumns
  <2> HIDE DEF amount
  <2>3. TotalOver(amount) \in Int
    BY <1>2, <2>1, <2>2, TotalIsInt
  <2> QED
    BY <2>3 DEF TaskLabour, amount
<1>7. FactoryLabour(rows) \in Int
  <2> DEFINE amount == [r \in PricedActivities(rows) |->
                          rows[r].quantityFinished * rows[r].costPerFinish]
  <2>1. DOMAIN amount = PricedActivities(rows)
    OBVIOUS
  <2>2. ASSUME NEW r \in PricedActivities(rows)
        PROVE  rows[r].quantityFinished \in Nat /\ rows[r].costPerFinish \in Nat
    BY <1>1 DEF PricedActivities, Activity, Maybe
  <2>3. \A r \in DOMAIN amount : amount[r] \in Int
    BY <2>2
  <2> HIDE DEF amount
  <2>4. TotalOver(amount) \in Int
    BY <1>2, <2>1, <2>3, TotalIsInt
  <2> QED
    BY <2>4 DEF FactoryLabour, amount
<1> QED
  BY <1>3, <1>4, <1>5, <1>6, <1>7
  DEF TotalsOf, Totals, Subtotal, LabourCost

-----------------------------------------------------------------------------
(* Types *)

Keys(t) == {r \in RowIds : t.rows[r] # NULL}
ToWrite(t) == Changing(t) /\ ~t.written
HasWritten(t) == Changing(t) /\ t.written

\* Which fields of a transaction are set, by what it does: what is inserted is
\* a whole row, and so is all that is written.
Fitting(t) ==
  /\ t.create # NULL => t.quantity # NULL
  /\ \A r \in t.insert : t.rows[r] \in Row
  /\ ~ToWrite(t) => \A r \in RowIds : t.rows[r] \in Row \cup Unset
  /\ IF Changing(t) THEN t.gone = {}
     ELSE /\ t.rows = Nothing /\ Recalculated(t) = {} /\ t.create = NULL
          /\ t.written => t.todo # <<>>

\* An order whose totals are stored is there until the transaction ends: it is
\* created by the transaction, or locked against being deleted.
TypeInv ==
  /\ TypeOK
  /\ IInv
  /\ \A s \in Active :
       /\ Fitting(slot[s])
       /\ Recalculated(slot[s]) \subseteq LiveOrders \cup {slot[s].create}
  /\ \A s, u \in Active : Recalculated(slot[s]) \cap Deletes(slot[u]) = {}

LEMMA RowsAreRecords ==
  /\ \A x \in Row : x \notin Unset
  /\ \A x \in [order : Maybe(Orders), content : Content] : x \notin Unset
  /\ \A x \in Order : x \notin Unset
  /\ \A x \in Totals : x # NULL
BY OrderTotalsAssumption DEF Row, Unset, Maybe

\* Whether it is alone is all that two transactions differ in.
Like(u, t) ==
  /\ u.kind = t.kind /\ u.rows = t.rows /\ u.insert = t.insert
  /\ u.refers = t.refers /\ u.create = t.create /\ u.quantity = t.quantity
  /\ u.todo = t.todo /\ u.written = t.written /\ u.gone = t.gone
  /\ u.sums = t.sums /\ u.stored = t.stored /\ u.scope = t.scope

Becomes(u, t) == Like(u, t) /\ (u.alone => t.alone)

LEMMA AloneLike ==
  ASSUME NEW t \in Transaction, NEW b \in BOOLEAN
  PROVE  /\ [t EXCEPT !.alone = b] \in Transaction
         /\ Like([t EXCEPT !.alone = b], t)
         /\ [t EXCEPT !.alone = b].alone = b
BY DEF Transaction, Like

LEMMA LikeFits ==
  ASSUME NEW t, NEW u, Like(u, t)
  PROVE  /\ Fitting(u) = Fitting(t)
         /\ Recalculated(u) = Recalculated(t)
         /\ Deletes(u) = Deletes(t)
<1>1. Recalculated(u) = Recalculated(t) /\ Changing(u) = Changing(t)
  BY DEF Like, Recalculated, Changing
<1> QED
  BY <1>1 DEF Like, Fitting, Deletes, ToWrite

\* What the slots hold after Enter.
LEMMA AfterEnter ==
  ASSUME TypeOK, NEW s \in Slots, NEW t \in Transaction, NEW moved,
         Enter(s, t, moved)
  PROVE  /\ slot' \in [Slots -> Maybe(Transaction)]
         /\ Active' = Active \cup {s}
         /\ Becomes(slot'[s], t)
         /\ \A u \in Active \ {s} : Becomes(slot'[u], slot[u])
         /\ \A u \in Active \ {s} : slot[u].scope \cap t.scope # {} =>
              /\ ~slot'[u].alone /\ ~slot'[s].alone
              /\ slot[u].scope \cup t.scope \subseteq raced'
         /\ raced \cup moved \subseteq raced'
<1> DEFINE others == {u \in Active \ {s} : slot[u].scope \cap t.scope # {}}
<1>1. /\ slot' = [u \in Slots |->
                    IF u = s THEN [t EXCEPT !.alone = @ /\ others = {}]
                    ELSE IF u \in others THEN [slot[u] EXCEPT !.alone = FALSE]
                    ELSE slot[u]]
      /\ raced' = raced \cup moved
                    \cup UNION {slot[u].scope \cup t.scope : u \in others}
  BY DEF Enter
<1>2. slot'[s] = [t EXCEPT !.alone = t.alone /\ others = {}]
  BY <1>1
<1>3. (t.alone /\ others = {}) \in BOOLEAN
  OBVIOUS
<1>4. /\ slot'[s] \in Transaction /\ Like(slot'[s], t)
      /\ slot'[s].alone = (t.alone /\ others = {})
  BY <1>2, <1>3, AloneLike
<1>5. \A u \in Active : slot[u] \in Transaction
  BY DEF TypeOK, Active, Maybe
<1>6. ASSUME NEW u \in Slots \ {s}
      PROVE  /\ u \in others => /\ slot'[u] \in Transaction
                                /\ Like(slot'[u], slot[u]) /\ ~slot'[u].alone
             /\ u \notin others => slot'[u] = slot[u]
  <2>1. u \in others => slot'[u] = [slot[u] EXCEPT !.alone = FALSE]
    BY <1>1
  <2>2. u \in others => u \in Active
    OBVIOUS
  <2>3. u \notin others => slot'[u] = slot[u]
    BY <1>1
  <2> HIDE DEF others
  <2> QED
    BY <1>5, <2>1, <2>2, <2>3, AloneLike
<1>7. others \subseteq Active \ {s}
  OBVIOUS
<1>8. DOMAIN slot' = Slots /\ slot' = [u \in Slots |-> slot'[u]]
  BY <1>1
<1>9. \A u \in Active \ {s} : slot[u].scope \cap t.scope # {} =>
        u \in others /\ slot[u].scope \cup t.scope \subseteq raced'
  BY <1>1
<1>10. raced \cup moved \subseteq raced'
  BY <1>1
<1> HIDE DEF others
<1>11. \A u \in Slots : slot'[u] \in Maybe(Transaction)
  BY <1>4, <1>6 DEF TypeOK, Maybe
<1>12. slot' \in [Slots -> Maybe(Transaction)]
  BY <1>8, <1>11
<1>13. Becomes(slot'[s], t)
  BY <1>4 DEF Becomes
<1>14. ASSUME NEW u \in Active \ {s}
       PROVE  Becomes(slot'[u], slot[u])
  BY <1>6 DEF Becomes, Like, Active
<1>15. Active' = Active \cup {s}
  BY <1>4, <1>6, <1>7, OrderTotalsAssumption DEF Active
<1>16. ASSUME NEW u \in Active \ {s}, slot[u].scope \cap t.scope # {}
       PROVE  /\ ~slot'[u].alone /\ ~slot'[s].alone
              /\ slot[u].scope \cup t.scope \subseteq raced'
  BY <1>4, <1>6, <1>9, <1>16 DEF Active
<1> QED
  BY <1>10, <1>12, <1>13, <1>14, <1>15, <1>16

LEMMA EnterTypes ==
  ASSUME TypeInv, IInv', NEW s \in Slots, NEW t \in Transaction,
         NEW moved \in SUBSET Orders, Enter(s, t, moved),
         UNCHANGED <<row, order>>,
         Fitting(t), Recalculated(t) = {}, Deletes(t) = {}
  PROVE  TypeInv'
<1>1. TypeOK
  BY DEF TypeInv
<1>2. /\ slot' \in [Slots -> Maybe(Transaction)]
      /\ Active' = Active \cup {s}
      /\ Becomes(slot'[s], t)
      /\ \A u \in Active \ {s} : Becomes(slot'[u], slot[u])
  BY <1>1, AfterEnter
<1>3. ASSUME NEW u \in Active'
      PROVE  \/ u = s /\ Like(slot'[u], t)
             \/ u \in Active \ {s} /\ Like(slot'[u], slot[u])
  BY <1>2 DEF Becomes
<1>4. ASSUME NEW u \in Active'
      PROVE  /\ Fitting(slot'[u])
             /\ \/ Recalculated(slot'[u]) = {} /\ Deletes(slot'[u]) = {}
                \/ /\ u \in Active
                   /\ Recalculated(slot'[u]) = Recalculated(slot[u])
                   /\ Deletes(slot'[u]) = Deletes(slot[u])
                   /\ slot'[u].create = slot[u].create
  <2>1. CASE u = s /\ Like(slot'[u], t)
    BY <2>1, LikeFits
  <2>2. CASE u \in Active \ {s} /\ Like(slot'[u], slot[u])
    <3>1. Fitting(slot[u])
      BY <2>2 DEF TypeInv
    <3>2. slot'[u].create = slot[u].create
      BY <2>2 DEF Like
    <3> QED
      BY <2>2, <3>1, <3>2, LikeFits
  <2> QED
    BY <1>3, <2>1, <2>2
<1>5. raced' \in SUBSET Orders
  <2>1. /\ t.scope \in SUBSET Orders
        /\ \A u \in Active : slot[u].scope \in SUBSET Orders
    BY <1>1 DEF TypeOK, Active, Maybe, Transaction
  <2>2. raced \in SUBSET Orders
    BY <1>1 DEF TypeOK
  <2> QED
    BY <2>1, <2>2 DEF Enter
<1>6. TypeOK'
  BY <1>1, <1>2, <1>5 DEF TypeOK
<1>7. LiveOrders' = LiveOrders
  BY DEF LiveOrders
<1>8. ASSUME NEW u \in Active'
      PROVE  /\ Fitting(slot[u])'
             /\ (Recalculated(slot[u]) \subseteq LiveOrders \cup {slot[u].create})'
  <2>1. Recalculated(slot'[u]) \subseteq LiveOrders \cup {slot'[u].create}
    BY <1>4 DEF TypeInv
  <2> QED
    BY <1>4, <1>7, <2>1 DEF Fitting, Recalculated, Changing, ToWrite
<1>9. ASSUME NEW u \in Active', NEW v \in Active'
      PROVE  (Recalculated(slot[u]) \cap Deletes(slot[v]) = {})'
  <2>1. Recalculated(slot'[u]) \cap Deletes(slot'[v]) = {}
    BY <1>4 DEF TypeInv
  <2> QED
    BY <2>1 DEF Recalculated, Deletes, Changing
<1> QED
  BY <1>6, <1>8, <1>9 DEF TypeInv

\* What is recalculated and deleted after a statement of the slot s.
LEMMA GoesTypes ==
  ASSUME TypeInv, IInv', NEW s \in Slots, NEW t \in Maybe(Transaction),
         Goes(s, t), UNCHANGED <<row, order, raced>>,
         t # NULL => /\ Fitting(t)
                     /\ Recalculated(t) \subseteq LiveOrders \cup {t.create}
                     /\ Recalculated(t) \cap Deletes(t) = {}
                     /\ \A u \in Active \ {s} :
                          /\ Recalculated(t) \cap Deletes(slot[u]) = {}
                          /\ Recalculated(slot[u]) \cap Deletes(t) = {}
  PROVE  TypeInv'
<1>1. TypeOK
  BY DEF TypeInv
<1>2. /\ slot' \in [Slots -> Maybe(Transaction)]
      /\ \A u \in Slots : slot'[u] = IF u = s THEN t ELSE slot[u]
  BY <1>1 DEF TypeOK, Goes
<1>3. TypeOK'
  BY <1>1, <1>2 DEF TypeOK
<1>4. ASSUME NEW u \in Active'
      PROVE  \/ u = s /\ t # NULL /\ slot'[u] = t
             \/ u \in Active \ {s} /\ slot'[u] = slot[u]
  BY <1>2 DEF Active
<1>5. LiveOrders' = LiveOrders
  BY DEF LiveOrders
<1>6. ASSUME NEW u \in Active'
      PROVE  /\ Fitting(slot[u])'
             /\ (Recalculated(slot[u]) \subseteq LiveOrders \cup {slot[u].create})'
  <2>1. /\ Fitting(slot'[u])
        /\ Recalculated(slot'[u]) \subseteq LiveOrders \cup {slot'[u].create}
    BY <1>4 DEF TypeInv
  <2> QED
    BY <1>5, <2>1 DEF Fitting, Recalculated, Changing, ToWrite
<1>7. ASSUME NEW u \in Active', NEW v \in Active'
      PROVE  (Recalculated(slot[u]) \cap Deletes(slot[v]) = {})'
  <2>1. Recalculated(slot'[u]) \cap Deletes(slot'[v]) = {}
    BY <1>4 DEF TypeInv
  <2> QED
    BY <2>1 DEF Recalculated, Deletes, Changing
<1> QED
  BY <1>3, <1>6, <1>7 DEF TypeInv

-----------------------------------------------------------------------------
(* Requests *)

Touched(t) == Range(t.todo) \cup Recalculated(t)

Scoped(t) ==
  /\ Touched(t) \cup t.refers \cup t.gone \subseteq t.scope
  /\ t.create \in Touched(t) \cup {NULL}

\* It writes one row, or the rows of the order it is to recalculate.
Planned(t) ==
  /\ \A r \in Saved(t) : t.rows[r].order \in t.refers \cup {NULL}
  /\ \/ \E k \in RowIds : Keys(t) \subseteq {k}
     \/ \A r \in Saved(t) : t.rows[r].order \in Range(t.todo)

\* What a request begins with.
Started(t) ==
  /\ t \in Transaction /\ Fitting(t) /\ Scoped(t)
  /\ ~t.written /\ t.gone = {} /\ Recalculated(t) = {}
  /\ t.insert \subseteq FreeKeys
  /\ Changing(t) => Planned(t)

LEMMA ChangeStarted ==
  ASSUME NEW rows \in [RowIds -> [order : Maybe(Orders), content : Content] \cup Unset],
         NEW insert \in SUBSET FreeKeys, NEW refers \in SUBSET Orders,
         NEW o \in Orders,
         \A r \in insert : rows[r] \in Row,
         \A r \in RowIds : rows[r] \notin Unset
                            => rows[r].order \in refers \cup {NULL},
         \/ \E k \in RowIds : \A r \in RowIds : rows[r] # NULL => r = k
         \/ \A r \in RowIds : rows[r] \notin Unset => rows[r].order = o,
         NEW create \in {NULL, o}, NEW quantity \in Maybe(Quantities),
         create # NULL => quantity # NULL,
         NEW t,
         \/ t = Change(rows, insert, refers, <<o>>) /\ create = NULL
         \/ t = [Change(rows, insert, refers, <<o>>)
                EXCEPT !.create = create, !.quantity = quantity]
  PROVE  Started(t)
<1> DEFINE c == Change(rows, insert, refers, <<o>>)
<1>1. c = [kind |-> "change", rows |-> rows, insert |-> insert,
           refers |-> refers, create |-> NULL, quantity |-> NULL,
           todo |-> <<o>>, written |-> FALSE, gone |-> {}, sums |-> NULL,
           stored |-> NoTotals, scope |-> Range(<<o>>) \cup refers,
           alone |-> TRUE]
  BY DEF Change
<1>2. Range(<<o>>) = {o}
  BY DEF Range
<1>3. insert \in SUBSET RowIds
  BY DEF FreeKeys
<1>4. <<o>> \in Seq(Orders) /\ NoTotals \in [Orders -> Maybe(Totals)]
  BY DEF NoTotals, Maybe
<1>5. c \in Transaction
  <2> HIDE DEF c
  <2> QED
    BY <1>1, <1>2, <1>3, <1>4 DEF Transaction, Maybe
<1>6. /\ c.kind = "change" /\ c.rows = rows /\ c.insert = insert
      /\ c.refers = refers /\ c.todo = <<o>> /\ c.written = FALSE
      /\ c.gone = {} /\ c.stored = NoTotals /\ c.scope = {o} \cup refers
      /\ c.create = NULL
  <2> HIDE DEF c
  <2> QED
    BY <1>1, <1>2
<1> HIDE DEF c
<1>7. /\ t.kind = "change" /\ t.rows = rows /\ t.insert = insert
      /\ t.refers = refers /\ t.create = create
      /\ t.create # NULL => t.quantity # NULL
      /\ t.todo = <<o>> /\ t.written = FALSE /\ t.gone = {}
      /\ t.stored = NoTotals /\ t.scope = {o} \cup refers
      /\ t \in Transaction
  <2>1. \/ t = c /\ create = NULL
        \/ t = [c EXCEPT !.create = create, !.quantity = quantity]
    BY DEF c
  <2>2. CASE t = c /\ create = NULL
    BY <1>5, <1>6, <2>2
  <2>3. CASE t = [c EXCEPT !.create = create, !.quantity = quantity]
    <3>1. t \in Transaction
      BY <1>5, <2>3 DEF Transaction, Maybe
    <3>2. t.create = create /\ t.quantity = quantity
      BY <1>5, <2>3 DEF Transaction
    <3>3. /\ t.kind = c.kind /\ t.rows = c.rows /\ t.insert = c.insert
          /\ t.refers = c.refers /\ t.todo = c.todo
          /\ t.written = c.written /\ t.gone = c.gone
          /\ t.stored = c.stored /\ t.scope = c.scope
      BY <1>5, <2>3 DEF Transaction
    <3> QED
      BY <1>6, <3>1, <3>2, <3>3
  <2> QED
    BY <2>1, <2>2, <2>3
<1>8. Recalculated(t) = {} /\ Touched(t) = {o} /\ Changing(t)
  BY <1>2, <1>7 DEF Recalculated, NoTotals, Touched, Changing
<1>9. Fitting(t)
  BY <1>7, <1>8 DEF Fitting, ToWrite
<1>10. Scoped(t)
  BY <1>7, <1>8 DEF Scoped
<1>11. Planned(t)
  BY <1>2, <1>7 DEF Planned, Saved, Keys
<1> QED
  BY <1>7, <1>8, <1>9, <1>10, <1>11 DEF Started

LEMMA SingleStarted ==
  ASSUME NEW r \in RowIds,
         NEW value \in [order : Maybe(Orders), content : Content] \cup Unset,
         NEW insert \in SUBSET FreeKeys, insert \subseteq {r},
         insert # {} => value \in Row,
         NEW refers \in SUBSET Orders, NEW o \in Orders,
         value \notin Unset => value.order \in refers \cup {NULL}
  PROVE  Started(Change(Single(r, value), insert, refers, <<o>>))
<1> DEFINE rows == Single(r, value)
<1>1. /\ rows \in [RowIds -> [order : Maybe(Orders), content : Content] \cup Unset]
      /\ rows[r] = value
      /\ \A x \in RowIds : x # r => rows[x] = NULL
  BY DEF Single, Nothing, Unset
<1> HIDE DEF rows
<1>2. /\ \A x \in insert : rows[x] \in Row
      /\ \A x \in RowIds : rows[x] \notin Unset
                            => rows[x].order \in refers \cup {NULL}
      /\ \A x \in RowIds : rows[x] # NULL => x = r
  BY <1>1 DEF Unset
<1>3. NULL \in Maybe(Quantities)
  BY DEF Maybe
<1>4. Started(Change(rows, insert, refers, <<o>>))
  BY <1>1, <1>2, <1>3, ChangeStarted
<1> QED
  BY <1>4 DEF rows

LEMMA InsertStarts ==
  ASSUME NEW s \in Slots, NEW r \in FreeKeys, NEW o \in Orders, NEW c \in Content,
         BeginInsert(s, r, o, c)
  PROVE  \E t : Started(t) /\ Begin(s, t)
<1> DEFINE value == [order |-> o, content |-> c]
<1>1. /\ value \in Row /\ value.order = o
      /\ value \in [order : Maybe(Orders), content : Content] \cup Unset
  BY DEF Row, Maybe
<1> HIDE DEF value
<1>2. r \in RowIds /\ {r} \in SUBSET FreeKeys /\ {o} \in SUBSET Orders
  BY DEF FreeKeys
<1>3. Started(Change(Single(r, value), {r}, {o}, <<o>>))
  BY <1>1, <1>2, SingleStarted
<1> QED
  BY <1>3 DEF BeginInsert, value

LEMMA ChangeRowStarts ==
  ASSUME TypeInv, NEW s \in Slots, NEW r \in LiveRows,
         \/ \E c \in Content : BeginUpdate(s, r, c)
         \/ BeginRemove(s, r)
  PROVE  \E t : Started(t) /\ Begin(s, t)
<1>1. r \in RowIds /\ row[r].order \in Orders
  BY DEF TypeInv, TypeOK, LiveRows, Row
<1>2. {} \in SUBSET FreeKeys /\ {} \in SUBSET Orders
  OBVIOUS
<1>3. ASSUME NEW value \in [order : Maybe(Orders), content : Content] \cup Unset,
             value \notin Unset => value.order = NULL
      PROVE  Started(Change(Single(r, value), {}, {}, <<row[r].order>>))
  <2>1. value \notin Unset => value.order \in {} \cup {NULL}
    BY <1>3
  <2> QED
    BY <1>1, <1>2, <2>1, SingleStarted
<1>4. CASE BeginRemove(s, r)
  <2>1. /\ DELETED \in [order : Maybe(Orders), content : Content] \cup Unset
        /\ DELETED \in Unset
    BY DEF Unset
  <2> QED
    BY <1>3, <1>4, <2>1 DEF BeginRemove
<1>5. ASSUME NEW c \in Content, BeginUpdate(s, r, c)
      PROVE  \E t : Started(t) /\ Begin(s, t)
  <2> DEFINE value == [order |-> NULL, content |-> c]
  <2>1. /\ value \in [order : Maybe(Orders), content : Content] \cup Unset
        /\ value.order = NULL
    BY DEF Maybe
  <2>2. Begin(s, Change(Single(r, value), {}, {}, <<row[r].order>>))
    BY <1>5 DEF BeginUpdate
  <2> HIDE DEF value
  <2> QED
    BY <1>3, <2>1, <2>2
<1> QED
  BY <1>4, <1>5

LEMMA MoveStarts ==
  ASSUME TypeInv, NEW s \in Slots, NEW r \in LiveRows, NEW c \in Content,
         NEW o \in Orders,
         Begin(s, Change(Single(r, [order |-> o, content |-> c]), {}, {o},
                         <<row[r].order>>))
  PROVE  \E t : Started(t) /\ Begin(s, t)
<1>1. r \in RowIds /\ row[r].order \in Orders
  BY DEF TypeInv, TypeOK, LiveRows, Row
<1> DEFINE value == [order |-> o, content |-> c]
<1>2. /\ value \in [order : Maybe(Orders), content : Content] \cup Unset
      /\ value.order = o
  BY DEF Maybe
<1>3. Begin(s, Change(Single(r, value), {}, {o}, <<row[r].order>>))
  OBVIOUS
<1> HIDE DEF value
<1>4. {} \in SUBSET FreeKeys /\ {o} \in SUBSET Orders
  OBVIOUS
<1>5. Started(Change(Single(r, value), {}, {o}, <<row[r].order>>))
  BY <1>1, <1>2, <1>4, SingleStarted
<1> QED
  BY <1>3, <1>5

\* A copied row has the contents of the one it was copied from, or part of
\* its columns.
LEMMA RepeatedIsContent ==
  ASSUME NEW c \in Content
  PROVE  (IF c.table = "task" THEN Repeated(c) ELSE c) \in Content
<1> SUFFICES ASSUME c.table = "task" PROVE Repeated(c) \in Content
  OBVIOUS
<1>1. c \in Task
  BY DEF Content, Task, Material, Activity
<1> DEFINE kept == [x \in Columns |->
     IF x \in {"cutQuantity", "costPerCut", "costPerSheet", "ctpCostPerColor",
               "printCostPerColor", "glossCost", "matteCost", "costPerDiecut",
               "twistedHandles", "costPerFinish", "labourCost"}
     THEN c.column[x] ELSE NULL]
<1>2. kept \in [Columns -> Maybe(Nat)]
  <2>1. c.column \in [Columns -> Maybe(Nat)]
    BY <1>1 DEF Task
  <2>2. \A x \in Columns : c.column[x] \in Maybe(Nat) /\ NULL \in Maybe(Nat)
    BY <2>1 DEF Maybe
  <2> HIDE DEF Columns
  <2> QED
    BY <2>2
<1> HIDE DEF kept
<1>3. [c EXCEPT !.column = kept] \in Task
  BY <1>1, <1>2 DEF Task
<1> QED
  BY <1>3 DEF Repeated, kept, Content

LEMMA RepeatStarts ==
  ASSUME TypeInv, NEW s \in Slots, RepeatProductionOrder(s)
  PROVE  \E t : Started(t) /\ Begin(s, t)
<1> DEFINE Copied(src) ==
             {r \in KeysOf(row, src) : row[r].content.table # "activity"}
           Copy(c) == IF c.table = "task" THEN Repeated(c) ELSE c
           Rows(o, key) ==
             [r \in RowIds |->
                IF r \notin Range(key) THEN NULL
                ELSE [order |-> o, content |->
                       Copy(row[AntiFunction(key)[r]].content)]]
<1>11. PICK src \in LiveOrders, o \in FreeOrders :
         \E key \in [Copied(src) -> FreeKeys] :
           Begin(s, [Change(Rows(o, key), Range(key), {o}, <<o>>)
                     EXCEPT !.create = o, !.quantity = order[src].quantity])
  BY DEF RepeatProductionOrder
<1>1. PICK key \in [Copied(src) -> FreeKeys] :
        Begin(s, [Change(Rows(o, key), Range(key), {o}, <<o>>)
                  EXCEPT !.create = o, !.quantity = order[src].quantity])
  BY <1>11
<1>2. /\ Range(key) \in SUBSET FreeKeys
      /\ Range(key) \subseteq RowIds
      /\ o \in Orders /\ {o} \in SUBSET Orders
  BY DEF FreeOrders, FreeKeys, Range
<1>3. ASSUME NEW r \in Range(key)
      PROVE  row[AntiFunction(key)[r]].content \in Content
  <2>1. AntiFunction(key)[r] \in Copied(src)
    <3>1. \E x \in DOMAIN key : key[x] = r
      BY DEF Range
    <3>2. (CHOOSE x \in DOMAIN key : r \in Range(key) => key[x] = r) \in DOMAIN key
      BY <3>1
    <3>3. AntiFunction(key)[r]
            = CHOOSE x \in DOMAIN key : r \in Range(key) => key[x] = r
      BY DEF AntiFunction, Inverse
    <3> QED
      BY <3>2, <3>3
  <2>2. \A x \in Copied(src) : x \in RowIds /\ row[x] \in Row
    BY DEF KeysOf, TypeInv, TypeOK
  <2> HIDE DEF Copied
  <2> QED
    BY <2>1, <2>2 DEF Row
<1>4. ASSUME NEW r \in Range(key)
      PROVE  Copy(row[AntiFunction(key)[r]].content) \in Content
  BY <1>3, RepeatedIsContent
<1> DEFINE rows == Rows(o, key)
           quantity == order[src].quantity
<1>5. /\ \A r \in RowIds : r \notin Range(key) => rows[r] = NULL
      /\ \A r \in Range(key) : /\ rows[r] \in Row /\ rows[r].order = o
                               /\ rows[r] \in [order : Maybe(Orders), content : Content]
      /\ rows = [r \in RowIds |-> rows[r]]
  <2> HIDE DEF Copy
  <2>1. ASSUME NEW r \in Range(key)
        PROVE  rows[r] = [order |-> o, content |->
                            Copy(row[AntiFunction(key)[r]].content)]
    BY <1>2
  <2> DEFINE Value(r) == Copy(row[AntiFunction(key)[r]].content)
  <2>2. ASSUME NEW r \in Range(key)
        PROVE  rows[r] = [order |-> o, content |-> Value(r)] /\ Value(r) \in Content
    BY <1>4, <2>1
  <2>3. rows = [r \in RowIds |-> rows[r]]
        /\ \A r \in RowIds : r \notin Range(key) => rows[r] = NULL
    OBVIOUS
  <2>4. ASSUME NEW r \in Range(key)
        PROVE  /\ rows[r] \in Row /\ rows[r].order = o
               /\ rows[r] \in [order : Maybe(Orders), content : Content]
    <3> DEFINE v == Value(r)
               x == rows[r]
    <3>1. x = [order |-> o, content |-> v] /\ v \in Content /\ o \in Orders
      BY <1>2, <2>2
    <3> HIDE DEF v, x
    <3>2. /\ x \in Row /\ x.order = o
          /\ x \in [order : Maybe(Orders), content : Content]
      BY <3>1 DEF Row, Maybe
    <3> QED
      BY <3>2 DEF x
  <2> HIDE DEF rows
  <2> QED
    BY <2>3, <2>4
<1>6. Begin(s, [Change(rows, Range(key), {o}, <<o>>)
                EXCEPT !.create = o, !.quantity = quantity])
  BY <1>1
<1> HIDE DEF rows
<1>7. /\ rows \in [RowIds -> [order : Maybe(Orders), content : Content] \cup Unset]
      /\ \A r \in RowIds : rows[r] \notin Unset
                            => rows[r].order = o /\ rows[r].order \in {o} \cup {NULL}
  BY <1>5 DEF Unset
<1>8. quantity \in Maybe(Quantities) /\ quantity # NULL
  <2>1. order[src] \in Order
    BY DEF TypeInv, TypeOK, LiveOrders
  <2>2. order[src].quantity \in Quantities
    BY <2>1 DEF Order
  <2>3. NULL \notin Quantities
    <3>1. Quantities \subseteq Nat
      BY OrderTotalsAssumption
    <3>2. NULL \notin Nat
      BY ServiceCostsAssumption
    <3> QED
      BY <3>1, <3>2
  <2> QED
    BY <2>2, <2>3 DEF Maybe
<1> HIDE DEF quantity
<1> DEFINE t == [Change(rows, Range(key), {o}, <<o>>)
                 EXCEPT !.create = o, !.quantity = quantity]
<1>9. /\ o \in {NULL, o}
      /\ \A r \in Range(key) : rows[r] \in Row
      /\ \A r \in RowIds : rows[r] \notin Unset => rows[r].order \in {o} \cup {NULL}
      /\ \A r \in RowIds : rows[r] \notin Unset => rows[r].order = o
  BY <1>5, <1>7
<1>10. Started(t)
  BY <1>2, <1>7, <1>8, <1>9, ChangeStarted
<1> QED
  BY <1>6, <1>10

LEMMA DropStarts ==
  ASSUME NEW s \in Slots, DeleteProductionOrders(s)
  PROVE  \E t : Started(t) /\ Begin(s, t)
<1>1. PICK named \in Seq(Orders) :
        Begin(s, [Change(Nothing, {}, {}, named) EXCEPT !.kind = "drop"])
  <2>1. \A o \in Orders, p \in Orders :
          (IF o = p THEN <<o>> ELSE <<o, p>>) \in Seq(Orders)
    OBVIOUS
  <2> QED
    BY <2>1 DEF DeleteProductionOrders
<1> DEFINE c == Change(Nothing, {}, {}, named)
           t == [c EXCEPT !.kind = "drop"]
<1>2. c = [kind |-> "change", rows |-> Nothing, insert |-> {},
           refers |-> {}, create |-> NULL, quantity |-> NULL,
           todo |-> named, written |-> FALSE, gone |-> {}, sums |-> NULL,
           stored |-> NoTotals, scope |-> Range(named) \cup {},
           alone |-> TRUE]
  BY DEF Change
<1>3. /\ Range(named) \cup {} \in SUBSET Orders
      /\ NoTotals \in [Orders -> Maybe(Totals)]
      /\ Nothing \in [RowIds -> [order : Maybe(Orders), content : Content] \cup Unset]
  BY DEF Range, NoTotals, Nothing, Maybe, Unset
<1>4. Begin(s, t)
  BY <1>1
<1> HIDE DEF c
<1>5. c \in Transaction
  BY <1>2, <1>3 DEF Transaction, Maybe
<1>6. t \in Transaction /\ t.kind = "drop"
  BY <1>5 DEF Transaction
<1>7. /\ t.rows = Nothing /\ t.insert = {} /\ t.refers = {} /\ t.create = NULL
      /\ t.todo = named /\ t.written = FALSE /\ t.gone = {}
      /\ t.stored = NoTotals /\ t.scope = Range(named) \cup {}
  BY <1>2, <1>5 DEF Transaction
<1> HIDE DEF t
<1>8. Recalculated(t) = {} /\ ~Changing(t)
  BY <1>6, <1>7 DEF Recalculated, NoTotals, Changing
<1>9. Fitting(t)
  BY <1>7, <1>8 DEF Fitting, Nothing, Unset
<1>10. Scoped(t)
  BY <1>7, <1>8 DEF Scoped, Touched
<1>11. Started(t)
  BY <1>6, <1>7, <1>8, <1>9, <1>10 DEF Started
<1> QED
  BY <1>4, <1>11

LEMMA RequestStarts ==
  ASSUME TypeInv, NEW s \in Slots, Request(s)
  PROVE  \E t : Started(t) /\ Begin(s, t)
<1>1. Contents \subseteq Content
  BY OrderTotalsAssumption
<1>2. LiveOrders \subseteq Orders /\ \A o : KeysOf(row, o) \subseteq LiveRows
  BY DEF LiveOrders, LiveRows, KeysOf
<1>3. ASSUME NEW r \in FreeKeys, NEW o \in Orders, NEW c \in Contents,
             BeginInsert(s, r, o, c)
      PROVE  \E t : Started(t) /\ Begin(s, t)
  BY <1>1, <1>3, InsertStarts
<1>4. ASSUME NEW r \in LiveRows,
             \/ \E c \in Contents : BeginUpdate(s, r, c)
             \/ BeginRemove(s, r)
      PROVE  \E t : Started(t) /\ Begin(s, t)
  BY <1>1, <1>4, ChangeRowStarts
<1>5. CASE AddMaterial(s) \/ CreateActivity(s)
  BY <1>2, <1>3, <1>5 DEF AddMaterial, CreateActivity
<1>6. CASE RemoveMaterial(s) \/ DeleteOperation(s) \/ RemoveActivity(s)
  BY <1>4, <1>6 DEF RemoveMaterial, DeleteOperation, RemoveActivity
<1>7. CASE SaveTask(s)
  <2>1. PICK o \in LiveOrders, c \in Contents :
          \/ \E r \in KeysOf(row, o) : BeginUpdate(s, r, c)
          \/ \E r \in FreeKeys : BeginInsert(s, r, o, c)
    BY <1>7 DEF SaveTask
  <2> QED
    BY <1>2, <1>3, <1>4, <2>1
<1>8. CASE UpdateActivity(s)
  <2>1. PICK r \in LiveRows, c \in Contents :
          \/ BeginUpdate(s, r, c)
          \/ \E o \in Orders :
               Begin(s, Change(Single(r, [order |-> o, content |-> c]), {}, {o},
                               <<row[r].order>>))
    BY <1>8 DEF UpdateActivity
  <2> QED
    BY <1>1, <1>4, <2>1, MoveStarts
<1> QED
  BY <1>5, <1>6, <1>7, <1>8, RepeatStarts, DropStarts DEF Request

-----------------------------------------------------------------------------
(* The rows are written *)

\* The row a key is resolved to.
LEMMA ResolvedRow ==
  ASSUME TypeOK, NEW t \in Transaction, Fitting(t), ToWrite(t), ~Missing(t),
         NEW r \in RowIds
  PROVE  /\ t.rows[r] \in Unset => Resolved(t)[r] = t.rows[r]
         /\ t.rows[r] \notin Unset =>
              /\ Resolved(t)[r] \in Row
              /\ Resolved(t)[r].order = IF t.rows[r].order = NULL
                                       THEN row[r].order ELSE t.rows[r].order
              /\ t.rows[r].order = NULL => row[r] \in Row /\ r \in Changed(t)
<1> DEFINE x == t.rows[r]
<1>1. x \in [order : Maybe(Orders), content : Content] \cup Unset
  BY DEF Transaction
<1>2. Resolved(t)[r] = IF x \in Unset THEN x
                       ELSE [x EXCEPT !.order = IF x.order = NULL THEN row[r].order
                                                ELSE x.order]
  BY DEF Resolved
<1>3. x \notin Unset /\ x.order = NULL => row[r] \in Row /\ r \in Changed(t)
  <2> SUFFICES ASSUME x \notin Unset, x.order = NULL
               PROVE  row[r] \in Row /\ r \in Changed(t)
    OBVIOUS
  <2>1. r \notin t.insert
    BY OrderTotalsAssumption DEF Fitting, Row
  <2>2. r \in Changed(t)
    BY <2>1 DEF Changed, Unset
  <2>3. row[r] \notin Unset
    BY <2>2 DEF Missing, ToWrite
  <2> QED
    BY <2>2, <2>3 DEF TypeOK
<1>4. x \notin Unset =>
        /\ Resolved(t)[r] \in Row
        /\ Resolved(t)[r].order = IF x.order = NULL THEN row[r].order ELSE x.order
  <2> SUFFICES ASSUME x \notin Unset
               PROVE  /\ Resolved(t)[r] \in Row
                      /\ Resolved(t)[r].order = IF x.order = NULL THEN row[r].order
                                               ELSE x.order
    OBVIOUS
  <2> DEFINE o == IF x.order = NULL THEN row[r].order ELSE x.order
  <2>1. x \in [order : Maybe(Orders), content : Content]
    BY <1>1
  <2> HIDE DEF x
  <2>2. o \in Orders
    BY <1>3, <2>1 DEF Row, Maybe
  <2>3. Resolved(t)[r] = [x EXCEPT !.order = o]
    BY <1>2
  <2> HIDE DEF o
  <2>4. Resolved(t)[r] \in Row /\ Resolved(t)[r].order = o
    BY <2>1, <2>2, <2>3 DEF Row
  <2> QED
    BY <2>4 DEF o
<1> QED
  BY <1>2, <1>3, <1>4

LEMMA ResolvedKeys ==
  ASSUME TypeOK, NEW t \in Transaction, Fitting(t), ToWrite(t), ~Missing(t)
  PROVE  /\ Resolved(t) \in [RowIds -> Row \cup Unset]
         /\ \A r \in RowIds : /\ Resolved(t)[r] \in Unset <=> t.rows[r] \in Unset
                              /\ Resolved(t)[r] = NULL <=> t.rows[r] = NULL
<1>1. ASSUME NEW r \in RowIds
      PROVE  /\ Resolved(t)[r] \in Row \cup Unset
             /\ Resolved(t)[r] \in Unset <=> t.rows[r] \in Unset
             /\ Resolved(t)[r] = NULL <=> t.rows[r] = NULL
  BY ResolvedRow, RowsAreRecords DEF Unset
<1>2. Resolved(t) = [r \in RowIds |-> Resolved(t)[r]]
  BY DEF Resolved
<1> QED
  BY <1>1, <1>2

\* What a transaction is once its rows are written.
LEMMA WriteEnters ==
  ASSUME TypeInv, NEW s \in Active, Write(s)
  PROVE  \E u \in Transaction, moved \in SUBSET Orders :
           /\ Enter(s, u, moved)
           /\ moved = Origins(slot[s]) \ Range(slot[s].todo)
           /\ u.kind = "change" /\ u.written
           /\ u.rows = Resolved(slot[s]) /\ u.insert = slot[s].insert
           /\ u.refers = slot[s].refers /\ u.create = slot[s].create
           /\ u.quantity = slot[s].quantity /\ u.gone = {} /\ u.sums = NULL
           /\ Recalculated(u) = {}
           /\ u.scope = slot[s].scope \cup Origins(slot[s])
           /\ \/ Destinations(slot[s]) = {} /\ Range(u.todo) = Range(slot[s].todo)
              \/ \E p \in Destinations(slot[s]) :
                   Range(u.todo) = Range(slot[s].todo) \cup {p}
<1> DEFINE t == slot[s]
<1>1. /\ t \in Transaction /\ Fitting(t) /\ Tidy(t) /\ TypeOK
      /\ ToWrite(t) /\ ~Missing(t) /\ t.kind = "change"
  BY DEF Write, TypeInv, TypeOK, IInv, Active, Maybe, ToWrite, Changing
<1>2. PICK o : t.todo = <<o>>
  BY <1>1 DEF Tidy, Orderly, ToWrite
<1>3. Recalculated(t) = {} /\ t.sums = NULL /\ t.gone = {}
  BY <1>1 DEF Tidy, Orderly, ToWrite, Fitting
<1>4. Origins(t) \subseteq Orders
  BY <1>1 DEF Origins, Missing, ToWrite, TypeOK, Row, Changed
<1>5. Resolved(t) \in [RowIds -> Row \cup Unset]
  BY <1>1, ResolvedKeys
<1>6. Destinations(t) \subseteq Orders
  <2>1. \A r \in Saved(t) : r \in RowIds /\ t.rows[r] \notin Unset
    BY DEF Saved
  <2>2. \A r \in Saved(t) : Resolved(t)[r] \in Row
    BY <1>1, <2>1, ResolvedRow
  <2> QED
    BY <2>2 DEF Destinations, Row
<1>7. PICK more :
        /\ \/ Destinations(t) = {} /\ more = <<>>
           \/ \E p \in Destinations(t) : more = <<p>>
        /\ Enter(s, [t EXCEPT !.rows = Resolved(t), !.written = TRUE,
                              !.todo = @ \o more, !.scope = @ \cup Origins(t)],
                 Origins(t) \ Range(t.todo))
  BY DEF Write
<1> DEFINE u == [t EXCEPT !.rows = Resolved(t), !.written = TRUE,
                          !.todo = @ \o more, !.scope = @ \cup Origins(t)]
           moved == Origins(t) \ Range(t.todo)
<1>8. o \in Orders
  <2>1. t.todo \in Seq(Orders)
    BY <1>1 DEF Transaction
  <2> QED
    BY <1>2, <2>1
<1>9. /\ t.todo \o more \in Seq(Orders)
      /\ \/ Destinations(t) = {} /\ Range(t.todo \o more) = Range(t.todo)
         \/ \E p \in Destinations(t) :
              Range(t.todo \o more) = Range(t.todo) \cup {p}
  <2>1. CASE Destinations(t) = {} /\ more = <<>>
    <3>1. t.todo \o more = <<o>>
      BY <1>2, <2>1, Appended
    <3> QED
      BY <1>2, <1>8, <2>1, <3>1
  <2>2. ASSUME NEW p \in Destinations(t), more = <<p>>
        PROVE  /\ t.todo \o more \in Seq(Orders)
               /\ Range(t.todo \o more) = Range(t.todo) \cup {p}
    <3>1. t.todo \o more = <<o, p>>
      BY <1>2, <2>2, Appended
    <3>2. p \in Orders
      BY <1>6
    <3>3. Range(<<o, p>>) = Range(<<o>>) \cup {p}
      BY DEF Range
    <3>4. <<o, p>> \in Seq(Orders)
      BY <1>8, <3>2
    <3> HIDE DEF t
    <3> QED
      BY <1>2, <3>1, <3>3, <3>4
  <2> QED
    BY <1>7, <2>1, <2>2
<1>10. t.scope \cup Origins(t) \in SUBSET Orders
  BY <1>1, <1>4 DEF Transaction
<1>11. /\ u.kind = t.kind /\ u.written = TRUE
       /\ u.rows = Resolved(t) /\ u.insert = t.insert
       /\ u.refers = t.refers /\ u.create = t.create
       /\ u.quantity = t.quantity /\ u.gone = t.gone /\ u.sums = t.sums
       /\ u.stored = t.stored
       /\ u.scope = t.scope \cup Origins(t) /\ u.todo = t.todo \o more
  <2>1. t \in Transaction
    BY <1>1
  <2> HIDE DEF t
  <2> QED
    BY <2>1 DEF Transaction
<1>12. u \in Transaction
  <2> DEFINE rs == Resolved(t)
             td == t.todo \o more
             sc == t.scope \cup Origins(t)
  <2>1. u = [t EXCEPT !.rows = rs, !.written = TRUE, !.todo = td, !.scope = sc]
    OBVIOUS
  <2>2. /\ rs \in [RowIds -> [order : Maybe(Orders), content : Content] \cup Unset]
        /\ td \in Seq(Orders) /\ sc \in SUBSET Orders /\ t \in Transaction
    BY <1>1, <1>5, <1>9, <1>10 DEF Row, Maybe
  <2> HIDE DEF t, u, rs, td, sc
  <2> QED
    BY <2>1, <2>2 DEF Transaction
<1>13. moved \in SUBSET Orders /\ Enter(s, u, moved)
  BY <1>4, <1>7
<1> HIDE DEF u, moved
<1>14. Recalculated(u) = {}
  BY <1>3, <1>11 DEF Recalculated
<1> QED
  BY <1>1, <1>3, <1>9, <1>11, <1>12, <1>13, <1>14 DEF moved

LEMMA WriteTypes ==
  ASSUME TypeInv, IInv', NEW s \in Active, Write(s)
  PROVE  TypeInv'
<1> DEFINE t == slot[s]
<1>1. /\ t \in Transaction /\ Fitting(t) /\ TypeOK
      /\ ToWrite(t) /\ ~Missing(t)
  BY DEF Write, TypeInv, TypeOK, Active, Maybe, ToWrite, Changing
<1>2. PICK u \in Transaction, moved \in SUBSET Orders :
        /\ Enter(s, u, moved) /\ Recalculated(u) = {}
        /\ u.kind = "change" /\ u.written /\ u.gone = {}
        /\ u.rows = Resolved(t) /\ u.insert = t.insert
        /\ u.create = t.create /\ u.quantity = t.quantity
  BY WriteEnters
<1>3. Resolved(t) \in [RowIds -> Row \cup Unset]
  BY <1>1, ResolvedKeys
<1>4. ASSUME NEW r \in t.insert
      PROVE  Resolved(t)[r] \in Row
  <2>1. r \in RowIds /\ t.rows[r] \in Row
    BY <1>1 DEF Fitting, Transaction
  <2> QED
    BY <1>1, <2>1, ResolvedRow, RowsAreRecords
<1>5. Fitting(u)
  BY <1>1, <1>2, <1>3, <1>4 DEF Fitting, Changing, ToWrite
<1>6. Deletes(u) = {}
  BY <1>2 DEF Deletes, Changing
<1>7. s \in Slots /\ UNCHANGED <<row, order>>
  BY DEF Active, Write
<1> QED
  BY <1>2, <1>5, <1>6, <1>7, EnterTypes

LEMMA BeginTypes ==
  ASSUME TypeInv, IInv', NEW s \in Slots, NEW t, Started(t), Begin(s, t)
  PROVE  TypeInv'
<1>1. /\ t \in Transaction /\ Fitting(t) /\ Recalculated(t) = {}
      /\ Enter(s, t, {}) /\ UNCHANGED <<row, order>>
  BY DEF Started, Begin
<1>2. Deletes(t) = {}
  BY DEF Started, Deletes
<1>3. {} \in SUBSET Orders
  OBVIOUS
<1> QED
  BY <1>1, <1>2, <1>3, EnterTypes

-----------------------------------------------------------------------------
(* What comes after *)

LEMMA FreeToStore ==
  ASSUME NEW s \in Active, Free(s), HasWritten(slot[s]), slot[s].sums # NULL,
         NEW u \in Active \ {s}
  PROVE  Head(slot[s].todo) \notin Updates(slot[u]) \cup Deletes(slot[u])
BY DEF Free, WaitsFor, Blocks, HasWritten

LEMMA FreeToLock ==
  ASSUME NEW s \in Active, Free(s), ~Changing(slot[s]), ~slot[s].written,
         slot[s].todo # <<>>, NEW u \in Active \ {s}
  PROVE  Head(slot[s].todo) \notin Updates(slot[u]) \cup Deletes(slot[u])
BY DEF Free, WaitsFor, Blocks

\* What a transaction sees is rows.
LEMMA ViewIsRows ==
  ASSUME TypeOK, NEW t \in Transaction, Fitting(t)
  PROVE  /\ t.written => View(t) \in [RowIds -> Row \cup Unset]
         /\ \A o : t.written => /\ IsFiniteSet(DOMAIN RowsOf(View(t), o))
                                /\ \A r \in DOMAIN RowsOf(View(t), o) :
                                     RowsOf(View(t), o)[r] \in Content
<1> SUFFICES ASSUME t.written
             PROVE  /\ View(t) \in [RowIds -> Row \cup Unset]
                    /\ \A o : /\ IsFiniteSet(DOMAIN RowsOf(View(t), o))
                              /\ \A r \in DOMAIN RowsOf(View(t), o) :
                                   RowsOf(View(t), o)[r] \in Content
  OBVIOUS
<1>1. View(t) \in [RowIds -> Row \cup Unset]
  BY DEF View, Fitting, ToWrite, TypeOK
<1> DEFINE table == View(t)
<1> HIDE DEF table
<1>2. table \in [RowIds -> Row \cup Unset]
  BY <1>1 DEF table
<1>3. ASSUME NEW o
      PROVE  /\ IsFiniteSet(DOMAIN RowsOf(table, o))
             /\ \A r \in DOMAIN RowsOf(table, o) : RowsOf(table, o)[r] \in Content
  <2>1. DOMAIN RowsOf(table, o) = KeysOf(table, o) /\ KeysOf(table, o) \subseteq RowIds
    BY DEF RowsOf, KeysOf
  <2>2. IsFiniteSet(KeysOf(table, o))
    BY <2>1, ServiceCostsAssumption, FS_Subset
  <2>3. \A r \in KeysOf(table, o) : table[r] \in Row
    BY <1>2 DEF KeysOf
  <2>4. \A r \in KeysOf(table, o) : RowsOf(table, o)[r] \in Content
    BY <2>3 DEF RowsOf, Row
  <2> QED
    BY <2>1, <2>2, <2>4
<1> QED
  BY <1>1, <1>3 DEF table

LEMMA QuantityIsThere ==
  ASSUME TypeOK, NEW t \in Transaction, Fitting(t), NEW o \in Orders, Exists(t, o)
  PROVE  QuantityOf(t, o) \in Quantities
<1>1. CASE o = t.create
  <2>1. t.quantity \in Maybe(Quantities) /\ o # NULL
    BY OrderTotalsAssumption DEF Transaction
  <2> QED
    BY <1>1, <2>1 DEF QuantityOf, Fitting, Maybe
<1>2. CASE o # t.create
  <2>1. order[o] \in Order
    BY <1>2 DEF Exists, LiveOrders, TypeOK
  <2> QED
    BY <1>2, <2>1 DEF QuantityOf, Order
<1> QED
  BY <1>1, <1>2

LEMMA SumTypes ==
  ASSUME TypeInv, IInv', NEW s \in Active, Sum(s)
  PROVE  TypeInv'
<1> DEFINE t == slot[s]
           o == Head(t.todo)
           sums == TotalsOf(RowsOf(View(t), o), QuantityOf(t, o))
           u == [t EXCEPT !.sums = sums]
<1>1. /\ t \in Transaction /\ Fitting(t) /\ TypeOK
      /\ HasWritten(t) /\ t.todo # <<>> /\ ~Missing(t)
  BY DEF Sum, TypeInv, TypeOK, Active, Maybe, HasWritten
<1>2. o \in Orders
  BY <1>1 DEF Transaction
<1>3. Exists(t, o)
  BY <1>1 DEF Missing, HasWritten
<1>4. QuantityOf(t, o) \in Nat
  BY <1>1, <1>2, <1>3, QuantityIsThere, OrderTotalsAssumption
<1>5. sums \in Totals
  <2> HIDE DEF t, o
  <2>1. t.written
    BY <1>1 DEF HasWritten
  <2> QED
    BY <1>1, <1>4, <2>1, ViewIsRows, TotalsAreAmounts
<1>6. Goes(s, u) /\ UNCHANGED <<row, order, raced>>
  BY DEF Sum
<1> HIDE DEF sums
<1>7. u \in Transaction
  BY <1>1, <1>5 DEF Transaction, Maybe
<1>8. /\ u.kind = t.kind /\ u.written = t.written /\ u.rows = t.rows
      /\ u.insert = t.insert /\ u.create = t.create /\ u.quantity = t.quantity
      /\ u.gone = t.gone /\ u.todo = t.todo /\ u.stored = t.stored
  BY <1>1 DEF Transaction
<1> HIDE DEF u
<1>9. Recalculated(u) = Recalculated(t) /\ Changing(u) = Changing(t)
  BY <1>8 DEF Recalculated, Changing
<1>10. Fitting(u) /\ Deletes(u) = Deletes(t)
  BY <1>1, <1>8, <1>9 DEF Fitting, Deletes, ToWrite
<1>11. /\ Recalculated(t) \subseteq LiveOrders \cup {t.create}
       /\ Recalculated(t) \cap Deletes(t) = {}
       /\ \A v \in Active : /\ Recalculated(t) \cap Deletes(slot[v]) = {}
                            /\ Recalculated(slot[v]) \cap Deletes(t) = {}
  BY DEF TypeInv
<1>12. s \in Slots /\ u \in Maybe(Transaction)
  BY <1>7 DEF Active, Maybe
<1> HIDE DEF t
<1> QED
  BY <1>6, <1>8, <1>9, <1>10, <1>11, <1>12, GoesTypes

LEMMA StoreTypes ==
  ASSUME TypeInv, IInv', NEW s \in Active, Store(s)
  PROVE  TypeInv'
<1> DEFINE t == slot[s]
           o == Head(t.todo)
           u == [t EXCEPT !.stored[o] = t.sums, !.sums = NULL, !.todo = Tail(@)]
<1>1. /\ t \in Transaction /\ Fitting(t) /\ TypeOK /\ Free(s)
      /\ HasWritten(t) /\ t.todo # <<>> /\ t.sums # NULL /\ ~Missing(t)
  BY DEF Store, TypeInv, TypeOK, Active, Maybe, HasWritten
<1>2. o \in Orders /\ Tail(t.todo) \in Seq(Orders)
  BY <1>1 DEF Transaction
<1>3. o \in LiveOrders \cup {t.create}
  BY <1>1 DEF Missing, HasWritten, Exists
<1>4. Goes(s, u) /\ UNCHANGED <<row, order, raced>>
  BY DEF Store
<1>5. /\ u.kind = t.kind /\ u.written = t.written /\ u.rows = t.rows
      /\ u.insert = t.insert /\ u.create = t.create /\ u.quantity = t.quantity
      /\ u.gone = t.gone /\ u.todo = Tail(t.todo)
      /\ u.stored = [t.stored EXCEPT ![o] = t.sums]
  BY <1>1 DEF Transaction
<1>6. u \in Transaction
  <2> DEFINE td == Tail(t.todo)
             st == [t.stored EXCEPT ![o] = t.sums]
  <2>1. td \in Seq(Orders) /\ st \in [Orders -> Maybe(Totals)]
    BY <1>1, <1>2 DEF Transaction
  <2>2. u = [t EXCEPT !.stored = st, !.sums = NULL, !.todo = td]
    OBVIOUS
  <2> HIDE DEF u, td, st
  <2> QED
    BY <1>1, <2>1, <2>2 DEF Transaction, Maybe
<1> HIDE DEF u
<1>7. /\ Recalculated(u) \subseteq Recalculated(t) \cup {o}
      /\ Changing(u) /\ Changing(t)
  BY <1>1, <1>5 DEF Recalculated, Changing, Transaction, HasWritten
<1>8. Deletes(u) = {}
  BY <1>7 DEF Deletes
<1>9. Fitting(u)
  BY <1>1, <1>5, <1>7 DEF Fitting, ToWrite
<1>10. \A v \in Active \ {s} : o \notin Deletes(slot[v])
  BY <1>1, FreeToStore
<1>11. /\ Recalculated(t) \subseteq LiveOrders \cup {t.create}
       /\ \A v \in Active : Recalculated(t) \cap Deletes(slot[v]) = {}
  BY DEF TypeInv
<1>12. s \in Slots /\ u \in Maybe(Transaction)
  BY <1>6 DEF Active, Maybe
<1>13. /\ Recalculated(u) \subseteq LiveOrders \cup {u.create}
       /\ \A v \in Active \ {s} : Recalculated(u) \cap Deletes(slot[v]) = {}
  BY <1>3, <1>5, <1>7, <1>10, <1>11
<1> HIDE DEF t, o
<1> QED
  BY <1>4, <1>8, <1>9, <1>12, <1>13, GoesTypes

\* A delete locks the order and then deletes it: what it keeps from others
\* is the same before and after.
LEMMA DropTypes ==
  ASSUME TypeInv, IInv', NEW s \in Active, LockOrder(s) \/ Cascade(s)
  PROVE  TypeInv'
<1> DEFINE t == slot[s]
           o == Head(t.todo)
<1>1. /\ t \in Transaction /\ Fitting(t) /\ ~Changing(t)
      /\ Recalculated(t) = {} /\ UNCHANGED <<row, order, raced>> /\ s \in Slots
  BY DEF LockOrder, Cascade, TypeInv, TypeOK, Active, Maybe, Fitting
<1>2. \A v \in Active \ {s} : Recalculated(slot[v]) \cap Deletes(t) = {}
  BY DEF TypeInv
<1>3. ASSUME NEW u \in Transaction, Goes(s, u),
             u.kind = t.kind, u.rows = t.rows, u.insert = t.insert,
             u.create = t.create, u.quantity = t.quantity, u.stored = t.stored,
             u.written => u.todo # <<>>,
             \A v \in Active \ {s} : Recalculated(slot[v]) \cap Deletes(u) = {}
      PROVE  TypeInv'
  <2>1. Recalculated(u) = {} /\ ~Changing(u)
    BY <1>1, <1>3 DEF Recalculated, Changing
  <2>2. Fitting(u)
    BY <1>1, <1>3, <2>1 DEF Fitting, ToWrite
  <2>3. u \in Maybe(Transaction)
    BY DEF Maybe
  <2> HIDE DEF t
  <2> QED
    BY <1>1, <1>3, <2>1, <2>2, <2>3, GoesTypes
<1>4. CASE LockOrder(s)
  <2> DEFINE u == [t EXCEPT !.written = TRUE]
  <2>1. Free(s) /\ ~t.written /\ t.todo # <<>> /\ Goes(s, u)
    BY <1>4 DEF LockOrder
  <2>2. /\ u \in Transaction /\ u.kind = t.kind /\ u.rows = t.rows
        /\ u.insert = t.insert /\ u.create = t.create
        /\ u.quantity = t.quantity /\ u.stored = t.stored
        /\ u.gone = t.gone /\ u.todo = t.todo
    BY <1>1 DEF Transaction
  <2> HIDE DEF u
  <2>3. Deletes(u) \subseteq Deletes(t) \cup {o}
    BY <1>1, <2>2 DEF Deletes, Changing
  <2>4. \A v \in Active \ {s} : o \notin Recalculated(slot[v])
    BY <1>1, <2>1, FreeToLock DEF Updates
  <2>5. \A v \in Active \ {s} : Recalculated(slot[v]) \cap Deletes(u) = {}
    BY <1>2, <2>3, <2>4
  <2> HIDE DEF t, o
  <2> QED
    BY <1>3, <2>1, <2>2, <2>5
<1>5. CASE Cascade(s)
  <2> DEFINE u == [t EXCEPT !.gone = @ \cup {o}, !.todo = Tail(@),
                            !.written = FALSE]
  <2>1. t.written /\ Goes(s, u)
    BY <1>5 DEF Cascade
  <2>2. t.todo # <<>>
    BY <1>1, <2>1 DEF Fitting
  <2>3. o \in Orders /\ Tail(t.todo) \in Seq(Orders) /\ t.gone \cup {o} \in SUBSET Orders
    BY <1>1, <2>2 DEF Transaction
  <2>4. /\ u.kind = t.kind /\ u.rows = t.rows
        /\ u.insert = t.insert /\ u.create = t.create
        /\ u.quantity = t.quantity /\ u.stored = t.stored
        /\ u.gone = t.gone \cup {o} /\ u.written = FALSE
    BY <1>1 DEF Transaction
  <2>5. u \in Transaction
    <3> DEFINE g == t.gone \cup {o}
               td == Tail(t.todo)
    <3>1. u = [t EXCEPT !.gone = g, !.todo = td, !.written = FALSE]
      OBVIOUS
    <3>2. g \in SUBSET Orders /\ td \in Seq(Orders)
      BY <2>3
    <3> HIDE DEF u, g, td
    <3> QED
      BY <1>1, <3>1, <3>2 DEF Transaction
  <2> HIDE DEF u
  <2>6. Deletes(u) \subseteq Deletes(t)
    BY <1>1, <2>1, <2>4 DEF Deletes, Changing
  <2>7. \A v \in Active \ {s} : Recalculated(slot[v]) \cap Deletes(u) = {}
    BY <1>2, <2>6
  <2> HIDE DEF t, o
  <2> QED
    BY <1>3, <2>1, <2>4, <2>5, <2>7
<1> QED
  BY <1>4, <1>5

\* What a commit does to the tables.
LEMMA CommitTables ==
  ASSUME TypeInv, NEW s \in Active, Commit(s)
  PROVE  /\ ~ToWrite(slot[s]) /\ slot[s].todo = <<>>
         /\ DOMAIN row' = RowIds /\ DOMAIN order' = Orders
         /\ \A r \in RowIds :
              \/ /\ row'[r] = DELETED /\ row[r] \notin Unset
                 /\ row[r].order \in slot[s].gone
              \/ /\ slot[s].rows[r] # NULL /\ row'[r] = slot[s].rows[r]
                 /\ HasWritten(slot[s])
              \/ /\ slot[s].rows[r] = NULL /\ row'[r] = row[r]
         /\ \A o \in Orders :
              \/ o \in slot[s].gone /\ order'[o] = DELETED /\ ~Changing(slot[s])
              \/ /\ o \in Recalculated(slot[s]) /\ o \notin slot[s].gone
                 /\ order'[o] = [quantity |-> QuantityOf(slot[s], o),
                                 totals |-> slot[s].stored[o]]
              \/ /\ o \notin Recalculated(slot[s]) /\ o \notin slot[s].gone
                 /\ order'[o] = order[o]
<1> DEFINE t == slot[s]
           lost == UNION {KeysOf(row, o) : o \in t.gone}
<1>1. /\ t.todo = <<>> /\ (Changing(t) => t.written)
      /\ row' = [r \in RowIds |-> IF r \in lost THEN DELETED
                                ELSE IF t.rows[r] # NULL THEN t.rows[r]
                                ELSE row[r]]
      /\ order' = [o \in Orders |->
                     IF o \in t.gone THEN DELETED
                     ELSE IF t.stored[o] # NULL
                     THEN [quantity |-> QuantityOf(t, o), totals |-> t.stored[o]]
                     ELSE order[o]]
  BY DEF Commit
<1>2. Fitting(t)
  BY DEF TypeInv
<1>3. ~ToWrite(t)
  BY <1>1 DEF ToWrite
<1>4. \A r \in lost : row[r] \notin Unset /\ row[r].order \in t.gone
  BY DEF KeysOf
<1>5. ASSUME NEW r \in RowIds
      PROVE  \/ /\ row'[r] = DELETED /\ row[r] \notin Unset
                /\ row[r].order \in t.gone
             \/ /\ t.rows[r] # NULL /\ row'[r] = t.rows[r] /\ HasWritten(t)
             \/ /\ t.rows[r] = NULL /\ row'[r] = row[r]
  <2>1. row'[r] = IF r \in lost THEN DELETED
                  ELSE IF t.rows[r] # NULL THEN t.rows[r] ELSE row[r]
    BY <1>1
  <2>2. t.rows[r] # NULL => HasWritten(t)
    BY <1>1, <1>2 DEF Fitting, HasWritten, Nothing
  <2> HIDE DEF lost, t
  <2> QED
    BY <1>4, <2>1, <2>2
<1>6. ASSUME NEW o \in Orders
      PROVE  \/ o \in t.gone /\ order'[o] = DELETED /\ ~Changing(t)
             \/ /\ o \in Recalculated(t) /\ o \notin t.gone
                /\ order'[o] = [quantity |-> QuantityOf(t, o),
                                totals |-> t.stored[o]]
             \/ o \notin Recalculated(t) /\ o \notin t.gone /\ order'[o] = order[o]
  BY <1>1, <1>2 DEF Fitting, Recalculated
<1>7. DOMAIN row' = RowIds /\ DOMAIN order' = Orders
  BY <1>1
<1> QED
  BY <1>1, <1>3, <1>5, <1>6, <1>7

\* A commit stores whole orders, and creates what it recalculates.
LEMMA CommitOrders ==
  ASSUME TypeInv, NEW s \in Active, Commit(s), NEW o \in Orders
  PROVE  /\ order'[o] \in Order \cup Unset
         /\ o \in LiveOrders /\ o \notin slot[s].gone => order'[o] \notin Unset
         /\ o \in Recalculated(slot[s]) => order'[o] \in Order
         /\ order[o] # NULL => order'[o] # NULL
<1> DEFINE t == slot[s]
<1>1. /\ t \in Transaction /\ Fitting(t) /\ TypeOK
      /\ Recalculated(t) \subseteq LiveOrders \cup {t.create}
  BY DEF TypeInv, TypeOK, Active, Maybe
<1>2. \/ o \in t.gone /\ order'[o] = DELETED /\ ~Changing(t)
      \/ /\ o \in Recalculated(t) /\ o \notin t.gone
         /\ order'[o] = [quantity |-> QuantityOf(t, o), totals |-> t.stored[o]]
      \/ /\ o \notin Recalculated(t) /\ o \notin t.gone
         /\ order'[o] = order[o]
  BY CommitTables
<1>3. CASE o \in t.gone /\ order'[o] = DELETED /\ ~Changing(t)
  BY <1>1, <1>3, OrderTotalsAssumption DEF Fitting, Unset
<1>4. CASE /\ o \in Recalculated(t) /\ o \notin t.gone
           /\ order'[o] = [quantity |-> QuantityOf(t, o),
                           totals |-> t.stored[o]]
  <2>1. Exists(t, o)
    BY <1>1, <1>4 DEF Exists
  <2>2. QuantityOf(t, o) \in Quantities
    BY <1>1, <2>1, QuantityIsThere
  <2>3. t.stored[o] \in Totals
    BY <1>1, <1>4 DEF Recalculated, Transaction, Maybe
  <2>4. order'[o] \in Order
    BY <1>4, <2>2, <2>3 DEF Order
  <2> QED
    BY <2>4, RowsAreRecords DEF Unset
<1>5. CASE /\ o \notin Recalculated(t) /\ o \notin t.gone
           /\ order'[o] = order[o]
  BY <1>1, <1>5 DEF TypeOK, LiveOrders
<1> QED
  BY <1>2, <1>3, <1>4, <1>5

LEMMA CommitTypes ==
  ASSUME TypeInv, IInv', NEW s \in Active, Commit(s)
  PROVE  TypeInv'
<1> DEFINE t == slot[s]
<1>1. /\ t \in Transaction /\ Fitting(t) /\ TypeOK
      /\ Recalculated(t) \subseteq LiveOrders \cup {t.create}
  BY DEF TypeInv, TypeOK, Active, Maybe
<1>2. /\ ~ToWrite(t) /\ DOMAIN row' = RowIds /\ DOMAIN order' = Orders
      /\ \A r \in RowIds : row'[r] \in {DELETED, t.rows[r], row[r]}
      /\ \A o \in Orders :
           \/ o \in t.gone /\ order'[o] = DELETED /\ ~Changing(t)
           \/ /\ o \in Recalculated(t) /\ o \notin t.gone
              /\ order'[o] = [quantity |-> QuantityOf(t, o),
                              totals |-> t.stored[o]]
           \/ o \notin t.gone /\ order'[o] = order[o]
  BY CommitTables
<1>3. row' = [r \in RowIds |-> row'[r]] /\ order' = [o \in Orders |-> order'[o]]
  BY DEF Commit
<1>4. row' \in [RowIds -> Row \cup Unset]
  <2>1. \A r \in RowIds : row'[r] \in Row \cup Unset
    BY <1>1, <1>2 DEF Fitting, TypeOK, Unset
  <2> QED
    BY <1>3, <2>1
<1>6. ASSUME NEW o \in Orders
      PROVE  /\ order'[o] \in Order \cup Unset
             /\ o \in LiveOrders /\ o \notin t.gone => order'[o] \notin Unset
  BY CommitOrders
<1>7. order' \in [Orders -> Order \cup Unset]
  BY <1>3, <1>6
<1>8. /\ slot' \in [Slots -> Maybe(Transaction)]
      /\ \A u \in Slots : slot'[u] = IF u = s THEN NULL ELSE slot[u]
      /\ raced' = raced
  BY <1>1 DEF Commit, Goes, TypeOK, Maybe
<1>9. TypeOK'
  BY <1>1, <1>4, <1>7, <1>8 DEF TypeOK
<1>10. \A u \in Active' : u \in Active \ {s} /\ slot'[u] = slot[u]
  BY <1>8 DEF Active
<1>11. t.gone \subseteq Deletes(t) /\ t.gone \subseteq Orders
  BY <1>1 DEF Deletes, Fitting, Transaction
<1>12. ASSUME NEW u \in Active'
       PROVE  /\ Fitting(slot[u])'
              /\ (Recalculated(slot[u]) \subseteq LiveOrders \cup {slot[u].create})'
  <2>1. /\ Fitting(slot[u]) /\ slot'[u] = slot[u]
        /\ Recalculated(slot[u]) \subseteq LiveOrders \cup {slot[u].create}
        /\ Recalculated(slot[u]) \cap Deletes(t) = {}
    BY <1>10 DEF TypeInv
  <2>2. \A o \in LiveOrders : o \notin t.gone => o \in LiveOrders'
    BY <1>6 DEF LiveOrders
  <2>3. Recalculated(slot[u]) \subseteq LiveOrders' \cup {slot[u].create}
    BY <1>11, <2>1, <2>2
  <2> QED
    BY <2>1, <2>3 DEF Fitting, Recalculated, Changing, ToWrite
<1>13. ASSUME NEW u \in Active', NEW v \in Active'
       PROVE  (Recalculated(slot[u]) \cap Deletes(slot[v]) = {})'
  <2>1. Recalculated(slot'[u]) \cap Deletes(slot'[v]) = {}
    BY <1>10 DEF TypeInv
  <2> QED
    BY <2>1 DEF Recalculated, Deletes, Changing
<1> QED
  BY <1>9, <1>12, <1>13 DEF TypeInv

LEMMA CreateTypes ==
  ASSUME TypeInv, IInv', NEW o \in Orders, NEW q \in Quantities,
         CreateProductionOrder(o, q)
  PROVE  TypeInv'
<1>1. TypeOK
  BY DEF TypeInv
<1> DEFINE new == [quantity |-> q, totals |-> [subtotal |-> 0, labourCost |-> 0,
                                              grandTotal |-> 0]]
<1>2. /\ order' = [order EXCEPT ![o] = new] /\ UNCHANGED <<row, slot, raced>>
  BY DEF CreateProductionOrder
<1>3. new \in Order
  BY DEF Order, Totals
<1> HIDE DEF new
<1>4. /\ order' \in [Orders -> Order \cup Unset]
      /\ \A p \in Orders : order'[p] = IF p = o THEN new ELSE order[p]
  BY <1>1, <1>2, <1>3 DEF TypeOK
<1>5. TypeOK'
  BY <1>1, <1>2, <1>4 DEF TypeOK
<1>6. LiveOrders \subseteq LiveOrders'
  BY <1>3, <1>4, RowsAreRecords DEF LiveOrders
<1>7. Active' = Active
  BY <1>2 DEF Active
<1>8. ASSUME NEW u \in Active
      PROVE  /\ Fitting(slot[u])'
             /\ (Recalculated(slot[u]) \subseteq LiveOrders \cup {slot[u].create})'
  <2>1. /\ Fitting(slot[u])
        /\ Recalculated(slot[u]) \subseteq LiveOrders' \cup {slot[u].create}
    BY <1>6 DEF TypeInv
  <2> QED
    BY <1>2, <2>1 DEF Fitting, Recalculated, Changing, ToWrite
<1>9. ASSUME NEW u \in Active, NEW v \in Active
      PROVE  (Recalculated(slot[u]) \cap Deletes(slot[v]) = {})'
  <2>1. Recalculated(slot[u]) \cap Deletes(slot[v]) = {}
    BY DEF TypeInv
  <2> QED
    BY <1>2, <2>1 DEF Recalculated, Deletes, Changing
<1> QED
  BY <1>5, <1>7, <1>8, <1>9 DEF TypeInv

LEMMA InitTypes == Init => TypeInv
<1> SUFFICES ASSUME Init PROVE TypeInv
  OBVIOUS
<1>1. TypeOK /\ Active = {}
  BY DEF Init, TypeOK, Active, Unset, Maybe
<1> QED
  BY <1>1, InitInv DEF TypeInv

LEMMA NextTypes == TypeInv /\ [Next]_vars => TypeInv'
<1> SUFFICES ASSUME TypeInv, [Next]_vars PROVE TypeInv'
  OBVIOUS
<1>1. IInv'
  BY NextInv DEF TypeInv
<1>2. CASE UNCHANGED vars
  BY <1>1, <1>2 DEF TypeInv, TypeOK, vars, Active, LiveOrders, Fitting,
                   Recalculated, Deletes, Changing, ToWrite
<1>3. ASSUME NEW s \in Active, Rollback(s) PROVE TypeInv'
  <2>1. s \in Slots /\ NULL \in Maybe(Transaction)
    BY DEF Active, Maybe
  <2> QED
    BY <1>1, <1>3, <2>1, GoesTypes DEF Rollback
<1>4. ASSUME NEW s \in Slots, Request(s) PROVE TypeInv'
  <2>1. PICK t : Started(t) /\ Begin(s, t)
    BY <1>4, RequestStarts
  <2> QED
    BY <1>1, <2>1, BeginTypes
<1>5. ASSUME NEW s \in Slots, Proceed(s) PROVE TypeInv'
  BY <1>1, <1>3, <1>5, WriteTypes, SumTypes, StoreTypes, DropTypes, CommitTypes
  DEF Proceed, Refuse
<1> QED
  BY <1>1, <1>2, <1>3, <1>4, <1>5, CreateTypes DEF Next, BreakDeadlock, Expire

\* What is in the tables and in the transactions is always of the shape the
\* schema and the functions give it: a total that is stored is a sum of whole
\* rows, whatever part of a row an update named, and is stored on an order
\* that is there.
THEOREM TypesHold == Spec => []TypeOK
<1>1. TypeInv => TypeOK
  BY DEF TypeInv
<1> QED
  BY <1>1, InitTypes, NextTypes, PTL DEF Spec

-----------------------------------------------------------------------------
(* The totals and the transactions in flight *)

\* What t sees of the tables, and the totals it would store for the order o.
Seen(table, t) == [r \in RowIds |-> IF t.written /\ t.rows[r] # NULL
                                   THEN t.rows[r] ELSE table[r]]
Made(orders, t, o) == IF o = t.create THEN t.quantity ELSE orders[o].quantity
Shown(table, orders, t, o) ==
  TotalsOf(RowsOf(Seen(table, t), o), Made(orders, t, o))

Known(orders, t, o) == o = t.create \/ orders[o] # NULL

\* Every row written is, and was, of an order that is recalculated, or was
\* moved by others in the meantime.
Settled(table, orders, races, t) ==
  /\ \A r \in Changed(t) : table[r] # NULL
  /\ \A r \in Saved(t) : /\ t.rows[r].order \in Touched(t)
                         /\ Known(orders, t, t.rows[r].order)
  /\ \A r \in Keys(t) : table[r] \notin Unset =>
       /\ table[r].order \in t.scope
       /\ table[r].order \in Touched(t) \cup races

\* The sums of an order no one else was about are those of the rows the
\* transaction sees.
Right(table, orders, races, t) ==
  \A o \in t.scope : (t.alone \/ o \notin races) =>
    /\ t.stored[o] # NULL => t.stored[o] = Shown(table, orders, t, o)
    /\ (t.sums # NULL /\ Head(t.todo) = o) =>
         Known(orders, t, o) /\ t.sums = Shown(table, orders, t, o)

Good(table, orders, races, t) ==
  /\ Scoped(t)
  /\ \A r \in t.insert : table[r] = NULL
  /\ ToWrite(t) => Planned(t)
  /\ HasWritten(t) => /\ Settled(table, orders, races, t)
                      /\ Right(table, orders, races, t)

\* Two transactions neither insert nor write the same row, and if they are
\* about the same order the history says so.
Apart(races, t, u) ==
  /\ t.insert \cap u.insert = {}
  /\ t.scope \cap u.scope # {} => t.scope \subseteq races /\ ~t.alone
  /\ HasWritten(t) /\ HasWritten(u) => Changed(t) \cap Changed(u) = {}

\* The rows there are belong to orders that have been created.
Housed(table, orders) ==
  \A r \in RowIds : table[r] \notin Unset => orders[table[r].order] # NULL

Agree(table, orders, races) ==
  \A o \in Orders : (orders[o] \notin Unset /\ o \notin races) =>
    orders[o].totals = TotalsOf(RowsOf(table, o), orders[o].quantity)

HistoryInv ==
  /\ Agree(row, order, raced)
  /\ Housed(row, order)
  /\ \A s \in Active : Good(row, order, raced, slot[s])
  /\ \A s, u \in Active : s # u => Apart(raced, slot[s], slot[u])

LEMMA ViewIsSeen ==
  ASSUME NEW t, NEW o
  PROVE  /\ View(t) = Seen(row, t)
         /\ TotalsOf(RowsOf(View(t), o), QuantityOf(t, o)) = Shown(row, order, t, o)
BY DEF View, Seen, QuantityOf, Shown, Made

\* Tables that differ only in rows of other orders.
LEMMA SameRows ==
  ASSUME NEW f, NEW g, NEW o,
         \A r \in RowIds : \/ f[r] = g[r]
                           \/ /\ f[r] \in Unset \/ f[r].order # o
                              /\ g[r] \in Unset \/ g[r].order # o
  PROVE  RowsOf(f, o) = RowsOf(g, o)
<1>1. KeysOf(f, o) = KeysOf(g, o)
  BY DEF KeysOf
<1>2. \A r \in KeysOf(f, o) : f[r] = g[r]
  BY DEF KeysOf
<1> QED
  BY <1>1, <1>2 DEF RowsOf

LEMMA LikeWrites ==
  ASSUME NEW t, NEW u, Like(u, t)
  PROVE  /\ Changed(u) = Changed(t) /\ Saved(u) = Saved(t) /\ Keys(u) = Keys(t)
         /\ HasWritten(u) = HasWritten(t) /\ ToWrite(u) = ToWrite(t)
         /\ Touched(u) = Touched(t)
BY LikeFits DEF Like, Changed, Saved, Keys, HasWritten, ToWrite, Changing, Touched

LEMMA StaysGood ==
  ASSUME NEW table, NEW orders, NEW races, NEW more, races \subseteq more,
         NEW t, NEW u, Becomes(u, t), Good(table, orders, races, t)
  PROVE  Good(table, orders, more, u)
<1>1. /\ Like(u, t) /\ (u.alone => t.alone)
      /\ Changed(u) = Changed(t) /\ Saved(u) = Saved(t) /\ Keys(u) = Keys(t)
      /\ HasWritten(u) = HasWritten(t) /\ ToWrite(u) = ToWrite(t)
      /\ Touched(u) = Touched(t)
  BY LikeWrites DEF Becomes
<1>2. Scoped(u) /\ (ToWrite(u) => Planned(u)) /\ \A r \in u.insert : table[r] = NULL
  BY <1>1 DEF Good, Like, Scoped, Planned
<1>3. ASSUME HasWritten(u) PROVE Settled(table, orders, more, u)
  <2>1. Settled(table, orders, races, t)
    BY <1>1, <1>3 DEF Good
  <2> QED
    BY <1>1, <2>1 DEF Settled, Like, Known
<1>4. ASSUME HasWritten(u) PROVE Right(table, orders, more, u)
  <2>1. Right(table, orders, races, t)
    BY <1>1, <1>4 DEF Good
  <2>2. \A o : /\ Shown(table, orders, u, o) = Shown(table, orders, t, o)
               /\ Known(orders, u, o) = Known(orders, t, o)
    BY <1>1 DEF Shown, Seen, Made, Known, Like
  <2> QED
    BY <1>1, <2>1, <2>2 DEF Right, Like
<1> QED
  BY <1>2, <1>3, <1>4 DEF Good

LEMMA StaysApart ==
  ASSUME NEW races, NEW more, races \subseteq more,
         NEW t, NEW u, NEW v, NEW w, Becomes(v, t), Becomes(w, u),
         Apart(races, t, u)
  PROVE  Apart(more, v, w)
<1>1. /\ Like(v, t) /\ (v.alone => t.alone) /\ Like(w, u)
      /\ Changed(v) = Changed(t) /\ HasWritten(v) = HasWritten(t)
      /\ Changed(w) = Changed(u) /\ HasWritten(w) = HasWritten(u)
  BY LikeWrites DEF Becomes
<1> QED
  BY <1>1 DEF Apart, Like

\* A request begins, or writes its rows.
LEMMA EnterHistory ==
  ASSUME TypeInv, HistoryInv, NEW s \in Slots, NEW t \in Transaction,
         NEW moved \in SUBSET Orders, Enter(s, t, moved),
         UNCHANGED <<row, order>>, Good(row, order, raced \cup moved, t),
         \A u \in Active \ {s} :
           /\ t.insert \cap slot[u].insert = {}
           /\ HasWritten(t) /\ HasWritten(slot[u])
                => Changed(t) \cap Changed(slot[u]) = {}
  PROVE  HistoryInv'
<1>1. TypeOK
  BY DEF TypeInv
<1>2. /\ Active' = Active \cup {s}
      /\ Becomes(slot'[s], t)
      /\ \A u \in Active \ {s} : Becomes(slot'[u], slot[u])
      /\ \A u \in Active \ {s} : slot[u].scope \cap t.scope # {} =>
           /\ ~slot'[u].alone /\ ~slot'[s].alone
           /\ slot[u].scope \cup t.scope \subseteq raced'
      /\ raced \subseteq raced' /\ raced \cup moved \subseteq raced'
  BY <1>1, AfterEnter
<1>3. Agree(row', order', raced') /\ Housed(row', order')
  BY <1>2 DEF HistoryInv, Agree
<1>4. ASSUME NEW u \in Active'
      PROVE  Good(row', order', raced', slot'[u])
  <2>1. CASE u = s
    BY <1>2, <2>1, StaysGood
  <2>2. CASE u \in Active \ {s}
    <3>1. Good(row, order, raced, slot[u])
      BY <2>2 DEF HistoryInv
    <3> QED
      BY <1>2, <2>2, <3>1, StaysGood
  <2> QED
    BY <1>2, <2>1, <2>2
<1>5. ASSUME NEW u \in Active \ {s}
      PROVE  Apart(raced', slot'[s], slot'[u]) /\ Apart(raced', slot'[u], slot'[s])
  <2>1. /\ Like(slot'[s], t) /\ Like(slot'[u], slot[u])
    BY <1>2 DEF Becomes
  <2>2. /\ Changed(slot'[s]) = Changed(t) /\ HasWritten(slot'[s]) = HasWritten(t)
        /\ Changed(slot'[u]) = Changed(slot[u])
        /\ HasWritten(slot'[u]) = HasWritten(slot[u])
    BY <2>1, LikeWrites
  <2>3. /\ slot'[s].scope = t.scope /\ slot'[u].scope = slot[u].scope
        /\ slot'[s].insert = t.insert /\ slot'[u].insert = slot[u].insert
    BY <2>1 DEF Like
  <2> QED
    BY <1>2, <2>2, <2>3 DEF Apart
<1>6. ASSUME NEW u \in Active \ {s}, NEW v \in Active \ {s}, u # v
      PROVE  Apart(raced', slot'[u], slot'[v])
  <2>1. Apart(raced, slot[u], slot[v])
    BY <1>6 DEF HistoryInv
  <2> QED
    BY <1>2, <2>1, StaysApart
<1>7. \A u, v \in Active' : u # v => Apart(raced', slot'[u], slot'[v])
  BY <1>2, <1>5, <1>6
<1> QED
  BY <1>3, <1>4, <1>7 DEF HistoryInv

LEMMA BeginHistory ==
  ASSUME TypeInv, HistoryInv, NEW s \in Slots, NEW t, Started(t), Begin(s, t)
  PROVE  HistoryInv'
<1>1. /\ t \in Transaction /\ Scoped(t) /\ ~t.written
      /\ t.insert \subseteq FreeKeys /\ (Changing(t) => Planned(t))
      /\ Enter(s, t, {}) /\ UNCHANGED <<row, order>>
  BY DEF Started, Begin
<1>2. Good(row, order, raced \cup {}, t)
  BY <1>1 DEF Good, FreeKeys, ToWrite, HasWritten
<1>3. \A u \in Active \ {s} : t.insert \cap slot[u].insert = {}
  BY <1>1 DEF FreeKeys
<1>4. ~HasWritten(t) /\ {} \in SUBSET Orders
  BY <1>1 DEF HasWritten
<1> QED
  BY <1>1, <1>2, <1>3, <1>4, EnterHistory

LEMMA FreeToWrite ==
  ASSUME NEW s \in Active, Free(s), ToWrite(slot[s]),
         NEW u \in Active \ {s}, HasWritten(slot[u])
  PROVE  Changed(slot[s]) \cap Changed(slot[u]) = {}
<1>1. Changed(slot[s]) \cap LocksRows(slot[u]) = {}
  BY DEF Free, WaitsFor, Blocks, ToWrite
<1> QED
  BY <1>1 DEF LocksRows, HasWritten

LEMMA WriteHistory ==
  ASSUME TypeInv, HistoryInv, NEW s \in Active, Write(s)
  PROVE  HistoryInv'
<1> DEFINE t == slot[s]
<1>1. /\ t \in Transaction /\ Fitting(t) /\ TypeOK
      /\ ToWrite(t) /\ ~Missing(t) /\ Free(s)
      /\ s \in Slots /\ UNCHANGED <<row, order>>
  BY DEF Write, TypeInv, TypeOK, Active, Maybe, ToWrite, Changing
<1>2. PICK u \in Transaction, moved \in SUBSET Orders :
        /\ Enter(s, u, moved) /\ Recalculated(u) = {}
        /\ moved = Origins(t) \ Range(t.todo)
        /\ u.kind = "change" /\ u.written /\ u.gone = {} /\ u.sums = NULL
        /\ u.rows = Resolved(t) /\ u.insert = t.insert
        /\ u.refers = t.refers /\ u.create = t.create
        /\ u.scope = t.scope \cup Origins(t)
        /\ \/ Destinations(t) = {} /\ Range(u.todo) = Range(t.todo)
           \/ \E p \in Destinations(t) : Range(u.todo) = Range(t.todo) \cup {p}
  BY WriteEnters
<1>3. /\ Scoped(t) /\ Planned(t) /\ \A r \in t.insert : row[r] = NULL
      /\ Housed(row, order)
  BY <1>1 DEF HistoryInv, Good
<1>4. /\ Keys(u) = Keys(t) /\ Saved(u) = Saved(t) /\ Changed(u) = Changed(t)
      /\ HasWritten(u) /\ ~ToWrite(u) /\ Touched(u) = Range(u.todo)
  <2>1. \A r \in RowIds : /\ u.rows[r] \in Unset <=> t.rows[r] \in Unset
                          /\ u.rows[r] = NULL <=> t.rows[r] = NULL
    BY <1>1, <1>2, ResolvedKeys
  <2>2. ASSUME NEW r \in RowIds
        PROVE  /\ r \in Keys(u) <=> r \in Keys(t)
               /\ r \in Saved(u) <=> r \in Saved(t)
    <3>1. /\ u.rows[r] \in Unset <=> t.rows[r] \in Unset
          /\ u.rows[r] = NULL <=> t.rows[r] = NULL
      BY <2>1
    <3> HIDE DEF t
    <3> QED
      BY <3>1 DEF Keys, Saved
  <2>6. /\ Keys(u) \subseteq RowIds /\ Keys(t) \subseteq RowIds
        /\ Saved(u) \subseteq RowIds /\ Saved(t) \subseteq RowIds
    BY DEF Keys, Saved
  <2>5. Keys(u) = Keys(t) /\ Saved(u) = Saved(t)
    BY <2>2, <2>6
  <2>3. Changed(u) = Changed(t)
    <3>1. Changed(u) = Keys(u) \ u.insert /\ Changed(t) = Keys(t) \ t.insert
      BY DEF Changed, Keys
    <3> QED
      BY <1>2, <2>5, <3>1
  <2>4. HasWritten(u) /\ ~ToWrite(u) /\ Touched(u) = Range(u.todo)
    BY <1>2 DEF HasWritten, ToWrite, Changing, Touched
  <2> QED
    BY <2>3, <2>4, <2>5
<1>5. Range(t.todo) \subseteq Orders /\ Recalculated(t) = {}
  BY <1>1 DEF Transaction, Range, TypeInv, IInv, Tidy, Orderly, Active, ToWrite
<1>6. Range(t.todo) \subseteq Range(u.todo)
  BY <1>2
<1>7. ASSUME NEW r \in Saved(t)
      PROVE  /\ u.rows[r].order \in Range(t.todo) \cup Destinations(t)
             /\ u.rows[r].order = IF t.rows[r].order = NULL THEN row[r].order
                                ELSE t.rows[r].order
             /\ t.rows[r].order = NULL => /\ row[r] \notin Unset
                                          /\ r \in Changed(t) /\ r \in RowIds
             /\ t.rows[r].order # NULL => t.rows[r].order \in t.refers
  <2>1. r \in RowIds /\ t.rows[r] \notin Unset
    BY DEF Saved
  <2>2. u.rows[r].order \in Range(t.todo) \cup Destinations(t)
    BY <1>2 DEF Destinations
  <2>3. t.rows[r].order = NULL => row[r] \in Row /\ r \in Changed(t)
    BY <1>1, <2>1, ResolvedRow
  <2>4. u.rows[r].order = IF t.rows[r].order = NULL THEN row[r].order
                          ELSE t.rows[r].order
    BY <1>1, <1>2, <2>1, ResolvedRow
  <2>5. t.rows[r].order \in t.refers \cup {NULL}
    BY <1>3 DEF Planned
  <2> QED
    BY <2>1, <2>2, <2>3, <2>4, <2>5, RowsAreRecords
<1>8. ASSUME NEW r \in Saved(t)
      PROVE  u.rows[r].order \in Range(u.todo)
  <2>1. CASE \A x \in Saved(t) : t.rows[x].order \in Range(t.todo)
    BY <1>5, <1>6, <1>7, <2>1, OrderTotalsAssumption
  <2>2. CASE \E k \in RowIds : Keys(t) \subseteq {k}
    <3>1. \A x \in Saved(t) : x = r
      BY <2>2 DEF Saved, Keys, Unset
    <3>2. \A p \in Destinations(t) : p = u.rows[r].order
      BY <1>2, <3>1 DEF Destinations
    <3> QED
      BY <1>2, <1>7, <3>2
  <2> QED
    BY <1>3, <2>1, <2>2 DEF Planned
<1>9. ASSUME NEW r \in Saved(t)
      PROVE  Known(order, u, u.rows[r].order)
  <2>1. CASE t.rows[r].order = NULL
    BY <1>3, <1>7, <2>1 DEF Known, Housed
  <2>2. CASE t.rows[r].order # NULL
    <3>1. Exists(t, t.rows[r].order)
      BY <1>1, <1>7, <2>2 DEF Missing, ToWrite
    <3> QED
      BY <1>2, <1>7, <2>2, <3>1 DEF Known, Exists, LiveOrders, Unset
  <2> QED
    BY <2>1, <2>2
<1>10. \A r \in Changed(t) : row[r] \notin Unset /\ row[r].order \in Origins(t)
  BY <1>1 DEF Missing, ToWrite, Origins
<1>11. Settled(row, order, raced \cup moved, u)
  <2>1. \A r \in Changed(u) : row[r] # NULL
    BY <1>4, <1>10 DEF Unset
  <2>2. \A r \in Saved(u) : /\ u.rows[r].order \in Touched(u)
                            /\ Known(order, u, u.rows[r].order)
    BY <1>4, <1>8, <1>9
  <2>3. ASSUME NEW r \in Keys(u), row[r] \notin Unset
        PROVE  /\ row[r].order \in u.scope
               /\ row[r].order \in Touched(u) \cup (raced \cup moved)
    <3>1. r \in Changed(t)
      BY <1>3, <1>4, <2>3 DEF Keys, Changed, Unset
    <3> QED
      BY <1>2, <1>4, <1>6, <1>10, <3>1
  <2> QED
    BY <2>1, <2>2, <2>3 DEF Settled
<1>12. Right(row, order, raced \cup moved, u)
  <2>1. \A o \in u.scope : u.stored[o] = NULL
    BY <1>2 DEF Recalculated, Transaction
  <2> QED
    BY <1>2, <2>1 DEF Right
<1>13. Scoped(u)
  <2>1. ASSUME NEW p \in Destinations(t) PROVE p \in u.scope
    <3>1. PICK r \in Saved(t) : p = u.rows[r].order
      BY <1>2 DEF Destinations
    <3>2. CASE t.rows[r].order = NULL
      BY <1>2, <1>7, <1>10, <3>1, <3>2
    <3>3. CASE t.rows[r].order # NULL
      BY <1>2, <1>3, <1>7, <3>1, <3>3 DEF Scoped
    <3> QED
      BY <3>2, <3>3
  <2>2. Range(u.todo) \subseteq u.scope
    BY <1>2, <1>3, <2>1 DEF Scoped, Touched
  <2>3. u.create \in Touched(u) \cup {NULL}
    BY <1>2, <1>3, <1>4, <1>5, <1>6 DEF Scoped, Touched
  <2> QED
    BY <1>2, <1>3, <1>4, <2>2, <2>3 DEF Scoped
<1>14. Good(row, order, raced \cup moved, u)
  BY <1>2, <1>3, <1>4, <1>11, <1>12, <1>13 DEF Good
<1>15. ASSUME NEW v \in Active \ {s}
       PROVE  /\ u.insert \cap slot[v].insert = {}
              /\ HasWritten(u) /\ HasWritten(slot[v])
                   => Changed(u) \cap Changed(slot[v]) = {}
  <2>1. Apart(raced, t, slot[v])
    BY DEF HistoryInv
  <2>2. HasWritten(slot[v]) => Changed(t) \cap Changed(slot[v]) = {}
    BY <1>1, FreeToWrite
  <2> QED
    BY <1>2, <1>4, <2>1, <2>2 DEF Apart
<1> HIDE DEF t
<1> QED
  BY <1>1, <1>2, <1>14, <1>15, EnterHistory

\* What it writes, inserts and is about stays as it is afterwards.
LEMMA GoesHistory ==
  ASSUME TypeInv, HistoryInv, NEW s \in Active, NEW t, Goes(s, t),
         UNCHANGED <<row, order, raced>>,
         t # NULL => /\ Good(row, order, raced, t)
                     /\ t.insert = slot[s].insert /\ t.scope = slot[s].scope
                     /\ t.alone = slot[s].alone
                     /\ HasWritten(t) => /\ HasWritten(slot[s])
                                         /\ Changed(t) = Changed(slot[s])
  PROVE  HistoryInv'
<1>1. \A u \in Slots : slot'[u] = IF u = s THEN t ELSE slot[u]
  BY DEF Goes, TypeInv, TypeOK
<1>2. ASSUME NEW u \in Active'
      PROVE  /\ u \in Active
             /\ \/ slot'[u] = slot[u]
                \/ u = s /\ slot'[u] = t /\ t # NULL
  BY <1>1 DEF Active
<1>3. ASSUME NEW u \in Active'
      PROVE  /\ Good(row, order, raced, slot'[u])
             /\ slot'[u].insert = slot[u].insert /\ slot'[u].scope = slot[u].scope
             /\ slot'[u].alone = slot[u].alone
             /\ HasWritten(slot'[u]) => /\ HasWritten(slot[u])
                                        /\ Changed(slot'[u]) = Changed(slot[u])
  BY <1>2 DEF HistoryInv
<1>4. ASSUME NEW u \in Active', NEW v \in Active', u # v
      PROVE  Apart(raced, slot'[u], slot'[v])
  <2>1. Apart(raced, slot[u], slot[v])
    BY <1>2, <1>4 DEF HistoryInv
  <2> QED
    BY <1>3, <2>1 DEF Apart
<1>5. Agree(row', order', raced') /\ Housed(row', order')
  BY DEF HistoryInv
<1> QED
  BY <1>3, <1>4, <1>5 DEF HistoryInv

LEMMA SumHistory ==
  ASSUME TypeInv, HistoryInv, NEW s \in Active, Sum(s)
  PROVE  HistoryInv'
<1> DEFINE t == slot[s]
           o == Head(t.todo)
           sums == TotalsOf(RowsOf(View(t), o), QuantityOf(t, o))
           u == [t EXCEPT !.sums = sums]
<1>1. /\ t \in Transaction /\ HasWritten(t) /\ ~Missing(t) /\ t.todo # <<>>
      /\ Goes(s, u) /\ UNCHANGED <<row, order, raced>>
      /\ Good(row, order, raced, t)
  BY DEF Sum, TypeInv, TypeOK, Active, Maybe, HasWritten, HistoryInv
<1>2. sums = Shown(row, order, t, o)
  BY ViewIsSeen
<1>3. Known(order, t, o)
  BY <1>1 DEF Missing, HasWritten, Exists, LiveOrders, Known, Unset
<1> HIDE DEF sums
<1>4. /\ u.kind = t.kind /\ u.written = t.written /\ u.rows = t.rows
      /\ u.insert = t.insert /\ u.refers = t.refers /\ u.create = t.create
      /\ u.quantity = t.quantity /\ u.gone = t.gone /\ u.todo = t.todo
      /\ u.stored = t.stored /\ u.scope = t.scope /\ u.alone = t.alone
      /\ u.sums = sums
  BY <1>1 DEF Transaction
<1> HIDE DEF u
<1>5. /\ Changed(u) = Changed(t) /\ Saved(u) = Saved(t) /\ Keys(u) = Keys(t)
      /\ HasWritten(u) /\ ~ToWrite(u) /\ Recalculated(u) = Recalculated(t)
      /\ Touched(u) = Touched(t)
  BY <1>1, <1>4 DEF Changed, Saved, Keys, HasWritten, ToWrite, Changing,
                   Recalculated, Touched
<1>6. \A p : /\ Shown(row, order, u, p) = Shown(row, order, t, p)
             /\ Known(order, u, p) = Known(order, t, p)
  BY <1>4 DEF Shown, Seen, Made, Known
<1>7. Settled(row, order, raced, u)
  BY <1>1, <1>4, <1>5, <1>6 DEF Good, Settled
<1>8. Right(row, order, raced, u)
  BY <1>1, <1>2, <1>3, <1>4, <1>6 DEF Good, Right
<1>9. Good(row, order, raced, u)
  BY <1>1, <1>4, <1>5, <1>7, <1>8 DEF Good, Scoped
<1> HIDE DEF t
<1>10. t = slot[s]
  BY DEF t
<1> QED
  BY <1>1, <1>4, <1>5, <1>9, <1>10, GoesHistory

LEMMA StoreHistory ==
  ASSUME TypeInv, HistoryInv, NEW s \in Active, Store(s)
  PROVE  HistoryInv'
<1> DEFINE t == slot[s]
           o == Head(t.todo)
           u == [t EXCEPT !.stored[o] = t.sums, !.sums = NULL, !.todo = Tail(@)]
<1>1. /\ t \in Transaction /\ HasWritten(t) /\ t.todo # <<>> /\ t.sums # NULL
      /\ Goes(s, u) /\ UNCHANGED <<row, order, raced>>
      /\ Good(row, order, raced, t)
  BY DEF Store, TypeInv, TypeOK, Active, Maybe, HasWritten, HistoryInv
<1>2. /\ u.kind = t.kind /\ u.written = t.written /\ u.rows = t.rows
      /\ u.insert = t.insert /\ u.refers = t.refers /\ u.create = t.create
      /\ u.quantity = t.quantity /\ u.gone = t.gone /\ u.todo = Tail(t.todo)
      /\ u.scope = t.scope /\ u.alone = t.alone /\ u.sums = NULL
      /\ u.stored = [t.stored EXCEPT ![o] = t.sums]
  BY <1>1 DEF Transaction
<1> HIDE DEF u
<1>3. /\ t.todo \in Seq(Orders) /\ t.stored \in [Orders -> Maybe(Totals)]
      /\ o \in Orders
  BY <1>1 DEF Transaction
<1>4. /\ Changed(u) = Changed(t) /\ Saved(u) = Saved(t) /\ Keys(u) = Keys(t)
      /\ HasWritten(u) /\ ~ToWrite(u)
  BY <1>1, <1>2 DEF Changed, Saved, Keys, HasWritten, ToWrite, Changing
<1>5. /\ Recalculated(u) = Recalculated(t) \cup {o}
      /\ \A p \in Orders : u.stored[p] = IF p = o THEN t.sums ELSE t.stored[p]
  BY <1>1, <1>2, <1>3 DEF Recalculated
<1>6. Range(t.todo) = {o} \cup Range(Tail(t.todo))
  <2>1. Short(t.todo)
    BY <1>1 DEF TypeInv, IInv, Tidy, Orderly, Active, HasWritten
  <2>2. ASSUME NEW a, t.todo = <<a>>
        PROVE  Range(t.todo) = {o} \cup Range(Tail(t.todo))
    <3>1. o = a /\ Tail(t.todo) = <<>>
      BY <2>2
    <3> QED
      BY <2>2, <3>1 DEF Range
  <2>3. ASSUME NEW a, NEW b, t.todo = <<a, b>>
        PROVE  Range(t.todo) = {o} \cup Range(Tail(t.todo))
    <3>1. o = a /\ Tail(t.todo) = <<b>>
      BY <2>3
    <3> QED
      BY <2>3, <3>1 DEF Range
  <2> QED
    BY <1>1, <2>1, <2>2, <2>3 DEF Short
<1>7. Touched(u) = Touched(t)
  BY <1>2, <1>5, <1>6 DEF Touched
<1>8. \A p : /\ Shown(row, order, u, p) = Shown(row, order, t, p)
             /\ Known(order, u, p) = Known(order, t, p)
  BY <1>2 DEF Shown, Seen, Made, Known
<1>9. Settled(row, order, raced, u)
  BY <1>1, <1>2, <1>4, <1>7, <1>8 DEF Good, Settled
<1>10. Right(row, order, raced, u)
  <2>1. t.scope \subseteq Orders /\ Right(row, order, raced, t)
    BY <1>1 DEF Transaction, Good
  <2> QED
    BY <1>1, <1>2, <1>5, <1>8, <2>1 DEF Right
<1>11. Good(row, order, raced, u)
  BY <1>1, <1>2, <1>4, <1>7, <1>9, <1>10 DEF Good, Scoped
<1> HIDE DEF t, o
<1>12. t = slot[s]
  BY DEF t
<1> QED
  BY <1>1, <1>2, <1>4, <1>11, <1>12, GoesHistory

LEMMA DropHistory ==
  ASSUME TypeInv, HistoryInv, NEW s \in Active, LockOrder(s) \/ Cascade(s)
  PROVE  HistoryInv'
<1> DEFINE t == slot[s]
           o == Head(t.todo)
<1>1. /\ t \in Transaction /\ Fitting(t) /\ ~Changing(t)
      /\ UNCHANGED <<row, order, raced>> /\ Good(row, order, raced, t)
      /\ Recalculated(t) = {} /\ t.create = NULL
  BY DEF LockOrder, Cascade, TypeInv, TypeOK, Active, Maybe, Fitting, HistoryInv
<1>2. ASSUME NEW u, Goes(s, u), u.kind = t.kind, u.stored = t.stored,
             u.insert = t.insert, u.refers = t.refers, u.create = t.create,
             u.scope = t.scope, u.alone = t.alone,
             Range(u.todo) \cup u.gone \subseteq Range(t.todo) \cup t.gone
      PROVE  HistoryInv'
  <2>1. ~HasWritten(u) /\ ~ToWrite(u) /\ Touched(u) = Range(u.todo)
    BY <1>1, <1>2 DEF HasWritten, ToWrite, Changing, Touched, Recalculated
  <2>2. Good(row, order, raced, u)
    BY <1>1, <1>2, <2>1 DEF Good, Scoped, Touched
  <2> HIDE DEF t
  <2>3. t = slot[s]
    BY DEF t
  <2> QED
    BY <1>1, <1>2, <2>1, <2>2, <2>3, GoesHistory
<1>3. CASE LockOrder(s)
  <2> DEFINE u == [t EXCEPT !.written = TRUE]
  <2>1. Goes(s, u)
    BY <1>3 DEF LockOrder
  <2>2. /\ u.kind = t.kind /\ u.stored = t.stored /\ u.insert = t.insert
        /\ u.refers = t.refers /\ u.create = t.create
        /\ u.scope = t.scope /\ u.alone = t.alone
        /\ u.todo = t.todo /\ u.gone = t.gone
    BY <1>1 DEF Transaction
  <2> HIDE DEF u, t
  <2> QED
    BY <1>2, <2>1, <2>2
<1>4. CASE Cascade(s)
  <2> DEFINE u == [t EXCEPT !.gone = @ \cup {o}, !.todo = Tail(@),
                            !.written = FALSE]
  <2>1. t.written /\ Goes(s, u)
    BY <1>4 DEF Cascade
  <2>2. t.todo # <<>> /\ t.todo \in Seq(Orders)
    BY <1>1, <2>1 DEF Fitting, Transaction
  <2>3. /\ u.kind = t.kind /\ u.stored = t.stored /\ u.insert = t.insert
        /\ u.refers = t.refers /\ u.create = t.create
        /\ u.scope = t.scope /\ u.alone = t.alone
        /\ u.todo = Tail(t.todo) /\ u.gone = t.gone \cup {o}
    BY <1>1 DEF Transaction
  <2>4. o \in Range(t.todo) /\ Range(Tail(t.todo)) \subseteq Range(t.todo)
    <3> DEFINE todo == t.todo
    <3>1. todo \in Seq(Orders) /\ todo # <<>>
      BY <2>2
    <3> HIDE DEF todo
    <3>2. /\ 1 \in DOMAIN todo /\ Head(todo) = todo[1]
          /\ \A i \in DOMAIN Tail(todo) :
               i + 1 \in DOMAIN todo /\ Tail(todo)[i] = todo[i + 1]
      BY <3>1
    <3>3. Head(todo) \in Range(todo) /\ Range(Tail(todo)) \subseteq Range(todo)
      BY <3>2 DEF Range
    <3> QED
      BY <3>3 DEF todo
  <2>5. Range(u.todo) \cup u.gone \subseteq Range(t.todo) \cup t.gone
    BY <2>3, <2>4
  <2> HIDE DEF u, t, o
  <2> QED
    BY <1>2, <2>1, <2>3, <2>5
<1> QED
  BY <1>3, <1>4

\* A commit leaves the rows of orders it is not about alone.
LEMMA CommitElsewhere ==
  ASSUME TypeInv, HistoryInv, NEW s \in Active, Commit(s),
         NEW o \in Orders, o \notin slot[s].scope
  PROVE  /\ order'[o] = order[o]
         /\ \A r \in RowIds :
              \/ row'[r] = row[r]
              \/ /\ row[r] \in Unset \/ row[r].order # o
                 /\ row'[r] \in Unset \/ row'[r].order # o
<1> DEFINE t == slot[s]
<1>1. Good(row, order, raced, t)
  BY DEF HistoryInv
<1>2. /\ t.gone \subseteq t.scope /\ Recalculated(t) \subseteq t.scope
      /\ Touched(t) \subseteq t.scope
  BY <1>1 DEF Good, Scoped, Touched
<1>3. order'[o] = order[o]
  BY <1>2, CommitTables
<1>4. ASSUME NEW r \in RowIds
      PROVE  \/ row'[r] = row[r]
             \/ /\ row[r] \in Unset \/ row[r].order # o
                /\ row'[r] \in Unset \/ row'[r].order # o
  <2>1. CASE /\ row'[r] = DELETED /\ row[r] \notin Unset
             /\ row[r].order \in t.gone
    BY <1>2, <2>1 DEF Unset
  <2>2. CASE /\ t.rows[r] # NULL /\ row'[r] = t.rows[r] /\ HasWritten(t)
    <3>1. Settled(row, order, raced, t)
      BY <1>1, <2>2 DEF Good
    <3>2. row[r] \in Unset \/ row[r].order \in t.scope
      BY <2>2, <3>1 DEF Settled, Keys
    <3>3. row'[r] \in Unset \/ row'[r].order \in t.scope
      BY <1>2, <2>2, <3>1 DEF Settled, Saved
    <3> QED
      BY <3>2, <3>3
  <2>3. CASE row'[r] = row[r]
    BY <2>3
  <2> QED
    BY <2>1, <2>2, <2>3, CommitTables
<1> QED
  BY <1>3, <1>4

\* ... and the rows others have written, unless it deletes them.
LEMMA CommitLocked ==
  ASSUME TypeInv, HistoryInv, NEW s \in Active, Commit(s),
         NEW u \in Active \ {s}, HasWritten(slot[u]),
         NEW r \in Keys(slot[u])
  PROVE  \/ row'[r] = row[r]
         \/ row'[r] = DELETED /\ row[r] \notin Unset
<1> DEFINE t == slot[s]
<1>1. /\ Good(row, order, raced, t) /\ Good(row, order, raced, slot[u])
      /\ Apart(raced, t, slot[u])
  BY DEF HistoryInv
<1>2. ASSUME t.rows[r] # NULL, HasWritten(t) PROVE FALSE
  <2>1. /\ \A x \in Changed(t) : row[x] # NULL
        /\ \A x \in Changed(slot[u]) : row[x] # NULL
        /\ \A x \in t.insert : row[x] = NULL
        /\ \A x \in slot[u].insert : row[x] = NULL
        /\ t.insert \cap slot[u].insert = {}
        /\ Changed(t) \cap Changed(slot[u]) = {}
    BY <1>1, <1>2 DEF Good, Settled, Apart
  <2>2. r \in Changed(t) \cup t.insert /\ r \in Changed(slot[u]) \cup slot[u].insert
    BY <1>2 DEF Changed, Keys
  <2> QED
    BY <2>1, <2>2
<1>3. r \in RowIds
  BY DEF Keys
<1> QED
  BY <1>2, <1>3, CommitTables

LEMMA CommitKeepsGood ==
  ASSUME TypeInv, HistoryInv, NEW s \in Active, Commit(s),
         NEW u \in Active \ {s}
  PROVE  Good(row', order', raced', slot'[u])
<1> DEFINE t == slot[u]
<1>1. slot'[u] = t /\ raced' = raced /\ t \in Transaction
  BY DEF Commit, Goes, TypeInv, TypeOK, Active, Maybe
<1>2. /\ Good(row, order, raced, t) /\ Good(row, order, raced, slot[s])
      /\ Apart(raced, t, slot[s]) /\ Apart(raced, slot[s], t)
  BY DEF HistoryInv
<1>3. \A r \in t.insert : row'[r] = NULL
  <2> SUFFICES ASSUME NEW r \in t.insert PROVE row'[r] = NULL
    OBVIOUS
  <2>1. r \in RowIds /\ row[r] = NULL /\ r \notin slot[s].insert
    BY <1>1, <1>2 DEF Good, Apart, Transaction
  <2>2. ASSUME slot[s].rows[r] # NULL, HasWritten(slot[s]) PROVE FALSE
    <3>1. r \in Changed(slot[s])
      BY <2>1, <2>2 DEF Changed
    <3> QED
      BY <1>2, <2>1, <2>2, <3>1 DEF Good, Settled
  <2> QED
    BY <2>1, <2>2, CommitTables DEF Unset
<1>4. \A o \in Orders : order[o] # NULL => order'[o] # NULL
  BY CommitOrders
<1>5. ASSUME HasWritten(t) PROVE Settled(row', order', raced, t)
  <2>1. Settled(row, order, raced, t)
    BY <1>2, <1>5 DEF Good
  <2>2. \A r \in Keys(t) : \/ row'[r] = row[r]
                           \/ row'[r] = DELETED /\ row[r] \notin Unset
    BY <1>5, CommitLocked
  <2>3. Changed(t) \subseteq Keys(t)
    BY DEF Changed, Keys
  <2>4. \A r \in Changed(t) : row'[r] # NULL
    BY <2>1, <2>2, <2>3, OrderTotalsAssumption DEF Settled
  <2>5. Touched(t) \subseteq Orders
    BY <1>1 DEF Touched, Recalculated, Transaction, Range
  <2>6. \A r \in Saved(t) : /\ t.rows[r].order \in Touched(t)
                            /\ Known(order', t, t.rows[r].order)
    BY <1>4, <2>1, <2>5 DEF Settled, Known
  <2>7. \A r \in Keys(t) : row'[r] \notin Unset =>
          /\ row'[r].order \in t.scope
          /\ row'[r].order \in Touched(t) \cup raced
    BY <2>1, <2>2 DEF Settled, Unset
  <2> QED
    BY <2>4, <2>6, <2>7 DEF Settled
<1>6. ASSUME HasWritten(t) PROVE Right(row', order', raced, t)
  <2>1. Right(row, order, raced, t) /\ t.scope \subseteq Orders
    BY <1>1, <1>2, <1>6 DEF Good, Transaction
  <2>2. ASSUME NEW o \in t.scope, t.alone \/ o \notin raced
        PROVE  /\ Shown(row', order', t, o) = Shown(row, order, t, o)
               /\ Known(order, t, o) => Known(order', t, o)
    <3>1. o \notin slot[s].scope
      BY <1>2, <2>2 DEF Apart
    <3>2. /\ order'[o] = order[o]
          /\ \A r \in RowIds :
               \/ row'[r] = row[r]
               \/ /\ row[r] \in Unset \/ row[r].order # o
                  /\ row'[r] \in Unset \/ row'[r].order # o
      BY <2>1, <3>1, CommitElsewhere
    <3> DEFINE f == Seen(row', t)
               g == Seen(row, t)
    <3>3. \A r \in RowIds : \/ f[r] = g[r]
                            \/ /\ f[r] \in Unset \/ f[r].order # o
                               /\ g[r] \in Unset \/ g[r].order # o
      BY <3>2 DEF Seen
    <3> HIDE DEF f, g
    <3>4. RowsOf(f, o) = RowsOf(g, o)
      BY <3>3, SameRows
    <3>5. Made(order', t, o) = Made(order, t, o)
      BY <3>2 DEF Made
    <3>6. Known(order, t, o) => Known(order', t, o)
      BY <3>2 DEF Known
    <3> QED
      BY <3>4, <3>5, <3>6 DEF Shown, f, g
  <2> QED
    BY <2>1, <2>2 DEF Right
<1>7. Good(row', order', raced, t)
  BY <1>2, <1>3, <1>5, <1>6 DEF Good
<1> QED
  BY <1>1, <1>7

\* After a commit, the totals of each order that it recalculated are the sums
\* of its rows, unless a race kept the transaction from seeing them all.
LEMMA CommitRight ==
  ASSUME TypeInv, HistoryInv, NEW s \in Active, Commit(s),
         NEW o \in Recalculated(slot[s]), slot[s].alone \/ o \notin raced
  PROVE  /\ o \in Orders /\ order'[o] \in Order
         /\ order'[o].totals = TotalsOf(RowsOf(row', o), order'[o].quantity)
<1> DEFINE t == slot[s]
<1>1. /\ t \in Transaction /\ Fitting(t) /\ Good(row, order, raced, t)
      /\ o \in Orders /\ t.stored[o] # NULL
  BY DEF TypeInv, TypeOK, Active, Maybe, HistoryInv, Recalculated
<1>2. Changing(t) /\ HasWritten(t) /\ t.gone = {}
  BY <1>1, CommitTables DEF Fitting, ToWrite, HasWritten
<1>3. o \in t.scope
  BY <1>1 DEF Good, Scoped, Touched
<1>4. t.stored[o] = Shown(row, order, t, o)
  BY <1>1, <1>2, <1>3 DEF Good, Right
<1>5. order'[o] = [quantity |-> QuantityOf(t, o), totals |-> t.stored[o]]
  BY <1>1, <1>2, CommitTables
<1>6. Made(order, t, o) = order'[o].quantity /\ t.stored[o] = order'[o].totals
  BY <1>5 DEF Made, QuantityOf
<1> DEFINE seen == Seen(row, t)
           now == row'
<1>7. \A r \in RowIds : now[r] = seen[r]
  <2>1. \A r \in RowIds : row'[r] = IF t.rows[r] # NULL THEN t.rows[r] ELSE row[r]
    BY <1>2, CommitTables
  <2> QED
    BY <1>2, <2>1 DEF Seen, HasWritten
<1> HIDE DEF seen, now
<1>8. RowsOf(now, o) = RowsOf(seen, o)
  BY <1>7, SameRows
<1>9. order'[o] \in Order
  BY <1>1, CommitOrders
<1> QED
  BY <1>1, <1>4, <1>6, <1>8, <1>9 DEF Shown, seen, now

LEMMA CommitAgrees ==
  ASSUME TypeInv, HistoryInv, NEW s \in Active, Commit(s)
  PROVE  Agree(row', order', raced)
<1> DEFINE t == slot[s]
<1> SUFFICES ASSUME NEW o \in Orders, order'[o] \notin Unset, o \notin raced
             PROVE  order'[o].totals
                      = TotalsOf(RowsOf(row', o), order'[o].quantity)
  BY DEF Agree
<1>1. CASE o \in Recalculated(t)
  BY <1>1, CommitRight
<1>2. CASE o \notin Recalculated(t)
  <2>1. order'[o] = order[o] /\ o \notin t.gone
    BY <1>2, CommitTables DEF Unset
  <2>2. order[o].totals = TotalsOf(RowsOf(row, o), order[o].quantity)
    BY <2>1 DEF HistoryInv, Agree
  <2>3. Good(row, order, raced, t) /\ o \notin Touched(t)
    BY <1>2, CommitTables DEF HistoryInv, Touched, Range
  <2> DEFINE now == row'
  <2>4. ASSUME NEW r \in RowIds
        PROVE  \/ row[r] = now[r]
               \/ /\ row[r] \in Unset \/ row[r].order # o
                  /\ now[r] \in Unset \/ now[r].order # o
    <3>1. CASE /\ row'[r] = DELETED /\ row[r] \notin Unset
               /\ row[r].order \in t.gone
      BY <2>1, <3>1 DEF Unset
    <3>2. CASE /\ t.rows[r] # NULL /\ row'[r] = t.rows[r] /\ HasWritten(t)
      <4>1. Settled(row, order, raced, t)
        BY <2>3, <3>2 DEF Good
      <4>2. row[r] \in Unset \/ row[r].order # o
        BY <2>3, <3>2, <4>1 DEF Settled, Keys
      <4>3. row'[r] \in Unset \/ row'[r].order # o
        BY <2>3, <3>2, <4>1 DEF Settled, Saved
      <4> QED
        BY <4>2, <4>3
    <3>3. CASE row'[r] = row[r]
      BY <3>3
    <3> QED
      BY <3>1, <3>2, <3>3, CommitTables
  <2> HIDE DEF now
  <2>5. RowsOf(row, o) = RowsOf(now, o)
    BY <2>4, SameRows
  <2> QED
    BY <2>1, <2>2, <2>5 DEF now
<1> QED
  BY <1>1, <1>2

LEMMA CommitHistory ==
  ASSUME TypeInv, HistoryInv, NEW s \in Active, Commit(s)
  PROVE  HistoryInv'
<1> DEFINE t == slot[s]
<1>1. /\ \A u \in Slots : slot'[u] = IF u = s THEN NULL ELSE slot[u]
      /\ raced' = raced
  BY DEF Commit, Goes, TypeInv, TypeOK
<1>2. \A u \in Active' : u \in Active \ {s} /\ slot'[u] = slot[u]
  BY <1>1 DEF Active
<1>3. Agree(row', order', raced')
  BY <1>1, CommitAgrees
<1>4. ASSUME NEW r \in RowIds, row'[r] \notin Unset
      PROVE  order'[row'[r].order] # NULL
  <2>1. TypeOK /\ t \in Transaction /\ Fitting(t) /\ Good(row, order, raced, t)
    BY DEF TypeInv, TypeOK, Active, Maybe, HistoryInv
  <2>2. CASE /\ t.rows[r] # NULL /\ row'[r] = t.rows[r] /\ HasWritten(t)
    <3> DEFINE o == t.rows[r].order
    <3>1. o \in Touched(t) /\ Known(order, t, o)
      BY <1>4, <2>1, <2>2 DEF Good, Settled, Saved
    <3>2. o \in Recalculated(t)
      BY <3>1, CommitTables DEF Touched, Range
    <3>3. o \in Orders /\ order'[o] \in Order
      BY <3>2, CommitOrders DEF Recalculated
    <3> QED
      BY <2>2, <3>3, RowsAreRecords DEF Unset
  <2>3. CASE row'[r] = row[r]
    <3>1. row[r].order \in Orders /\ order[row[r].order] # NULL
      BY <1>4, <2>1, <2>3 DEF HistoryInv, Housed, TypeOK, Row
    <3> QED
      BY <2>3, <3>1, CommitOrders
  <2> QED
    BY <1>4, <2>2, <2>3, CommitTables DEF Unset
<1>5. \A u \in Active' : Good(row', order', raced', slot'[u])
  BY <1>2, CommitKeepsGood
<1>6. \A u, v \in Active' : u # v => Apart(raced', slot'[u], slot'[v])
  BY <1>1, <1>2 DEF HistoryInv
<1> QED
  BY <1>3, <1>4, <1>5, <1>6 DEF HistoryInv, Housed

LEMMA TotalOfNone ==
  ASSUME NEW amount, DOMAIN amount = {}
  PROVE  TotalOver(amount) = 0
BY SumOfNone DEF TotalOver

LEMMA NothingOwed ==
  ASSUME NEW rows, DOMAIN rows = {}, NEW quantity
  PROVE  TotalsOf(rows, quantity) = [subtotal |-> 0, labourCost |-> 0,
                                     grandTotal |-> 0]
<1>1. /\ \A table : OfTable(rows, table) = {}
      /\ PricedPaper(rows) = {} /\ PricedActivities(rows) = {}
  BY DEF OfTable, PricedPaper, PricedActivities
<1>2. MaterialsTotal(rows) = 0
  BY <1>1, TotalOfNone DEF MaterialsTotal
<1>3. ServicesTotal(rows, quantity) = 0
  BY <1>1, TotalOfNone DEF ServicesTotal
<1>4. DerivedPaperCost(rows, quantity) = 0
  BY <1>1, TotalOfNone DEF DerivedPaperCost
<1>5. TaskLabour(rows) = 0
  BY <1>1, TotalOfNone DEF TaskLabour
<1>6. FactoryLabour(rows) = 0
  BY <1>1, TotalOfNone DEF FactoryLabour
<1>7. Subtotal(rows, quantity) = 0 /\ LabourCost(rows) = 0
  BY <1>2, <1>3, <1>4, <1>5, <1>6 DEF Subtotal, LabourCost
<1> QED
  BY <1>7 DEF TotalsOf

\* A new order has no rows, and no transaction in flight has seen it.
LEMMA CreateHistory ==
  ASSUME TypeInv, HistoryInv, NEW o \in Orders, NEW q \in Quantities,
         CreateProductionOrder(o, q)
  PROVE  HistoryInv'
<1> DEFINE none == [subtotal |-> 0, labourCost |-> 0, grandTotal |-> 0]
           new == [quantity |-> q, totals |-> none]
<1>1. /\ UNCHANGED <<row, slot, raced>> /\ order[o] = NULL
      /\ order' = [order EXCEPT ![o] = new]
  BY DEF CreateProductionOrder, FreeOrders
<1>2. new \in Order /\ new.quantity = q /\ new.totals = none
  BY DEF Order, Totals
<1> HIDE DEF new, none
<1>3. \A p \in Orders : order'[p] = IF p = o THEN new ELSE order[p]
  BY <1>1 DEF TypeInv, TypeOK
<1>4. new # NULL
  BY <1>2, RowsAreRecords DEF Unset
<1>5. \A p \in Orders : order[p] # NULL => order'[p] = order[p]
  BY <1>1, <1>3
<1>6. Housed(row, order')
  <2>1. \A r \in RowIds : row[r] \notin Unset =>
          row[r].order \in Orders /\ order[row[r].order] # NULL
    BY DEF HistoryInv, Housed, TypeInv, TypeOK, Row
  <2> QED
    BY <1>5, <2>1 DEF Housed
<1>7. Agree(row, order', raced)
  <2> SUFFICES ASSUME NEW p \in Orders, order'[p] \notin Unset, p \notin raced
               PROVE  order'[p].totals
                        = TotalsOf(RowsOf(row, p), order'[p].quantity)
    BY DEF Agree
  <2>1. CASE p # o
    BY <1>3, <2>1 DEF HistoryInv, Agree
  <2>2. CASE p = o
    <3>1. KeysOf(row, o) = {}
      BY <1>1 DEF HistoryInv, Housed, KeysOf
    <3>2. DOMAIN RowsOf(row, o) = {}
      BY <3>1 DEF RowsOf
    <3>3. TotalsOf(RowsOf(row, o), q) = none
      BY <3>2, NothingOwed DEF none
    <3> QED
      BY <1>2, <1>3, <2>2, <3>3
  <2> QED
    BY <2>1, <2>2
<1>8. ASSUME NEW u \in Active
      PROVE  Good(row, order', raced, slot[u])
  <2> DEFINE t == slot[u]
  <2>1. /\ t \in Transaction /\ Good(row, order, raced, t)
        /\ Recalculated(t) \subseteq LiveOrders \cup {t.create}
    BY DEF TypeInv, TypeOK, Active, Maybe, HistoryInv
  <2>2. \A p \in Orders : Known(order, t, p) =>
          /\ Known(order', t, p)
          /\ Shown(row, order', t, p) = Shown(row, order, t, p)
    BY <1>5 DEF Known, Shown, Made
  <2>3. ASSUME HasWritten(t) PROVE Settled(row, order', raced, t)
    <3>1. Settled(row, order, raced, t) /\ Touched(t) \subseteq Orders
      BY <2>1, <2>3 DEF Good, Touched, Recalculated, Transaction, Range
    <3> QED
      BY <2>2, <3>1 DEF Settled
  <2>4. ASSUME HasWritten(t) PROVE Right(row, order', raced, t)
    <3>1. Right(row, order, raced, t) /\ t.scope \subseteq Orders
      BY <2>1, <2>4 DEF Good, Transaction
    <3>2. \A p \in Orders : t.stored[p] # NULL => Known(order, t, p)
      BY <2>1 DEF Recalculated, LiveOrders, Known, Unset
    <3> QED
      BY <2>2, <3>1, <3>2 DEF Right
  <2> QED
    BY <2>1, <2>3, <2>4 DEF Good
<1>9. ASSUME NEW u \in Active'
      PROVE  Good(row', order', raced', slot'[u])
  BY <1>1, <1>8 DEF Active
<1>10. \A u, v \in Active' : u # v => Apart(raced', slot'[u], slot'[v])
  BY <1>1 DEF HistoryInv, Active
<1> QED
  BY <1>1, <1>6, <1>7, <1>9, <1>10 DEF HistoryInv

LEMMA InitHistory == Init => HistoryInv
<1> SUFFICES ASSUME Init PROVE HistoryInv
  OBVIOUS
<1>1. /\ Active = {} /\ \A r \in RowIds : row[r] \in Unset
      /\ \A o \in Orders : order[o] \in Unset
  BY DEF Init, Active, Unset
<1> QED
  BY <1>1 DEF HistoryInv, Agree, Housed

LEMMA NextHistory == TypeInv /\ HistoryInv /\ [Next]_vars => HistoryInv'
<1> SUFFICES ASSUME TypeInv, HistoryInv, [Next]_vars PROVE HistoryInv'
  OBVIOUS
<1>1. CASE UNCHANGED vars
  BY <1>1 DEF vars, HistoryInv, Active
<1>2. ASSUME NEW s \in Active, Rollback(s) PROVE HistoryInv'
  BY <1>2, GoesHistory DEF Rollback
<1>3. ASSUME NEW s \in Slots, Request(s) PROVE HistoryInv'
  <2>1. PICK t : Started(t) /\ Begin(s, t)
    BY <1>3, RequestStarts DEF TypeInv
  <2> QED
    BY <2>1, BeginHistory
<1>4. ASSUME NEW s \in Slots, Proceed(s) PROVE HistoryInv'
  BY <1>2, <1>4, WriteHistory, SumHistory, StoreHistory, DropHistory,
     CommitHistory DEF Proceed, Refuse
<1> QED
  BY <1>1, <1>2, <1>3, <1>4, CreateHistory DEF Next, BreakDeadlock, Expire

\* The totals of an order are those of its rows after every commit, for every
\* order that no two transactions were about at the same time: whatever
\* changes a row recalculates the order the row leaves and the one it is in,
\* from rows that no one else changes before it commits.
THEOREM TotalsStayRight == Spec => []TotalsAgree
<1>1. HistoryInv => TotalsAgree
  BY DEF HistoryInv, Agree, TotalsAgree, LiveOrders
<1> QED
  BY <1>1, InitTypes, NextTypes, InitHistory, NextHistory, PTL DEF Spec

LEMMA OnlyCommitsEnd ==
  ASSUME TypeInv, Next, NEW s \in Slots, slot[s] # NULL, slot'[s] = NULL,
         <<row, order>>' # <<row, order>>
  PROVE  Commit(s)
<1>1. ASSUME NEW o \in Orders, NEW q \in Quantities, CreateProductionOrder(o, q)
      PROVE  FALSE
  BY <1>1 DEF CreateProductionOrder
<1>2. ASSUME NEW u \in Slots, Request(u) PROVE FALSE
  <2>1. PICK t : Started(t) /\ Begin(u, t)
    BY <1>2, RequestStarts DEF TypeInv
  <2> QED
    BY <2>1 DEF Begin
<1>3. ASSUME NEW u \in Slots, Proceed(u), u # s PROVE FALSE
  <2>1. CASE Commit(u)
    BY <1>3, <2>1 DEF Commit, Goes, TypeInv, TypeOK
  <2> QED
    BY <1>3, <2>1 DEF Proceed, Write, Sum, Store, LockOrder, Cascade, Refuse,
                     Rollback
<1>4. ASSUME Proceed(s) PROVE Commit(s)
  BY <1>4 DEF Proceed, Write, Sum, Store, LockOrder, Cascade, Refuse, Rollback
<1> QED
  BY <1>1, <1>2, <1>3, <1>4 DEF Next, BreakDeadlock, Expire, Rollback

\* A transaction that ran alone leaves the totals of every order that it
\* recalculated right, even of one a race had made wrong.
THEOREM LoneTransactionsRepair == Spec => LoneTransactionRepairs
<1>1. TypeInv /\ HistoryInv /\ [Next]_vars => [LoneRepairs]_vars
  <2> SUFFICES ASSUME TypeInv, HistoryInv, Next PROVE LoneRepairs
    OBVIOUS
  <2> SUFFICES ASSUME NEW s \in Slots, slot[s] # NULL, slot[s].alone,
                      slot'[s] = NULL, <<row, order>>' # <<row, order>>,
                      NEW o \in Recalculated(slot[s])
               PROVE  order'[o].totals
                        = TotalsOf(RowsOf(row', o), order'[o].quantity)
    BY DEF LoneRepairs
  <2>1. Commit(s) /\ s \in Active
    BY OnlyCommitsEnd DEF Active
  <2> QED
    BY <2>1, CommitRight
<1> QED
  BY <1>1, InitTypes, NextTypes, InitHistory, NextHistory, PTL
  DEF Spec, LoneTransactionRepairs

=============================================================================
