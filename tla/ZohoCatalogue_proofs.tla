------------------------ MODULE ZohoCatalogue_proofs ------------------------
(***************************************************************************)
(* Proofs about ZohoCatalogue, for any number of requests, items and rows: *)
(* the types; when a cached list is the list in Zoho; that an added        *)
(* material finds its item; when a service has one item; and what a sync   *)
(* that ran alone leaves.                                                  *)
(***************************************************************************)
EXTENDS ZohoCatalogue, FiniteSetTheorems, TLAPS

-----------------------------------------------------------------------------
(* What a request knows in each of its phases *)

LocalType == [Rows -> Row \cup {NULL, Gone}]

Shape(q, z, l) ==
  /\ q.kind = "create" /\ q.phase \in {"call", "clear", "store"}
       => q.data \in NewItems
  /\ q.kind = "update" /\ q.phase \in {"begun", "call", "clear", "store"}
       => q.target \in Rows /\ l[q.target] # NULL /\ q.data \in Changes
  /\ q.kind = "update" /\ q.phase = "call" => q.id \in Ids /\ z[q.id] # NULL
  /\ q.kind = "ensure" /\ q.phase = "find" => q.target \in Services
  /\ q.kind = "ensure" /\ q.phase = "call" => q.data \in Item
  /\ q.phase = "keep" => q.list \in List
  /\ q.phase = "copy" => q.list \in List /\ q.todo \subseteq Listed(q.list)
  /\ q.kind = "refresh" /\ q.phase = "begun" => q.target \in Ids
  /\ q.phase = "settle" => q.data \in Item
  /\ q.phase \in {"recheck", "insert", "refetch"} => q.data \in Row

Shaped == \A r \in Requests : request[r] # NULL => Shape(request[r], zoho, local)

IInv == TypeOK /\ Shaped

\* An item or a row that is there may go, and leaves its id behind.
Grown ==
  /\ \A i \in Ids : zoho[i] # NULL => zoho'[i] # NULL
  /\ \A w \in Rows : local[w] # NULL => local'[w] # NULL

\* The request r goes on, in a way that fits.
Steps(r) ==
  \E q \in Request : /\ request' = [request EXCEPT ![r] = q]
                     /\ Shape(q, zoho', local')
                     /\ request[r] # NULL => q.kind = request[r].kind

\* Only r goes on, and it is still what it is.
Goes(r) ==
  /\ \A s \in Requests \ {r} : request'[s] = request[s]
  /\ request'[r] # NULL
  /\ request[r] # NULL => request'[r].kind = request[r].kind

\* The rest stays well formed.
Rest ==
  /\ zoho' \in List /\ local' \in LocalType /\ used' \in SUBSET Rows
  /\ cached' \in [Caches -> Maybe(List)]
  /\ overlaps' \in SUBSET SUBSET Requests
  /\ contested' \in [Caches -> BOOLEAN]
  /\ Grown

LEMMA ShapeGrown ==
  ASSUME Grown, NEW q, Shape(q, zoho, local)
  PROVE  Shape(q, zoho', local')
BY DEF Shape, Grown

LEMMA Step ==
  ASSUME IInv, NEW r \in Requests, Steps(r), Rest
  PROVE  IInv' /\ Goes(r)
<1>1. PICK q \in Request : /\ request' = [request EXCEPT ![r] = q]
                           /\ Shape(q, zoho', local')
                           /\ request[r] # NULL => q.kind = request[r].kind
  BY DEF Steps
<1>2. request' \in [Requests -> Maybe(Request)]
  BY <1>1 DEF IInv, TypeOK, Maybe
<1>3. TypeOK'
  BY <1>2 DEF Rest, TypeOK, LocalType
<1>4. ASSUME NEW s \in Requests, request'[s] # NULL
      PROVE  Shape(request'[s], zoho', local')
  <2>1. CASE s = r
    BY <1>1, <2>1 DEF IInv, TypeOK
  <2>2. CASE s # r
    <3>1. request'[s] = request[s]
      BY <1>1, <2>2 DEF IInv, TypeOK
    <3>2. Shape(request[s], zoho, local) /\ Grown
      BY <1>4, <3>1 DEF IInv, Shaped, Rest
    <3> QED
      BY <3>1, <3>2, ShapeGrown
  <2> QED
    BY <2>1, <2>2
<1>5. Shaped'
  BY <1>4 DEF Shaped
<1>6. Goes(r)
  BY <1>1, CatalogueAssumption DEF Goes, IInv, TypeOK
<1> QED
  BY <1>3, <1>5, <1>6 DEF IInv

-----------------------------------------------------------------------------
(* To *)

Moved(q, phase) ==
  IF phase \in Ended THEN Over(q, phase) ELSE [q EXCEPT !.phase = phase]

LEMMA MovedType ==
  ASSUME NEW q \in Request, NEW phase \in Phases
  PROVE  /\ Moved(q, phase) \in Request
         /\ Moved(q, phase).kind = q.kind /\ Moved(q, phase).phase = phase
         /\ phase \notin Ended =>
              /\ Moved(q, phase).target = q.target
              /\ Moved(q, phase).data = q.data
              /\ Moved(q, phase).id = q.id /\ Moved(q, phase).todo = q.todo
              /\ Moved(q, phase).list = q.list
<1>1. CASE phase \in Ended
  <2> DEFINE kept == IF q.kind = "ensure" THEN q.target ELSE NULL
  <2>1. /\ q.kind \in AllKinds
        /\ kept \in Maybe(Rows \cup Ids \cup Skus \cup Services)
    BY DEF Request, Maybe
  <2>2. Moved(q, phase) =
          [kind |-> q.kind, phase |-> phase, target |-> kept, data |-> NULL,
           id |-> NULL, todo |-> {}, list |-> NULL]
    BY <1>1 DEF Moved, Over, Blank
  <2> HIDE DEF kept
  <2>3. Moved(q, phase) \in Request
    BY <2>1, <2>2 DEF Request, Maybe
  <2> QED
    BY <1>1, <2>2, <2>3
<1>2. CASE phase \notin Ended
  BY <1>2 DEF Moved, Request
<1> QED
  BY <1>1, <1>2

\* A request that is in a phase is a record.
LEMMA Known ==
  ASSUME IInv, NEW r \in Requests, request[r] # NULL
  PROVE  request[r] \in Request /\ Shape(request[r], zoho, local)
BY DEF IInv, TypeOK, Shaped, Maybe

LEMMA ToSteps ==
  ASSUME IInv, NEW r \in Requests, request[r] # NULL, NEW phase \in Phases,
         To(r, phase), Shape(Moved(request[r], phase), zoho', local')
  PROVE  Steps(r)
<1>1. Moved(request[r], phase) \in Request
  BY Known, MovedType
<1>2. request' = [request EXCEPT ![r] = Moved(request[r], phase)]
  BY DEF To, Moved, IInv, TypeOK
<1>3. Moved(request[r], phase).kind = request[r].kind
  BY Known, MovedType
<1> QED
  BY <1>1, <1>2, <1>3 DEF Steps

\* Nothing is known of a request that is over, or is about to be.
LEMMA ToEnd ==
  ASSUME IInv, NEW r \in Requests, request[r] # NULL,
         NEW phase \in Ended \cup {"finish", "attach"}, To(r, phase)
  PROVE  Steps(r)
<1>1. phase \in Phases
  BY DEF Phases, Ended
<1>2. Moved(request[r], phase).phase = phase
  BY <1>1, Known, MovedType
<1>3. Shape(Moved(request[r], phase), zoho', local')
  BY <1>2 DEF Shape, Ended
<1> QED
  BY <1>1, <1>3, ToSteps

\* A phase in which as much is known as in the one before.
LEMMA ToKnown ==
  ASSUME IInv, NEW r \in Requests, request[r] # NULL, NEW phase \in Phases,
         Grown, To(r, phase),
         LET q == [request[r] EXCEPT !.phase = phase]
         IN  Shape(q, zoho, local)
  PROVE  Steps(r)
<1> DEFINE q == [request[r] EXCEPT !.phase = phase]
<1>1. CASE phase \in Ended
  BY <1>1, ToEnd
<1>2. CASE phase \notin Ended
  <2>1. Moved(request[r], phase) = q
    BY <1>2 DEF Moved
  <2>2. Shape(q, zoho', local')
    BY ShapeGrown
  <2> QED
    BY <2>1, <2>2, ToSteps
<1> QED
  BY <1>1, <1>2

-----------------------------------------------------------------------------
(* Items and rows *)

LEMMA AmendedRow ==
  ASSUME NEW x \in Row, NEW change \in Change
  PROVE  Amended(x, change) \in Row
BY CatalogueAssumption DEF Amended, Set, Row, Change, Titles, Maybe

LEMMA AmendedItem ==
  ASSUME NEW x \in Item, NEW change \in Change
  PROVE  Amended(x, change) \in Item
BY CatalogueAssumption DEF Amended, Set, Item, Change, Titles, Maybe

LEMMA AsRowType ==
  ASSUME NEW i \in Ids, NEW item \in Item
  PROVE  AsRow(i, item) \in Row
BY CatalogueAssumption DEF AsRow, Item, Row, Maybe

\* What users create is an item as well as a row.
LEMMA NewItemType ==
  ASSUME NEW x \in NewItems
  PROVE  x \in Item /\ x \in Row
<1>1. x \in [sku : Skus, name : Names, stock : Stocks]
  BY CatalogueAssumption
<1> QED
  BY <1>1 DEF Item, Row, Titles, Maybe

LEMMA ServiceType ==
  ASSUME NEW v \in Services
  PROVE  [sku |-> v, name |-> v, stock |-> NULL] \in Item
BY DEF Item, Titles, Maybe

\* Writing one row, or one item.
LEMMA RowWritten ==
  ASSUME IInv, NEW w \in Rows, NEW x \in Row \cup {Gone},
         local' = [local EXCEPT ![w] = x]
  PROVE  /\ local' \in LocalType
         /\ \A v \in Rows : local[v] # NULL => local'[v] # NULL
BY CatalogueAssumption DEF IInv, TypeOK, LocalType

LEMMA ItemWritten ==
  ASSUME IInv, NEW i \in Ids, NEW x \in Item \cup {Gone},
         zoho' = [zoho EXCEPT ![i] = x]
  PROVE  /\ zoho' \in List
         /\ \A j \in Ids : zoho[j] # NULL => zoho'[j] # NULL
BY CatalogueAssumption DEF IInv, TypeOK, List

LEMMA UpsertRow ==
  ASSUME IInv, NEW row \in Row, Upsert(row) \/ Insert(row)
  PROVE  /\ local' \in LocalType
         /\ \A v \in Rows : local[v] # NULL => local'[v] # NULL
<1>1. PICK w \in Rows : local' = [local EXCEPT ![w] = row]
  BY DEF Upsert, Insert, HasSku, Present
<1> QED
  BY <1>1, RowWritten

\* An action that only writes the request and used leaves the rest well formed.
LEMMA Still ==
  ASSUME IInv, UNCHANGED <<zoho, local, cached, overlaps, contested>>,
         used' \in SUBSET Rows
  PROVE  Rest
BY DEF Rest, Grown, IInv, TypeOK, LocalType

LEMMA ClearRest ==
  ASSUME IInv, NEW r \in Requests, request[r] # NULL, Clear(r),
         UNCHANGED <<zoho, local, used, overlaps>>
  PROVE  Rest
<1>1. Own(r) \in Caches
  BY DEF Own, CacheOf, Caches
<1>2. cached' \in [Caches -> Maybe(List)]
  BY <1>1 DEF Clear, IInv, TypeOK, Maybe
<1>3. contested' \in [Caches -> BOOLEAN]
  BY <1>1 DEF Clear, IInv, TypeOK
<1> QED
  BY <1>2, <1>3 DEF Rest, Grown, IInv, TypeOK, LocalType

-----------------------------------------------------------------------------
(* Requests that begin *)

LEMMA BlankType ==
  ASSUME NEW kind \in AllKinds
  PROVE  Blank(kind) \in Request
BY DEF Blank, Request, Phases, Maybe

\* Only r goes on, and it does not read the list.
Turns(r) ==
  /\ \A s \in Requests \ {r} : request'[s] = request[s]
  /\ request'[r] # NULL => request'[r].phase # "keep"

LEMMA Turn ==
  ASSUME IInv, NEW r \in Requests, NEW q,
         request' = [request EXCEPT ![r] = q], q.phase # "keep"
  PROVE  Turns(r)
BY DEF IInv, TypeOK, Turns

\* A request goes on in a way that fits.
LEMMA Begun ==
  ASSUME IInv, NEW r \in Requests, NEW q \in Request, Shape(q, zoho, local),
         request' = [request EXCEPT ![r] = q], UNCHANGED <<zoho, local>>,
         request[r] # NULL => q.kind = request[r].kind
  PROVE  Steps(r) /\ (q.phase # "keep" => Turns(r)) /\ request'[r] = q
BY Turn DEF Steps, IInv, TypeOK

LEMMA AsksSteps ==
  ASSUME IInv, NEW r \in Requests, request[r] = NULL,
         NEW kind \in AllKinds, Asks(r, kind), UNCHANGED <<zoho, local>>
  PROVE  /\ Steps(r) /\ Turns(r)
         /\ request'[r].phase \in {"begun", "find", "call"}
<1> DEFINE b == Blank(kind)
<1>0. /\ b \in Request
      /\ b.kind = kind /\ b.phase = "begun"
  BY BlankType DEF Blank
<1>a. Present \subseteq Rows /\ Listed(zoho) \subseteq Ids
  BY DEF Present, Listed
<1> HIDE DEF b
<1>1. CASE kind = "create"
  <2>1. PICK x \in NewItems :
          request' = [request EXCEPT ![r] =
                        [b EXCEPT !.phase = "call", !.data = x]]
    BY <1>1 DEF Asks, b
  <2> DEFINE q == [b EXCEPT !.phase = "call", !.data = x]
  <2>2. x \in Maybe(Item \cup Row \cup Change) /\ "call" \in Phases
    BY NewItemType DEF Phases, Maybe
  <2>3. q \in Request
    BY <2>2, <1>0 DEF Request
  <2>4. q.kind = "create" /\ q.phase = "call" /\ q.data = x
    BY <1>1, <1>0 DEF Request
  <2>5. Shape(q, zoho, local)
    BY <2>4 DEF Shape
  <2> QED
    BY <2>1, <2>3, <2>4, <2>5, Begun
<1>2. CASE kind = "update"
  <2>1. PICK w \in Present, x \in Changes :
          request' = [request EXCEPT ![r] =
                        [b EXCEPT !.target = w, !.data = x]]
    BY <1>2 DEF Asks, b
  <2> DEFINE q == [b EXCEPT !.target = w, !.data = x]
  <2>2. x \in Change /\ w \in Rows /\ local[w] # NULL
    BY CatalogueAssumption DEF Present
  <2>3. q \in Request
    BY <2>2, <1>0 DEF Request, Maybe
  <2>4. q.kind = "update" /\ q.phase = "begun" /\ q.target = w /\ q.data = x
    BY <1>2, <1>0 DEF Request
  <2>5. Shape(q, zoho, local)
    BY <2>2, <2>4 DEF Shape
  <2> QED
    BY <2>1, <2>3, <2>4, <2>5, Begun
<1>3. CASE kind \in Deletes
  <2>1. PICK ids \in SUBSET (Present \cup Listed(zoho)) :
          request' = [request EXCEPT ![r] = [b EXCEPT !.todo = ids]]
    BY <1>3 DEF Asks, Deletes, b
  <2> DEFINE q == [b EXCEPT !.todo = ids]
  <2>2. ids \in SUBSET (Rows \cup Ids)
    BY <1>a
  <2>3. q \in Request
    BY <2>2, <1>0 DEF Request
  <2>4. q.kind = kind /\ q.phase = "begun"
    BY <1>0 DEF Request
  <2>5. Shape(q, zoho, local)
    BY <2>4, <1>3 DEF Shape, Deletes
  <2> QED
    BY <2>1, <2>3, <2>4, <2>5, Begun
<1>4. CASE kind = "ensure"
  <2>1. PICK v \in Services :
          request' = [request EXCEPT ![r] =
                        [b EXCEPT !.phase = "find", !.target = v]]
    BY <1>4 DEF Asks, b
  <2> DEFINE q == [b EXCEPT !.phase = "find", !.target = v]
  <2>2. q \in Request
    BY <1>0 DEF Request, Phases, Maybe
  <2>3. q.kind = "ensure" /\ q.phase = "find" /\ q.target = v
    BY <1>4, <1>0 DEF Request
  <2>4. Shape(q, zoho, local)
    BY <2>3 DEF Shape
  <2> QED
    BY <2>1, <2>2, <2>3, <2>4, Begun
<1>5. CASE kind = "material"
  <2>1. PICK x \in Present \cup Skus \cup Listed(zoho) :
          request' = [request EXCEPT ![r] = [b EXCEPT !.target = x]]
    BY <1>5 DEF Asks, b
  <2> DEFINE q == [b EXCEPT !.target = x]
  <2>2. q \in Request
    BY <1>a, <1>0 DEF Request, Maybe
  <2>3. q.kind = "material" /\ q.phase = "begun"
    BY <1>5, <1>0 DEF Request
  <2>4. Shape(q, zoho, local)
    BY <2>3 DEF Shape
  <2> QED
    BY <2>1, <2>2, <2>3, <2>4, Begun
<1>6. CASE kind = "refresh"
  <2>1. PICK i \in Listed(zoho) :
          request' = [request EXCEPT ![r] = [b EXCEPT !.target = i]]
    BY <1>6 DEF Asks, b
  <2> DEFINE q == [b EXCEPT !.target = i]
  <2>2. i \in Ids
    BY <1>a
  <2>3. q \in Request
    BY <2>2, <1>0 DEF Request, Maybe
  <2>4. q.kind = "refresh" /\ q.phase = "begun" /\ q.target = i
    BY <1>6, <1>0 DEF Request
  <2>5. Shape(q, zoho, local)
    BY <2>2, <2>4 DEF Shape
  <2> QED
    BY <2>1, <2>3, <2>4, <2>5, Begun
<1>7. CASE kind \in {"search", "gap", "sync"}
  <2>1. request' = [request EXCEPT ![r] = b]
    BY <1>7 DEF Asks, b
  <2>2. Shape(b, zoho, local)
    BY <1>7, <1>0 DEF Shape
  <2> QED
    BY <2>1, <2>2, <1>0, Begun
<1> QED
  BY <1>1, <1>2, <1>3, <1>4, <1>5, <1>6, <1>7
  DEF AllKinds, OfInventory, OfZoho, Deletes

LEMMA StartType ==
  ASSUME IInv, NEW r \in Requests, Start(r)
  PROVE  IInv' /\ Goes(r)
<1>1. PICK kind \in Kinds[r] : Asks(r, kind)
  BY DEF Start
<1>2. kind \in AllKinds
  BY CatalogueAssumption
<1>3. Steps(r)
  BY <1>1, <1>2, AsksSteps DEF Start
<1>4. overlaps' \in SUBSET SUBSET Requests
  BY DEF Start, IInv, TypeOK
<1>5. Rest
  BY <1>4 DEF Rest, Grown, Start, IInv, TypeOK, LocalType
<1> QED
  BY <1>3, <1>5, Step

-----------------------------------------------------------------------------
(* Requests that write to Zoho *)

\* A request in a phase is a record, of that phase.
LEMMA AtType ==
  ASSUME IInv, NEW r \in Requests, NEW kinds, NEW phase, At(r, kinds, phase)
  PROVE  /\ request[r] # NULL /\ request[r] \in Request
         /\ request[r].kind \in kinds /\ request[r].phase = phase
         /\ Shape(request[r], zoho, local)
BY Known DEF At

LEMMA BeginUpdateType ==
  ASSUME IInv, NEW r \in Requests, BeginUpdate(r)
  PROVE  IInv' /\ Goes(r)
<1> DEFINE this == request[r]
<1>1. /\ this # NULL /\ this \in Request
      /\ this.kind = "update" /\ this.phase = "begun"
      /\ this.target \in Rows /\ local[this.target] # NULL
      /\ this.data \in Changes
  BY AtType DEF BeginUpdate, Shape
<1>2. Rest
  BY Still DEF BeginUpdate, IInv, TypeOK
<1> SUFFICES Steps(r)
  BY <1>2, Step
<1>3. Grown
  BY <1>2 DEF Rest
<1>4. CASE To(r, "failed")
  BY <1>1, <1>4, ToEnd DEF Ended
<1>5. CASE To(r, "store")
  <2>1. "store" \in Phases
    BY DEF Phases
  <2> DEFINE q == [this EXCEPT !.phase = "store"]
  <2>2. /\ q.kind = "update" /\ q.phase = "store"
        /\ q.target = this.target /\ q.data = this.data
    BY <1>1 DEF Request
  <2>3. Shape(q, zoho, local)
    BY <1>1, <2>2 DEF Shape
  <2> QED
    BY <1>1, <1>3, <1>5, <2>1, <2>3, ToKnown
<1>6. ASSUME NEW i \in Finds(local[this.target].sku, local[this.target].name),
             request' = [request EXCEPT ![r].phase = "call", ![r].id = i]
      PROVE  Steps(r)
  <2>1. i \in Ids /\ zoho[i] # NULL
    BY CatalogueAssumption DEF Finds, WithSku, WithName, Listed
  <2> DEFINE q == [this EXCEPT !.phase = "call", !.id = i]
  <2>2. q \in Request
    BY <1>1, <2>1 DEF Request, Phases, Maybe
  <2>3. /\ q.kind = "update" /\ q.phase = "call" /\ q.id = i
        /\ q.target = this.target /\ q.data = this.data
    BY <1>1 DEF Request
  <2>4. Shape(q, zoho, local)
    BY <1>1, <2>1, <2>3 DEF Shape
  <2>5. request' = [request EXCEPT ![r] = q]
    BY <1>6
  <2> QED
    BY <1>1, <2>2, <2>3, <2>4, <2>5, Begun DEF BeginUpdate
<1> QED
  BY <1>4, <1>5, <1>6 DEF BeginUpdate

\* The next of the ids to delete, or the end of them.
LEMMA ProceedSteps ==
  ASSUME IInv, NEW r \in Requests, request[r] # NULL,
         request[r].kind \in Deletes, NEW x, Proceed(r, x)
  PROVE  Steps(r)
<1> DEFINE this == request[r]
<1>1. this \in Request
  BY Known
<1>2. CASE this.todo = {x}
  BY <1>2, ToEnd DEF Proceed
<1>3. CASE this.todo # {x}
  <2> DEFINE q == [this EXCEPT !.phase = "begun", !.todo = @ \ {x},
                               !.target = NULL, !.id = NULL]
  <2>1. request' = [request EXCEPT ![r] = q]
    BY <1>3 DEF Proceed
  <2>2. this.todo \ {x} \in SUBSET (Rows \cup Ids)
    BY <1>1 DEF Request
  <2>3. q \in Request
    BY <1>1, <2>2 DEF Request, Phases, Maybe
  <2>4. q.kind = this.kind /\ q.phase = "begun"
    BY <1>1 DEF Request
  <2>5. Shape(q, zoho', local')
    BY <2>4 DEF Shape, Deletes
  <2> QED
    BY <2>1, <2>3, <2>4, <2>5 DEF Steps
<1> QED
  BY <1>2, <1>3

LEMMA BeginDeleteType ==
  ASSUME IInv, NEW r \in Requests, BeginDelete(r)
  PROVE  IInv' /\ Goes(r)
<1> DEFINE this == request[r]
<1>1. /\ this # NULL /\ this \in Request
      /\ this.kind \in Deletes /\ this.phase = "begun"
  BY AtType DEF BeginDelete
<1>2. Rest
  BY Still DEF BeginDelete, IInv, TypeOK
<1> SUFFICES Steps(r)
  BY <1>2, Step
<1>3. ASSUME NEW x \in Rows \cup Ids, NEW phase \in {"store", "call"},
             NEW i \in Maybe(Ids),
             request' = [request EXCEPT ![r].phase = phase, ![r].target = x,
                                        ![r].id = i]
      PROVE  Steps(r)
  <2> DEFINE q == [this EXCEPT !.phase = phase, !.target = x, !.id = i]
  <2>1. q \in Request
    BY <1>1 DEF Request, Phases, Maybe
  <2>2. q.kind = this.kind /\ q.phase = phase
    BY <1>1 DEF Request
  <2>3. Shape(q, zoho, local)
    BY <1>1, <2>2 DEF Shape, Deletes
  <2>4. request' = [request EXCEPT ![r] = q]
    BY <1>3
  <2> QED
    BY <2>1, <2>2, <2>3, <2>4, Begun DEF BeginDelete
<1>4. PICK x \in this.todo :
       \/ /\ x \in Present
          /\ \/ request' = [request EXCEPT ![r].phase = "store",
                                           ![r].target = x]
             \/ \E i \in WithSku(local[x].sku) :
                  request' = [request EXCEPT ![r].phase = "call",
                                             ![r].target = x, ![r].id = i]
       \/ /\ x \in Ids
          /\ request' = [request EXCEPT ![r].phase = "call",
                                        ![r].target = x, ![r].id = x]
       \/ To(r, "failed") \/ Proceed(r, x)
  BY DEF BeginDelete
<1>5. CASE x \in Rows /\ request' = [request EXCEPT ![r].phase = "store",
                                                    ![r].target = x]
  <2> DEFINE q == [this EXCEPT !.phase = "store", !.target = x]
  <2>1. q \in Request
    BY <1>1, <1>5 DEF Request, Phases, Maybe
  <2>2. q.kind = this.kind /\ q.phase = "store"
    BY <1>1 DEF Request
  <2>3. Shape(q, zoho, local)
    BY <1>1, <2>2 DEF Shape, Deletes
  <2>4. request' = [request EXCEPT ![r] = q]
    BY <1>5
  <2> QED
    BY <2>1, <2>2, <2>3, <2>4, Begun DEF BeginDelete
<1>6. CASE /\ x \in Rows
           /\ \E i \in WithSku(local[x].sku) :
                request' = [request EXCEPT ![r].phase = "call",
                                           ![r].target = x, ![r].id = i]
  BY <1>3, <1>6 DEF WithSku, Listed, Maybe
<1>7. CASE x \in Ids /\ request' = [request EXCEPT ![r].phase = "call",
                                                   ![r].target = x, ![r].id = x]
  BY <1>3, <1>7 DEF Maybe
<1>8. CASE To(r, "failed")
  BY <1>1, <1>8, ToEnd DEF Ended
<1>9. CASE Proceed(r, x)
  BY <1>1, <1>9, ProceedSteps
<1> QED
  BY <1>4, <1>5, <1>6, <1>7, <1>8, <1>9 DEF Present

LEMMA FindServiceType ==
  ASSUME IInv, NEW r \in Requests, FindService(r)
  PROVE  IInv' /\ Goes(r)
<1> DEFINE this == request[r]
           v == this.target
           item == [sku |-> v, name |-> v, stock |-> NULL]
<1>1. /\ this # NULL /\ this \in Request
      /\ this.kind = "ensure" /\ this.phase = "find" /\ v \in Services
  BY AtType DEF FindService, Shape
<1>2. Rest
  BY Still DEF FindService, IInv, TypeOK
<1> SUFFICES Steps(r)
  BY <1>2, Step
<1>3. CASE To(r, "done") \/ To(r, "failed")
  BY <1>1, <1>3, ToEnd DEF Ended
<1>4. CASE request' = [request EXCEPT ![r].phase = "call", ![r].data = item]
  <2> DEFINE q == [this EXCEPT !.phase = "call", !.data = item]
  <2>1. item \in Item
    BY <1>1, ServiceType
  <2> HIDE DEF item
  <2>2. q \in Request
    BY <1>1, <2>1 DEF Request, Phases, Maybe
  <2>3. q.kind = "ensure" /\ q.phase = "call" /\ q.data = item
    BY <1>1 DEF Request
  <2>4. Shape(q, zoho, local)
    BY <2>1, <2>3 DEF Shape
  <2>5. request' = [request EXCEPT ![r] = q]
    BY <1>4
  <2> QED
    BY <1>1, <2>2, <2>3, <2>4, <2>5, Begun DEF FindService
<1> QED
  BY <1>3, <1>4 DEF FindService

\* What a call does to the list.
LEMMA ApplyType ==
  ASSUME IInv, NEW r \in Requests, At(r, Writers, "call"), Apply(r)
  PROVE  /\ zoho' \in List
         /\ \A i \in Ids : zoho[i] # NULL => zoho'[i] # NULL
<1> DEFINE this == request[r]
<1>1. /\ this \in Request /\ this.phase = "call"
      /\ Shape(this, zoho, local)
  BY AtType
<1>2. CASE this.kind \in {"create", "ensure"}
  <2>1. PICK i \in Ids : zoho' = [zoho EXCEPT ![i] = this.data]
    BY <1>2 DEF Apply, Deletes
  <2>2. this.data \in Item
    BY <1>1, <1>2, NewItemType DEF Shape
  <2> QED
    BY <2>1, <2>2, ItemWritten
<1>3. CASE this.kind = "update"
  <2>1. /\ zoho[this.id] # Gone
        /\ zoho' = [zoho EXCEPT ![this.id] = Amended(zoho[this.id], this.data)]
    BY <1>3 DEF Apply, Deletes
  <2>2. /\ this.id \in Ids /\ zoho[this.id] # NULL
        /\ this.data \in Change
    BY <1>1, <1>3, CatalogueAssumption DEF Shape
  <2>3. zoho[this.id] \in Item
    BY <2>1, <2>2 DEF IInv, TypeOK, List
  <2>4. Amended(zoho[this.id], this.data) \in Item
    BY <2>2, <2>3, AmendedItem
  <2> QED
    BY <2>1, <2>2, <2>4, ItemWritten
<1>4. CASE this.kind \in Deletes
  <2>1. zoho' = [zoho EXCEPT ![this.id] = Gone]
    BY <1>4 DEF Apply, Deletes
  <2>2. CASE this.id \in Ids
    BY <2>1, <2>2, ItemWritten
  <2>3. CASE this.id \notin Ids
    BY <2>1, <2>3 DEF IInv, TypeOK, List
  <2> QED
    BY <2>2, <2>3
<1> QED
  BY <1>2, <1>3, <1>4 DEF Apply

\* What is known of a writer when it has called Zoho it knew before.
LEMMA ShapeCalled ==
  ASSUME NEW q \in Request, q.phase = "call", q.kind \in Writers,
         NEW phase \in {"clear", "store"}, phase = "store" => q.kind # "ensure",
         Shape(q, zoho, local)
  PROVE  Shape([q EXCEPT !.phase = phase], zoho, local)
<1> DEFINE n == [q EXCEPT !.phase = phase]
<1>1. /\ n.kind = q.kind /\ n.phase = phase /\ n.target = q.target
      /\ n.data = q.data
  BY DEF Request
<1> QED
  BY <1>1 DEF Shape

LEMMA CallZohoType ==
  ASSUME IInv, NEW r \in Requests, CallZoho(r)
  PROVE  IInv' /\ Goes(r)
<1> DEFINE this == request[r]
<1>1. /\ At(r, Writers, "call")
      /\ this # NULL /\ this \in Request
      /\ this.kind \in Writers /\ this.phase = "call"
      /\ Shape(this, zoho, local)
  BY AtType DEF CallZoho
<1>2. /\ zoho' \in List
      /\ \A i \in Ids : zoho[i] # NULL => zoho'[i] # NULL
  <2>1. CASE Apply(r)
    BY <1>1, <2>1, ApplyType
  <2>2. CASE UNCHANGED zoho
    BY <2>2 DEF IInv, TypeOK
  <2> QED
    BY <2>1, <2>2 DEF CallZoho
<1>3. contested' \in [Caches -> BOOLEAN]
  <2>1. \A c : Outdated(c) \in [Caches -> BOOLEAN]
    BY DEF Outdated, Reading, IInv, TypeOK
  <2> QED
    BY <2>1 DEF CallZoho, IInv, TypeOK
<1>4. Rest
  BY <1>2, <1>3 DEF Rest, Grown, CallZoho, IInv, TypeOK, LocalType
<1>5. Grown
  BY <1>4 DEF Rest
<1> SUFFICES Steps(r)
  BY <1>4, Step
<1>6. CASE To(r, "clear")
  <2>1. Shape([this EXCEPT !.phase = "clear"], zoho, local)
    BY <1>1, ShapeCalled
  <2>2. "clear" \in Phases
    BY DEF Phases
  <2> QED
    BY <1>1, <1>5, <1>6, <2>1, <2>2, ToKnown
<1>7. CASE To(r, AfterFailure(r)) /\ AfterFailure(r) = "failed"
  BY <1>1, <1>7, ToEnd DEF Ended
<1>8. CASE To(r, AfterFailure(r)) /\ AfterFailure(r) = "store"
  <2>1. CASE this.kind = "ensure"
    <3>1. this.target \in Rows
      BY <1>8, <2>1 DEF AfterFailure
    <3>2. [this EXCEPT !.phase = "store"].kind = "ensure"
          /\ [this EXCEPT !.phase = "store"].phase = "store"
      BY <1>1, <2>1 DEF Request
    <3>3. Shape([this EXCEPT !.phase = "store"], zoho, local)
      BY <3>2 DEF Shape
    <3> QED
      BY <1>1, <1>5, <1>8, <3>3, ToKnown DEF Phases
  <2>2. CASE this.kind # "ensure"
    <3>1. Shape([this EXCEPT !.phase = "store"], zoho, local)
      BY <1>1, <2>2, ShapeCalled
    <3> QED
      BY <1>1, <1>5, <1>8, <3>1, ToKnown DEF Phases
  <2> QED
    BY <2>1, <2>2
<1>9. AfterFailure(r) \in {"store", "failed"}
  BY DEF AfterFailure
<1> QED
  BY <1>6, <1>7, <1>8, <1>9 DEF CallZoho

LEMMA ClearCacheType ==
  ASSUME IInv, NEW r \in Requests, ClearCache(r)
  PROVE  IInv' /\ Goes(r)
<1> DEFINE this == request[r]
<1>1. /\ this # NULL /\ this \in Request
      /\ this.kind \in Writers /\ this.phase = "clear"
      /\ Shape(this, zoho, local)
  BY AtType DEF ClearCache
<1>2. Rest
  BY <1>1, ClearRest DEF ClearCache
<1>3. Grown
  BY <1>2 DEF Rest
<1> SUFFICES Steps(r)
  BY <1>2, Step
<1>4. CASE this.kind = "ensure"
  BY <1>1, <1>4, ToEnd DEF ClearCache, Ended
<1>5. CASE this.kind # "ensure"
  <2> DEFINE q == [this EXCEPT !.phase = "store"]
  <2>1. /\ q.kind = this.kind /\ q.phase = "store" /\ q.target = this.target
        /\ q.data = this.data
    BY <1>1 DEF Request
  <2>2. Shape(q, zoho, local)
    BY <1>1, <1>5, <2>1 DEF Shape
  <2>3. To(r, "store")
    BY <1>5 DEF ClearCache
  <2>4. "store" \in Phases
    BY DEF Phases
  <2> QED
    BY <1>1, <1>3, <2>2, <2>3, <2>4, ToKnown
<1> QED
  BY <1>4, <1>5

-----------------------------------------------------------------------------
(* Requests that write the rows *)

\* An action that writes the rows well leaves the rest well formed.
LEMMA RowsRest ==
  ASSUME IInv, UNCHANGED <<zoho, used, cached, overlaps, contested>>,
         local' \in LocalType,
         \A w \in Rows : local[w] # NULL => local'[w] # NULL
  PROVE  Rest
BY DEF Rest, Grown, IInv, TypeOK

LEMMA SameRows ==
  ASSUME IInv, UNCHANGED local
  PROVE  /\ local' \in LocalType
         /\ \A w \in Rows : local[w] # NULL => local'[w] # NULL
BY DEF IInv, TypeOK, LocalType

LEMMA StoreCreatedType ==
  ASSUME IInv, NEW r \in Requests, StoreCreated(r)
  PROVE  IInv' /\ Goes(r)
<1> DEFINE this == request[r]
<1>1. this # NULL /\ this.data \in NewItems
  BY AtType DEF StoreCreated, Shape
<1>2. /\ local' \in LocalType
      /\ \A w \in Rows : local[w] # NULL => local'[w] # NULL
  <2>1. CASE Insert(this.data)
    BY <1>1, <2>1, NewItemType, UpsertRow
  <2>2. CASE UNCHANGED local
    BY <2>2, SameRows
  <2> QED
    BY <2>1, <2>2 DEF StoreCreated
<1>3. Rest
  BY <1>2, RowsRest DEF StoreCreated
<1>4. Steps(r)
  BY <1>1, ToEnd DEF StoreCreated, Ended
<1> QED
  BY <1>3, <1>4, Step

LEMMA StoreUpdatedType ==
  ASSUME IInv, NEW r \in Requests, StoreUpdated(r)
  PROVE  IInv' /\ Goes(r)
<1> DEFINE this == request[r]
           w == this.target
           new == Amended(local[w], this.data)
<1>1. /\ this # NULL /\ w \in Rows /\ local[w] # NULL /\ this.data \in Change
  BY AtType, CatalogueAssumption DEF StoreUpdated, Shape
<1>2. /\ local' \in LocalType
      /\ \A v \in Rows : local[v] # NULL => local'[v] # NULL
  <2>1. CASE local[w] # Gone /\ local' = [local EXCEPT ![w] = new]
    <3>1. local[w] \in Row
      BY <1>1, <2>1 DEF IInv, TypeOK
    <3>2. new \in Row
      BY <1>1, <3>1, AmendedRow
    <3> QED
      BY <1>1, <2>1, <3>2, RowWritten
  <2>2. CASE UNCHANGED local
    BY <2>2, SameRows
  <2> QED
    BY <2>1, <2>2 DEF StoreUpdated
<1>3. Rest
  BY <1>2, RowsRest DEF StoreUpdated
<1>4. Steps(r)
  BY <1>1, ToEnd DEF StoreUpdated, Ended
<1> QED
  BY <1>3, <1>4, Step

LEMMA StoreDeletedType ==
  ASSUME IInv, NEW r \in Requests, StoreDeleted(r)
  PROVE  IInv' /\ Goes(r)
<1> DEFINE this == request[r]
           x == this.target
<1>1. this # NULL /\ this.kind \in Deletes
  BY AtType DEF StoreDeleted
<1>2. /\ local' \in LocalType
      /\ \A w \in Rows : local[w] # NULL => local'[w] # NULL
  <2>1. CASE local' = [w \in Rows |-> IF w = x THEN Gone ELSE local[w]]
    BY <2>1, CatalogueAssumption DEF IInv, TypeOK, LocalType
  <2>2. CASE UNCHANGED local
    BY <2>2, SameRows
  <2> QED
    BY <2>1, <2>2 DEF StoreDeleted
<1>3. Rest
  BY <1>2, RowsRest DEF StoreDeleted
<1>4. CASE To(r, "failed")
  BY <1>1, <1>3, <1>4, ToEnd, Step DEF Ended
<1>5. CASE Proceed(r, x)
  BY <1>1, <1>3, <1>5, ProceedSteps, Step
<1> QED
  BY <1>4, <1>5 DEF StoreDeleted

LEMMA FinishType ==
  ASSUME IInv, NEW r \in Requests, Finish(r)
  PROVE  IInv' /\ Goes(r)
<1>1. request[r] # NULL
  BY DEF Finish, At
<1>2. Rest
  BY <1>1, ClearRest DEF Finish
<1>3. Steps(r)
  BY <1>1, ToEnd DEF Finish, Ended
<1> QED
  BY <1>2, <1>3, Step

-----------------------------------------------------------------------------
(* Requests that read the list *)

LEMMA OwnType ==
  ASSUME NEW r
  PROVE  Own(r) \in Caches
BY DEF Own, CacheOf, Caches

\* A request that has a list goes on to copy it.
LEMMA ToCopy ==
  ASSUME IInv, NEW r \in Requests, request[r] # NULL, Grown,
         NEW list \in List, NEW todo, todo \subseteq Listed(list),
         request' = [request EXCEPT ![r] =
           [request[r] EXCEPT !.phase = "copy", !.list = list, !.todo = todo]]
  PROVE  Steps(r)
<1> DEFINE q == [request[r] EXCEPT !.phase = "copy", !.list = list,
                                   !.todo = todo]
<1>1. request[r] \in Request
  BY Known
<1>2. todo \in SUBSET (Rows \cup Ids)
  BY DEF Listed
<1>3. q \in Request
  BY <1>1, <1>2 DEF Request, Phases, Maybe
<1>4. /\ q.kind = request[r].kind /\ q.phase = "copy"
      /\ q.list = list /\ q.todo = todo
  BY <1>1 DEF Request
<1>5. Shape(q, zoho', local')
  BY <1>4 DEF Shape
<1> QED
  BY <1>3, <1>4, <1>5 DEF Steps

LEMMA LoadType ==
  ASSUME IInv, NEW r \in Requests, Load(r)
  PROVE  IInv' /\ Goes(r)
<1> DEFINE this == request[r]
           list == cached[Own(r)]
<1>1. this # NULL /\ this \in Request
  BY AtType DEF Load
<1>2. Rest
  BY Still DEF Load, IInv, TypeOK
<1>3. Grown
  BY <1>2 DEF Rest
<1> SUFFICES Steps(r)
  BY <1>2, Step
<1>4. CASE \E phase \in Ended : To(r, phase)
  BY <1>1, <1>4, ToEnd
<1>5. CASE /\ list # NULL
           /\ request' = [request EXCEPT ![r].phase = "copy",
                            ![r].list = list, ![r].todo = Listed(list)]
  <2>1. list \in List
    BY <1>5, OwnType DEF IInv, TypeOK, Maybe
  <2>2. request' = [request EXCEPT ![r] =
          [this EXCEPT !.phase = "copy", !.list = list, !.todo = Listed(list)]]
    BY <1>5
  <2> HIDE DEF list
  <2> QED
    BY <1>1, <1>3, <2>1, <2>2, ToCopy
<1>6. CASE request' = [request EXCEPT ![r].phase = "keep", ![r].list = zoho]
  <2> DEFINE q == [this EXCEPT !.phase = "keep", !.list = zoho]
  <2>1. zoho \in List
    BY DEF IInv, TypeOK
  <2>2. q \in Request
    BY <1>1, <2>1 DEF Request, Phases, Maybe
  <2>3. q.kind = this.kind /\ q.phase = "keep" /\ q.list = zoho
    BY <1>1 DEF Request
  <2>4. Shape(q, zoho, local)
    BY <2>1, <2>3 DEF Shape
  <2>5. request' = [request EXCEPT ![r] = q]
    BY <1>6
  <2> QED
    BY <2>2, <2>3, <2>4, <2>5, Begun DEF Load
<1> QED
  BY <1>4, <1>5, <1>6 DEF Load, Ended

LEMMA KeepType ==
  ASSUME IInv, NEW r \in Requests, Keep(r)
  PROVE  IInv' /\ Goes(r)
<1> DEFINE this == request[r]
<1>1. /\ this # NULL /\ this \in Request /\ this.list \in List
  BY AtType DEF Keep, Shape
<1>2. cached' \in [Caches -> Maybe(List)]
  BY <1>1, OwnType DEF Keep, IInv, TypeOK, Maybe
<1>3. Rest
  BY <1>2 DEF Rest, Grown, Keep, IInv, TypeOK, LocalType
<1>4. Grown
  BY <1>3 DEF Rest
<1> SUFFICES Steps(r)
  BY <1>3, Step
<1>5. CASE To(r, "done")
  BY <1>1, <1>5, ToEnd DEF Ended
<1>6. CASE request' = [request EXCEPT ![r].phase = "copy",
                                      ![r].todo = Listed(this.list)]
  <2>1. [this EXCEPT !.phase = "copy", !.todo = Listed(this.list)] =
        [this EXCEPT !.phase = "copy", !.list = this.list,
                     !.todo = Listed(this.list)]
    BY <1>1 DEF Request
  <2>2. request' = [request EXCEPT ![r] =
          [this EXCEPT !.phase = "copy", !.list = this.list,
                       !.todo = Listed(this.list)]]
    BY <1>6, <2>1
  <2> QED
    BY <1>1, <1>4, <2>2, ToCopy
<1> QED
  BY <1>5, <1>6 DEF Keep

LEMMA CopyType ==
  ASSUME IInv, NEW r \in Requests, Copy(r)
  PROVE  IInv' /\ Goes(r)
<1> DEFINE this == request[r]
<1>1. /\ this # NULL /\ this \in Request /\ this.phase = "copy"
      /\ this.list \in List /\ this.todo \subseteq Listed(this.list)
  BY AtType DEF Copy, Shape
<1>2. PICK i \in this.todo :
        /\ Upsert(AsRow(i, this.list[i]))
        /\ request' = [request EXCEPT ![r].todo = @ \ {i}]
  BY DEF Copy
<1>3. i \in Ids /\ this.list[i] \in Item
  BY <1>1 DEF Listed
<1>4. AsRow(i, this.list[i]) \in Row
  BY <1>3, AsRowType
<1>5. Rest
  BY <1>2, <1>4, UpsertRow, RowsRest DEF Copy
<1>6. Grown
  BY <1>5 DEF Rest
<1>7. [this EXCEPT !.todo = @ \ {i}] =
      [this EXCEPT !.phase = "copy", !.list = this.list,
                   !.todo = this.todo \ {i}]
  BY <1>1 DEF Request
<1>8. request' = [request EXCEPT ![r] =
        [this EXCEPT !.phase = "copy", !.list = this.list,
                     !.todo = this.todo \ {i}]]
  BY <1>2, <1>7
<1>9. this.todo \ {i} \subseteq Listed(this.list)
  BY <1>1
<1>10. Steps(r)
  <2> DEFINE rest == this.todo \ {i}
  <2> HIDE DEF rest
  <2>1. rest \subseteq Listed(this.list)
    BY <1>9 DEF rest
  <2>2. request' = [request EXCEPT ![r] =
          [this EXCEPT !.phase = "copy", !.list = this.list, !.todo = rest]]
    BY <1>8 DEF rest
  <2> QED
    BY <1>1, <1>6, <2>1, <2>2, ToCopy
<1> QED
  BY <1>5, <1>10, Step

LEMMA ReadItemType ==
  ASSUME IInv, NEW r \in Requests, ReadItem(r)
  PROVE  IInv' /\ Goes(r)
<1> DEFINE this == request[r]
<1>1. this # NULL /\ this \in Request
  BY AtType DEF ReadItem
<1>2. Rest
  BY Still DEF ReadItem, IInv, TypeOK
<1> SUFFICES Steps(r)
  BY <1>2, Step
<1>3. CASE To(r, "failed")
  BY <1>1, <1>3, ToEnd DEF Ended
<1>4. CASE /\ this.target \in Listed(zoho)
           /\ request' = [request EXCEPT ![r].phase = "settle",
                                         ![r].data = zoho[this.target]]
  <2> DEFINE q == [this EXCEPT !.phase = "settle", !.data = zoho[this.target]]
  <2>1. zoho[this.target] \in Item
    BY <1>4 DEF Listed
  <2>2. q \in Request
    BY <1>1, <2>1 DEF Request, Phases, Maybe
  <2>3. /\ q.kind = this.kind /\ q.phase = "settle"
        /\ q.data = zoho[this.target]
    BY <1>1 DEF Request
  <2>4. Shape(q, zoho, local)
    BY <2>1, <2>3 DEF Shape
  <2>5. request' = [request EXCEPT ![r] = q]
    BY <1>4
  <2> QED
    BY <2>2, <2>3, <2>4, <2>5, Begun DEF ReadItem
<1> QED
  BY <1>3, <1>4 DEF ReadItem

LEMMA SettleItemType ==
  ASSUME IInv, NEW r \in Requests, SettleItem(r)
  PROVE  IInv' /\ Goes(r)
<1> DEFINE item == request[r].data
<1>1. request[r] # NULL /\ item \in Item
  BY AtType DEF SettleItem, Shape
<1>2. /\ local' \in LocalType
      /\ \A w \in Rows : local[w] # NULL => local'[w] # NULL
  <2>1. CASE UNCHANGED local
    BY <2>1, SameRows
  <2>2. ASSUME NEW w \in Present, item.stock # NULL,
               local' = [local EXCEPT ![w].stock = item.stock]
        PROVE  /\ local' \in LocalType
               /\ \A v \in Rows : local[v] # NULL => local'[v] # NULL
    <3>1. w \in Rows /\ local[w] \in Row
      BY DEF Present
    <3>2. [local[w] EXCEPT !.stock = item.stock] \in Row
      BY <1>1, <2>2, <3>1 DEF Row, Item, Maybe
    <3>3. local' = [local EXCEPT ![w] = [local[w] EXCEPT !.stock = item.stock]]
      BY <2>2
    <3> QED
      BY <3>1, <3>2, <3>3, RowWritten
  <2> QED
    BY <2>1, <2>2 DEF SettleItem, HasSku
<1>3. Rest
  BY <1>2, RowsRest DEF SettleItem
<1>4. Steps(r)
  BY <1>1, ToEnd DEF SettleItem, Ended
<1> QED
  BY <1>3, <1>4, Step

-----------------------------------------------------------------------------
(* Requests that use a row *)

LEMMA AttachingSteps ==
  ASSUME IInv, NEW r \in Requests, request[r] # NULL, NEW w \in Rows,
         request' = Attaching(r, w)
  PROVE  Steps(r)
<1> DEFINE q == [request[r] EXCEPT !.phase = "attach", !.target = w]
<1>1. request[r] \in Request
  BY Known
<1>2. q \in Request
  BY <1>1 DEF Request, Phases, Maybe
<1>3. q.kind = request[r].kind /\ q.phase = "attach"
  BY <1>1 DEF Request
<1>4. Shape(q, zoho', local')
  BY <1>3 DEF Shape
<1>5. request' = [request EXCEPT ![r] = q]
  BY DEF Attaching
<1> QED
  BY <1>2, <1>3, <1>4, <1>5 DEF Steps

\* What is looked for stays as it is.
LEMMA ToSearch ==
  ASSUME IInv, NEW r \in Requests, request[r] # NULL, Grown,
         request[r].data \in Row, NEW phase \in {"insert", "refetch"},
         To(r, phase)
  PROVE  Steps(r)
<1> DEFINE q == [request[r] EXCEPT !.phase = phase]
<1>1. phase \in Phases
  BY DEF Phases
<1>2. q.phase = phase /\ q.data = request[r].data
  BY Known DEF Request
<1>3. Shape(q, zoho, local)
  BY <1>2 DEF Shape
<1> QED
  BY <1>1, <1>3, ToKnown

LEMMA LookUpType ==
  ASSUME IInv, NEW r \in Requests, LookUp(r)
  PROVE  IInv' /\ Goes(r)
<1> DEFINE this == request[r]
           x == this.target
           found == AsRow(x, zoho[x])
<1>1. this # NULL /\ this \in Request
  BY AtType DEF LookUp
<1>2. Rest
  BY Still DEF LookUp, IInv, TypeOK
<1> SUFFICES Steps(r)
  BY <1>2, Step
<1>3. CASE \E w \in Rows : request' = Attaching(r, w)
  BY <1>1, <1>3, AttachingSteps
<1>4. CASE To(r, "unknown")
  BY <1>1, <1>4, ToEnd DEF Ended
<1>5. CASE /\ x \in Listed(zoho)
           /\ request' = [request EXCEPT ![r].phase = "recheck",
                                         ![r].data = found]
  <2> DEFINE q == [this EXCEPT !.phase = "recheck", !.data = found]
  <2>1. found \in Row
    BY <1>5, AsRowType DEF Listed
  <2> HIDE DEF found
  <2>2. q \in Request
    BY <1>1, <2>1 DEF Request, Phases, Maybe
  <2>3. q.kind = this.kind /\ q.phase = "recheck" /\ q.data = found
    BY <1>1 DEF Request
  <2>4. Shape(q, zoho, local)
    BY <2>1, <2>3 DEF Shape
  <2>5. request' = [request EXCEPT ![r] = q]
    BY <1>5
  <2> QED
    BY <2>2, <2>3, <2>4, <2>5, Begun DEF LookUp
<1> QED
  BY <1>3, <1>4, <1>5 DEF LookUp, HasSku, Present

LEMMA RecheckType ==
  ASSUME IInv, NEW r \in Requests, Recheck(r)
  PROVE  IInv' /\ Goes(r)
<1>1. request[r] # NULL /\ request[r].data \in Row
  BY AtType DEF Recheck, Shape
<1>2. Rest
  BY Still DEF Recheck, IInv, TypeOK
<1>3. Grown
  BY <1>2 DEF Rest
<1>4. CASE \E w \in Rows : request' = Attaching(r, w)
  BY <1>1, <1>2, <1>4, AttachingSteps, Step
<1>5. CASE To(r, "insert")
  BY <1>1, <1>2, <1>3, <1>5, ToSearch, Step
<1> QED
  BY <1>4, <1>5 DEF Recheck, HasSku, Present

LEMMA InsertItemType ==
  ASSUME IInv, NEW r \in Requests, InsertItem(r)
  PROVE  IInv' /\ Goes(r)
<1>1. request[r] # NULL /\ request[r].data \in Row
  BY AtType DEF InsertItem, Shape
<1>2. ASSUME NEW w \in Rows, local' = [local EXCEPT ![w] = request[r].data],
             request' = Attaching(r, w)
      PROVE  IInv' /\ Goes(r)
  <2>1. Rest
    BY <1>1, <1>2, RowWritten, RowsRest DEF InsertItem
  <2> QED
    BY <1>1, <1>2, <2>1, AttachingSteps, Step
<1>3. ASSUME To(r, "refetch"), UNCHANGED local
      PROVE  IInv' /\ Goes(r)
  <2>1. Rest
    BY <1>3, SameRows, RowsRest DEF InsertItem
  <2>2. Grown
    BY <2>1 DEF Rest
  <2> QED
    BY <1>1, <1>3, <2>1, <2>2, ToSearch, Step
<1> QED
  BY <1>2, <1>3 DEF InsertItem

LEMMA RefetchType ==
  ASSUME IInv, NEW r \in Requests, Refetch(r)
  PROVE  IInv' /\ Goes(r)
<1>1. request[r] # NULL
  BY DEF Refetch, At
<1>2. Rest
  BY Still DEF Refetch, IInv, TypeOK
<1>3. CASE \E w \in Rows : request' = Attaching(r, w)
  BY <1>1, <1>2, <1>3, AttachingSteps, Step
<1>4. CASE To(r, "failed")
  BY <1>1, <1>2, <1>4, ToEnd, Step DEF Ended
<1> QED
  BY <1>3, <1>4 DEF Refetch, HasSku, Present

LEMMA AttachType ==
  ASSUME IInv, NEW r \in Requests, Attach(r)
  PROVE  IInv' /\ Goes(r)
<1>1. request[r] # NULL
  BY DEF Attach, At
<1>2. used' \in SUBSET Rows
  BY DEF Attach, Present, IInv, TypeOK
<1>3. Rest
  BY <1>2, Still DEF Attach
<1>4. Steps(r)
  BY <1>1, ToEnd DEF Attach, Ended
<1> QED
  BY <1>3, <1>4, Step

-----------------------------------------------------------------------------

LEMMA InitInv == Init => IInv
<1> SUFFICES ASSUME Init PROVE IInv
  OBVIOUS
<1>1. PICK known \in Initial : zoho = known.zoho /\ local = known.local
  BY DEF Init
<1>2. known \in [zoho : [Ids -> Item \cup {NULL}],
                 local : [Rows -> Row \cup {NULL}]]
  BY CatalogueAssumption
<1>3. zoho \in List /\ local \in [Rows -> Row \cup {NULL, Gone}]
  BY <1>1, <1>2 DEF List
<1>4. TypeOK
  BY <1>3 DEF Init, TypeOK, Maybe
<1> QED
  BY <1>4 DEF Init, IInv, Shaped

LEMMA NextInv == IInv /\ [Next]_vars => IInv'
<1> SUFFICES ASSUME IInv, [Next]_vars PROVE IInv'
  OBVIOUS
<1>1. ASSUME NEW r \in Requests, Start(r) PROVE IInv'
  BY <1>1, StartType
<1>2. ASSUME NEW r \in Requests, Write(r) PROVE IInv'
  BY <1>2, BeginUpdateType, BeginDeleteType, FindServiceType, CallZohoType,
     ClearCacheType, StoreCreatedType, StoreUpdatedType, StoreDeletedType,
     FinishType DEF Write
<1>3. ASSUME NEW r \in Requests, Read(r) PROVE IInv'
  BY <1>3, LoadType, KeepType, CopyType, ReadItemType, SettleItemType DEF Read
<1>4. ASSUME NEW r \in Requests, Use(r) PROVE IInv'
  BY <1>4, LookUpType, RecheckType, InsertItemType, RefetchType, AttachType
  DEF Use
<1>5. CASE UNCHANGED vars
  BY <1>5 DEF vars, IInv, TypeOK, Shaped
<1> QED
  BY <1>1, <1>2, <1>3, <1>4, <1>5 DEF Next

\* Every request that was given what a user can give keeps a list a list, a row
\* a row and an item an item: nothing that is half-read or half-made is stored.
THEOREM CatalogueTypes == Spec => []TypeOK
<1>1. IInv => TypeOK
  BY DEF IInv
<1> QED
  BY InitInv, NextInv, <1>1, PTL DEF Spec

-----------------------------------------------------------------------------
(* When a cached list is the list in Zoho *)

Agrees(list) ==
  Listed(list) = Listed(zoho) /\ \A i \in Listed(zoho) : list[i] = zoho[i]

\* The lists that are about to be cached.
ReadCurrent(c) ==
  \A r \in Requests :
    request[r] # NULL /\ Own(r) = c /\ request[r].phase = "keep"
      => Agrees(request[r].list)

CachedCurrent(c) ==
  /\ cached[c] # NULL
  /\ \A r \in Requests : At(r, Writers, "clear") => Own(r) # c
  => Agrees(cached[c])

CacheInv ==
  \A c \in Caches : ~contested[c] => ReadCurrent(c) /\ CachedCurrent(c)

LEMMA ToTurns ==
  ASSUME IInv, NEW r \in Requests, request[r] # NULL,
         NEW phase \in Phases \ {"keep"}, To(r, phase)
  PROVE  Turns(r) /\ request'[r].kind = request[r].kind
                  /\ request'[r].phase = phase /\ request'[r] # NULL
<1>1. request' = [request EXCEPT ![r] = Moved(request[r], phase)]
  BY DEF To, Moved, IInv, TypeOK
<1>2. /\ Moved(request[r], phase).kind = request[r].kind
      /\ Moved(request[r], phase).phase = phase
      /\ Moved(request[r], phase) \in Request
  BY Known, MovedType
<1>3. request'[r] = Moved(request[r], phase)
  BY <1>1 DEF IInv, TypeOK
<1>4. request'[r] # NULL
  BY <1>2, <1>3, CatalogueAssumption
<1> QED
  BY <1>1, <1>2, <1>3, <1>4, Turn

\* The steps that leave Zoho and the caches alone.
LEMMA Quiet ==
  ASSUME IInv, CacheInv, NEW r \in Requests, ~ At(r, Writers, "clear"),
         UNCHANGED <<zoho, cached, contested>>, Turns(r)
  PROVE  CacheInv'
<1> SUFFICES ASSUME NEW c \in Caches, ~ contested'[c]
             PROVE  ReadCurrent(c)' /\ CachedCurrent(c)'
  BY DEF CacheInv
<1>1. ReadCurrent(c) /\ CachedCurrent(c)
  BY DEF CacheInv
<1>2. ReadCurrent(c)'
  <2> SUFFICES ASSUME NEW s \in Requests, request'[s] # NULL, Own(s)' = c,
                      request'[s].phase = "keep"
               PROVE  Agrees(request[s].list)' /\ request'[s] = request[s]
    BY DEF ReadCurrent
  <2>1. request'[s] = request[s]
    BY DEF Turns
  <2>2. Agrees(request[s].list)
    BY <1>1, <2>1 DEF ReadCurrent, Own
  <2> QED
    BY <2>1, <2>2 DEF Agrees, Listed
<1>3. CachedCurrent(c)'
  <2> SUFFICES ASSUME cached'[c] # NULL,
                      \A s \in Requests : At(s, Writers, "clear")' => Own(s)' # c
               PROVE  Agrees(cached[c])'
    BY DEF CachedCurrent
  <2>1. \A s \in Requests : At(s, Writers, "clear") => Own(s) # c
    BY DEF Turns, At, Own
  <2>2. Agrees(cached[c])
    BY <1>1, <2>1 DEF CachedCurrent
  <2> QED
    BY <2>2 DEF Agrees, Listed
<1> QED
  BY <1>2, <1>3

\* The cache of a module is cleared by one of its requests.
LEMMA Cleared ==
  ASSUME IInv, CacheInv, NEW r \in Requests, request[r] # NULL, Clear(r),
         UNCHANGED zoho, Turns(r)
  PROVE  CacheInv'
<1> SUFFICES ASSUME NEW c \in Caches, ~ contested'[c]
             PROVE  ReadCurrent(c)' /\ CachedCurrent(c)'
  BY DEF CacheInv
<1>1. ReadCurrent(c)'
  <2> SUFFICES ASSUME NEW s \in Requests, request'[s] # NULL, Own(s)' = c,
                      request'[s].phase = "keep"
               PROVE  Agrees(request[s].list)' /\ request'[s] = request[s]
    BY DEF ReadCurrent
  <2>1. request'[s] = request[s]
    BY DEF Turns
  <2>2. Reading(c)
    BY <2>1 DEF Reading, Running, Own, Ended
  <2>3. ~ contested[c]
    BY <2>2, OwnType DEF Clear, IInv, TypeOK
  <2>4. Agrees(request[s].list)
    BY <2>1, <2>3 DEF CacheInv, ReadCurrent, Own
  <2> QED
    BY <2>1, <2>4 DEF Agrees, Listed
<1>2. CASE c = Own(r)
  <2>1. cached'[c] = NULL
    BY <1>2 DEF Clear, IInv, TypeOK
  <2> QED
    BY <1>1, <2>1 DEF CachedCurrent
<1>3. CASE c # Own(r)
  <2>1. cached'[c] = cached[c] /\ contested'[c] = contested[c]
    BY <1>3, OwnType DEF Clear, IInv, TypeOK
  <2>2. CachedCurrent(c)
    BY <2>1 DEF CacheInv
  <2> SUFFICES ASSUME cached'[c] # NULL,
                      \A s \in Requests : At(s, Writers, "clear")' => Own(s)' # c
               PROVE  Agrees(cached[c])
    BY <1>1, <2>1 DEF CachedCurrent, Agrees, Listed
  <2>3. \A s \in Requests : At(s, Writers, "clear") => Own(s) # c
    BY <1>3 DEF Turns, At, Own
  <2> QED
    BY <2>1, <2>2, <2>3 DEF CachedCurrent
<1> QED
  BY <1>2, <1>3

LEMMA CallZohoCurrent ==
  ASSUME IInv, CacheInv, NEW r \in Requests, CallZoho(r)
  PROVE  CacheInv'
<1>1. /\ request[r] # NULL /\ request[r].phase = "call"
      /\ request[r].kind \in Writers /\ ~ At(r, Writers, "clear")
  BY AtType DEF CallZoho, At
<1>2. AfterFailure(r) \in Phases \ {"keep"} /\ "clear" \in Phases \ {"keep"}
  BY DEF AfterFailure, Phases, Ended
<1>3. Turns(r)
  BY <1>1, <1>2, ToTurns DEF CallZoho
<1>4. CASE UNCHANGED <<zoho, contested>>
  BY <1>1, <1>3, <1>4, Quiet DEF CallZoho
<1>5. ASSUME NEW clears,
             \/ clears = Own(r) /\ To(r, "clear")
             \/ clears = NULL,
             contested' = Outdated(clears), UNCHANGED cached
      PROVE  CacheInv'
  <2> SUFFICES ASSUME NEW c \in Caches, ~ contested'[c]
               PROVE  ReadCurrent(c)' /\ CachedCurrent(c)'
    BY DEF CacheInv
  <2>1. ~ Reading(c) /\ (c = clears \/ cached[c] = NULL)
    BY <1>5 DEF Outdated
  <2>2. ReadCurrent(c)'
    <3> SUFFICES ASSUME NEW s \in Requests, request'[s] # NULL, Own(s)' = c,
                        request'[s].phase = "keep"
                 PROVE  FALSE
      BY DEF ReadCurrent
    <3>1. request'[s] = request[s]
      BY <1>3 DEF Turns
    <3> QED
      BY <2>1, <3>1 DEF Reading, Running, Own, Ended
  <2>3. CASE cached[c] = NULL
    BY <1>5, <2>2, <2>3 DEF CachedCurrent
  <2>4. CASE c = clears
    <3>1. clears = Own(r) /\ To(r, "clear")
      BY <1>5, <2>4, CatalogueAssumption
    <3>2. At(r, Writers, "clear")' /\ Own(r)' = c
      BY <1>1, <1>2, <2>4, <3>1, ToTurns DEF At, Own
    <3> QED
      BY <2>2, <3>2 DEF CachedCurrent
  <2> QED
    BY <2>1, <2>3, <2>4
<1> QED
  BY <1>4, <1>5 DEF CallZoho

LEMMA KeepCurrent ==
  ASSUME IInv, CacheInv, NEW r \in Requests, Keep(r)
  PROVE  CacheInv'
<1> DEFINE this == request[r]
<1>1. /\ this # NULL /\ this \in Request /\ this.phase = "keep"
      /\ this.list \in List
  BY AtType DEF Keep, Shape
<1>2. Turns(r)
  <2>1. CASE To(r, "done")
    BY <1>1, <2>1, ToTurns DEF Phases, Ended
  <2>2. CASE request' = [request EXCEPT ![r].phase = "copy",
                                        ![r].todo = Listed(this.list)]
    <3> DEFINE q == [this EXCEPT !.phase = "copy", !.todo = Listed(this.list)]
    <3>1. request' = [request EXCEPT ![r] = q]
      BY <2>2
    <3>2. q.phase = "copy"
      BY <1>1 DEF Request
    <3> QED
      BY <3>1, <3>2, Turn
  <2> QED
    BY <2>1, <2>2 DEF Keep
<1> SUFFICES ASSUME NEW c \in Caches, ~ contested'[c]
             PROVE  ReadCurrent(c)' /\ CachedCurrent(c)'
  BY DEF CacheInv
<1>3. ReadCurrent(c) /\ CachedCurrent(c)
  BY DEF Keep, CacheInv
<1>4. ReadCurrent(c)'
  <2> SUFFICES ASSUME NEW s \in Requests, request'[s] # NULL, Own(s)' = c,
                      request'[s].phase = "keep"
               PROVE  Agrees(request[s].list)' /\ request'[s] = request[s]
    BY DEF ReadCurrent
  <2>1. request'[s] = request[s]
    BY <1>2 DEF Turns
  <2>2. Agrees(request[s].list)
    BY <1>3, <2>1 DEF ReadCurrent, Own
  <2> QED
    BY <2>1, <2>2 DEF Agrees, Listed, Keep
<1>5. CASE c = Own(r)
  <2>1. cached'[c] = this.list
    BY <1>5 DEF Keep, IInv, TypeOK
  <2>2. Agrees(this.list)
    BY <1>1, <1>3, <1>5 DEF ReadCurrent
  <2> QED
    BY <1>4, <2>1, <2>2 DEF CachedCurrent, Agrees, Listed, Keep
<1>6. CASE c # Own(r)
  <2>1. cached'[c] = cached[c]
    BY <1>6, OwnType DEF Keep, IInv, TypeOK
  <2> SUFFICES ASSUME cached'[c] # NULL,
                      \A s \in Requests : At(s, Writers, "clear")' => Own(s)' # c
               PROVE  Agrees(cached[c])
    BY <1>4, <2>1 DEF CachedCurrent, Agrees, Listed, Keep
  <2>2. \A s \in Requests : At(s, Writers, "clear") => Own(s) # c
    BY <1>1, <1>2 DEF Turns, At, Own
  <2> QED
    BY <1>3, <2>1, <2>2 DEF CachedCurrent
<1> QED
  BY <1>5, <1>6

\* A request that reads the list from Zoho has it as it is.
LEMMA LoadCurrent ==
  ASSUME IInv, CacheInv, NEW r \in Requests, Load(r)
  PROVE  CacheInv'
<1> DEFINE this == request[r]
           list == cached[Own(r)]
<1>1. this # NULL /\ this \in Request /\ ~ At(r, Writers, "clear")
  BY AtType DEF Load, At
<1>2. CASE \E phase \in Ended : To(r, phase)
  BY <1>1, <1>2, ToTurns, Quiet DEF Load, Phases, Ended
<1>3. CASE request' = [request EXCEPT ![r].phase = "copy",
                         ![r].list = list, ![r].todo = Listed(list)]
  <2> DEFINE q == [this EXCEPT !.phase = "copy", !.list = list,
                               !.todo = Listed(list)]
  <2>1. request' = [request EXCEPT ![r] = q]
    BY <1>3
  <2>2. q.phase = "copy"
    BY <1>1 DEF Request
  <2> HIDE DEF q
  <2> QED
    BY <1>1, <2>1, <2>2, Turn, Quiet DEF Load
<1>4. CASE request' = [request EXCEPT ![r].phase = "keep", ![r].list = zoho]
  <2> SUFFICES ASSUME NEW c \in Caches, ~ contested'[c]
               PROVE  ReadCurrent(c)' /\ CachedCurrent(c)'
    BY DEF CacheInv
  <2>1. ReadCurrent(c) /\ CachedCurrent(c)
    BY DEF Load, CacheInv
  <2>2. /\ \A s \in Requests \ {r} : request'[s] = request[s]
        /\ request'[r] = [this EXCEPT !.phase = "keep", !.list = zoho]
    BY <1>4 DEF IInv, TypeOK
  <2>3. request'[r].phase = "keep" /\ request'[r].list = zoho
    BY <1>1, <2>2 DEF Request
  <2>4. ReadCurrent(c)'
    <3> SUFFICES ASSUME NEW s \in Requests, request'[s] # NULL, Own(s)' = c,
                        request'[s].phase = "keep"
                 PROVE  Agrees(request[s].list)'
      BY DEF ReadCurrent
    <3>1. CASE s = r
      BY <2>3, <3>1 DEF Agrees, Listed, Load
    <3>2. CASE s # r
      <4>1. request'[s] = request[s]
        BY <2>2, <3>2
      <4>2. Agrees(request[s].list)
        BY <2>1, <4>1 DEF ReadCurrent, Own
      <4> QED
        BY <4>1, <4>2 DEF Agrees, Listed, Load
    <3> QED
      BY <3>1, <3>2
  <2>5. CachedCurrent(c)'
    <3> SUFFICES ASSUME cached'[c] # NULL,
                   \A s \in Requests : At(s, Writers, "clear")' => Own(s)' # c
                 PROVE  Agrees(cached[c])'
      BY DEF CachedCurrent
    <3>1. \A s \in Requests : At(s, Writers, "clear") => Own(s) # c
      BY <1>1, <2>2 DEF At, Own
    <3>2. Agrees(cached[c])
      BY <2>1, <3>1 DEF CachedCurrent, Load
    <3> QED
      BY <3>2 DEF Agrees, Listed, Load
  <2> QED
    BY <2>4, <2>5
<1> QED
  BY <1>2, <1>3, <1>4 DEF Load, Ended

LEMMA AttachingTurns ==
  ASSUME IInv, NEW r \in Requests, request[r] # NULL, NEW w,
         request' = Attaching(r, w)
  PROVE  Turns(r)
<1> DEFINE q == [request[r] EXCEPT !.phase = "attach", !.target = w]
<1>1. request' = [request EXCEPT ![r] = q]
  BY DEF Attaching
<1>2. q.phase = "attach"
  BY Known DEF Request
<1> QED
  BY <1>1, <1>2, Turn

LEMMA ProceedTurns ==
  ASSUME IInv, NEW r \in Requests, request[r] # NULL, NEW x, Proceed(r, x)
  PROVE  Turns(r)
<1> DEFINE q == [request[r] EXCEPT !.phase = "begun", !.todo = @ \ {x},
                                   !.target = NULL, !.id = NULL]
<1>1. CASE To(r, "finish")
  BY <1>1, ToTurns DEF Phases
<1>2. CASE request' = [request EXCEPT ![r] = q]
  <2>1. q.phase = "begun"
    BY Known DEF Request
  <2> QED
    BY <1>2, <2>1, Turn
<1> QED
  BY <1>1, <1>2 DEF Proceed

LEMMA WriteTurns ==
  ASSUME IInv, NEW r \in Requests, request[r] # NULL,
         \/ BeginUpdate(r) \/ BeginDelete(r) \/ FindService(r)
         \/ StoreCreated(r) \/ StoreUpdated(r) \/ StoreDeleted(r)
         \/ ClearCache(r) \/ Finish(r)
  PROVE  Turns(r)
<1> DEFINE this == request[r]
<1>1. this \in Request
  BY Known
<1>2. ASSUME NEW phase \in {"done", "failed", "store", "finish"}, To(r, phase)
      PROVE  Turns(r)
  BY <1>2, ToTurns DEF Phases, Ended
<1>3. CASE BeginUpdate(r)
  <2>1. ASSUME NEW i, request' = [request EXCEPT ![r].phase = "call", ![r].id = i]
        PROVE  Turns(r)
    <3> DEFINE q == [this EXCEPT !.phase = "call", !.id = i]
    <3>1. request' = [request EXCEPT ![r] = q]
      BY <2>1
    <3>2. q.phase = "call"
      BY <1>1 DEF Request
    <3> HIDE DEF q
    <3> QED
      BY <3>1, <3>2, Turn
  <2> QED
    BY <1>2, <1>3, <2>1 DEF BeginUpdate
<1>4. CASE BeginDelete(r)
  <2>1. ASSUME NEW x, request' = [request EXCEPT ![r].phase = "store",
                                                 ![r].target = x]
        PROVE  Turns(r)
    <3> DEFINE q == [this EXCEPT !.phase = "store", !.target = x]
    <3>1. request' = [request EXCEPT ![r] = q]
      BY <2>1
    <3>2. q.phase = "store"
      BY <1>1 DEF Request
    <3> HIDE DEF q
    <3> QED
      BY <3>1, <3>2, Turn
  <2>2. ASSUME NEW x, NEW i,
               request' = [request EXCEPT ![r].phase = "call",
                                          ![r].target = x, ![r].id = i]
        PROVE  Turns(r)
    <3> DEFINE q == [this EXCEPT !.phase = "call", !.target = x, !.id = i]
    <3>1. request' = [request EXCEPT ![r] = q]
      BY <2>2
    <3>2. q.phase = "call"
      BY <1>1 DEF Request
    <3> HIDE DEF q
    <3> QED
      BY <3>1, <3>2, Turn
  <2> QED
    BY <1>2, <1>4, <2>1, <2>2, ProceedTurns DEF BeginDelete
<1>5. CASE FindService(r)
  <2>1. ASSUME NEW x, request' = [request EXCEPT ![r].phase = "call",
                                                 ![r].data = x]
        PROVE  Turns(r)
    <3> DEFINE q == [this EXCEPT !.phase = "call", !.data = x]
    <3>1. request' = [request EXCEPT ![r] = q]
      BY <2>1
    <3>2. q.phase = "call"
      BY <1>1 DEF Request
    <3> HIDE DEF q
    <3> QED
      BY <3>1, <3>2, Turn
  <2> QED
    BY <1>2, <1>5, <2>1 DEF FindService
<1>6. CASE StoreDeleted(r)
  BY <1>2, <1>6, ProceedTurns DEF StoreDeleted
<1>7. CASE StoreCreated(r) \/ StoreUpdated(r) \/ ClearCache(r) \/ Finish(r)
  BY <1>2, <1>7 DEF StoreCreated, StoreUpdated, ClearCache, Finish
<1> QED
  BY <1>3, <1>4, <1>5, <1>6, <1>7

LEMMA ReadTurns ==
  ASSUME IInv, NEW r \in Requests, request[r] # NULL,
         \/ Copy(r) \/ ReadItem(r) \/ SettleItem(r) \/ Use(r)
  PROVE  Turns(r)
<1> DEFINE this == request[r]
<1>1. this \in Request
  BY Known
<1>2. ASSUME NEW phase \in {"done", "failed", "unknown", "insert", "refetch"},
             To(r, phase)
      PROVE  Turns(r)
  BY <1>2, ToTurns DEF Phases, Ended
<1>3. CASE Copy(r)
  <2>1. PICK i : request' = [request EXCEPT ![r].todo = @ \ {i}]
    BY <1>3 DEF Copy
  <2>2. request' = [request EXCEPT ![r] = [this EXCEPT !.todo = this.todo \ {i}]]
    BY <2>1
  <2>3. [this EXCEPT !.todo = this.todo \ {i}].phase = "copy"
    BY <1>1, <1>3 DEF Request, Copy, At
  <2> QED
    BY <2>2, <2>3, Turn
<1>4. CASE ReadItem(r)
  <2>1. ASSUME NEW x, request' = [request EXCEPT ![r].phase = "settle",
                                                 ![r].data = x]
        PROVE  Turns(r)
    <3> DEFINE q == [this EXCEPT !.phase = "settle", !.data = x]
    <3>1. request' = [request EXCEPT ![r] = q]
      BY <2>1
    <3>2. q.phase = "settle"
      BY <1>1 DEF Request
    <3> HIDE DEF q
    <3> QED
      BY <3>1, <3>2, Turn
  <2> QED
    BY <1>2, <1>4, <2>1 DEF ReadItem
<1>5. CASE LookUp(r)
  <2>1. ASSUME NEW x, request' = [request EXCEPT ![r].phase = "recheck",
                                                 ![r].data = x]
        PROVE  Turns(r)
    <3> DEFINE q == [this EXCEPT !.phase = "recheck", !.data = x]
    <3>1. request' = [request EXCEPT ![r] = q]
      BY <2>1
    <3>2. q.phase = "recheck"
      BY <1>1 DEF Request
    <3> HIDE DEF q
    <3> QED
      BY <3>1, <3>2, Turn
  <2> QED
    BY <1>2, <1>5, <2>1, AttachingTurns DEF LookUp
<1>6. CASE \/ SettleItem(r) \/ Recheck(r) \/ InsertItem(r) \/ Refetch(r)
           \/ Attach(r)
  BY <1>2, <1>6, AttachingTurns
  DEF SettleItem, Recheck, InsertItem, Refetch, Attach
<1> QED
  BY <1>3, <1>4, <1>5, <1>6 DEF Use

-----------------------------------------------------------------------------

LEMMA InitCurrent == Init => CacheInv
BY CatalogueAssumption DEF Init, CacheInv, ReadCurrent, CachedCurrent

LEMMA NextCurrent == IInv /\ CacheInv /\ [Next]_vars => CacheInv'
<1> SUFFICES ASSUME IInv, CacheInv, [Next]_vars PROVE CacheInv'
  OBVIOUS
<1>1. ASSUME NEW r \in Requests, Start(r) PROVE CacheInv'
  <2>1. PICK kind \in Kinds[r] : Asks(r, kind)
    BY <1>1 DEF Start
  <2>2. kind \in AllKinds
    BY CatalogueAssumption
  <2>3. Turns(r)
    BY <1>1, <2>1, <2>2, AsksSteps DEF Start
  <2> QED
    BY <1>1, <2>3, Quiet DEF Start, At
<1>2. ASSUME NEW r \in Requests,
             \/ BeginUpdate(r) \/ BeginDelete(r) \/ FindService(r)
             \/ StoreCreated(r) \/ StoreUpdated(r) \/ StoreDeleted(r)
      PROVE  CacheInv'
  <2>1. request[r] # NULL /\ ~ At(r, Writers, "clear")
    BY <1>2 DEF BeginUpdate, BeginDelete, FindService, StoreCreated,
                StoreUpdated, StoreDeleted, At
  <2>2. UNCHANGED <<zoho, cached, contested>>
    BY <1>2 DEF BeginUpdate, BeginDelete, FindService, StoreCreated,
                StoreUpdated, StoreDeleted
  <2>3. Turns(r)
    BY <1>2, <2>1, WriteTurns
  <2> QED
    BY <2>1, <2>2, <2>3, Quiet
<1>3. ASSUME NEW r \in Requests, ClearCache(r) \/ Finish(r) PROVE CacheInv'
  <2>1. request[r] # NULL /\ Clear(r) /\ UNCHANGED zoho
    BY <1>3 DEF ClearCache, Finish, At
  <2>2. Turns(r)
    BY <1>3, <2>1, WriteTurns
  <2> QED
    BY <2>1, <2>2, Cleared
<1>4. ASSUME NEW r \in Requests, CallZoho(r) PROVE CacheInv'
  BY <1>4, CallZohoCurrent
<1>5. ASSUME NEW r \in Requests, Load(r) \/ Keep(r) PROVE CacheInv'
  BY <1>5, LoadCurrent, KeepCurrent
<1>6. ASSUME NEW r \in Requests,
             Copy(r) \/ ReadItem(r) \/ SettleItem(r) \/ Use(r)
      PROVE  CacheInv'
  <2>1. request[r] # NULL /\ ~ At(r, Writers, "clear")
    BY <1>6 DEF Copy, ReadItem, SettleItem, Use, LookUp, Recheck, InsertItem,
                Refetch, Attach, At
  <2>2. UNCHANGED <<zoho, cached, contested>>
    BY <1>6 DEF Copy, ReadItem, SettleItem, Use, LookUp, Recheck, InsertItem,
                Refetch, Attach
  <2>3. Turns(r)
    BY <1>6, <2>1, ReadTurns
  <2> QED
    BY <2>1, <2>2, <2>3, Quiet
<1>7. CASE UNCHANGED vars
  BY <1>7 DEF vars, CacheInv, ReadCurrent, CachedCurrent, Agrees, Listed, Own,
              At
<1> QED
  BY <1>1, <1>2, <1>3, <1>4, <1>5, <1>6, <1>7 DEF Next, Write, Read

\* However many requests overlap, in whatever order, and whichever calls to
\* Zoho lose their answers: a cached list is the list in Zoho, except in the
\* ways that CacheIsCurrent names.
THEOREM CachesAreCurrent == Spec => []CacheIsCurrent
<1>1. CacheInv => CacheIsCurrent
  BY DEF CacheInv, CachedCurrent, Agrees, CacheIsCurrent
<1> QED
  BY InitInv, NextInv, InitCurrent, NextCurrent, <1>1, PTL DEF Spec

-----------------------------------------------------------------------------
(* When a material is not added *)

\* Requests that run at the same time are known to.
Overlapping ==
  \A r, s \in Requests :
    r # s /\ Running(r) /\ Running(s) => {r, s} \in overlaps

Changers == {"update"} \cup Deletes

\* A request that renames or deletes rows ran at the same time as r.
Disturbed(r) ==
  \E s \in Requests : /\ request[s] # NULL /\ request[s].kind \in Changers
                      /\ {r, s} \in overlaps

Found(r) ==
  /\ At(r, {"material"}, "refetch")
       => HasSku(request[r].data.sku) # {} \/ Disturbed(r)
  /\ At(r, {"material"}, "attach")
       => request[r].target \in Present \/ Disturbed(r)
  /\ At(r, {"material"}, "failed") => Disturbed(r)

FoundInv == Overlapping /\ \A r \in Requests : Found(r)

\* The rows that are there stay, under their skus.
RowsStay ==
  \A w \in Rows : local[w] \in Row => /\ local'[w] \in Row
                                      /\ local'[w].sku = local[w].sku

LEMMA ActsGo ==
  ASSUME IInv, NEW r \in Requests, Write(r) \/ Read(r) \/ Use(r)
  PROVE  /\ IInv' /\ Goes(r) /\ Running(r) /\ UNCHANGED overlaps
<1>1. CASE Write(r)
  <2>1. Running(r) /\ UNCHANGED overlaps
    BY <1>1 DEF Write, BeginUpdate, BeginDelete, FindService, CallZoho,
                ClearCache, StoreCreated, StoreUpdated, StoreDeleted, Finish,
                At, Running, Ended
  <2> QED
    BY <1>1, <2>1, BeginUpdateType, BeginDeleteType, FindServiceType,
       CallZohoType, ClearCacheType, StoreCreatedType, StoreUpdatedType,
       StoreDeletedType, FinishType DEF Write
<1>2. CASE Read(r)
  <2>1. Running(r) /\ UNCHANGED overlaps
    BY <1>2 DEF Read, Load, Keep, Copy, ReadItem, SettleItem, At, Running, Ended
  <2> QED
    BY <1>2, <2>1, LoadType, KeepType, CopyType, ReadItemType, SettleItemType
    DEF Read
<1>3. CASE Use(r)
  <2>1. Running(r) /\ UNCHANGED overlaps
    BY <1>3 DEF Use, LookUp, Recheck, InsertItem, Refetch, Attach, At, Running,
                Ended
  <2> QED
    BY <1>3, <2>1, LookUpType, RecheckType, InsertItemType, RefetchType,
       AttachType DEF Use
<1> QED
  BY <1>1, <1>2, <1>3

LEMMA OverlappingStays ==
  ASSUME IInv, Overlapping, NEW p \in Requests,
         Start(p) \/ Write(p) \/ Read(p) \/ Use(p)
  PROVE  Overlapping' /\ Goes(p) /\ overlaps \subseteq overlaps'
<1>1. CASE Start(p)
  <2>1. Goes(p) /\ overlaps \subseteq overlaps'
    BY <1>1, StartType DEF Start
  <2>2. ASSUME NEW s \in Requests, s # p, Running(s)
        PROVE  {p, s} \in overlaps' /\ {s, p} \in overlaps'
    <3>1. {p, s} \in overlaps'
      BY <1>1, <2>2 DEF Start
    <3>2. {s, p} = {p, s}
      OBVIOUS
    <3> QED
      BY <3>1, <3>2
  <2> QED
    BY <2>1, <2>2 DEF Overlapping, Running, Goes
<1>2. CASE Write(p) \/ Read(p) \/ Use(p)
  BY <1>2, ActsGo DEF Overlapping, Running, Goes
<1> QED
  BY <1>1, <1>2

LEMMA DisturbedStays ==
  ASSUME NEW p \in Requests, Goes(p), overlaps \subseteq overlaps',
         NEW r \in Requests, Disturbed(r)
  PROVE  Disturbed(r)'
BY DEF Disturbed, Goes

\* What another request does to what r has found.
LEMMA FoundByOther ==
  ASSUME NEW p \in Requests, Goes(p), overlaps \subseteq overlaps',
         NEW r \in Requests \ {p}, Found(r),
         RowsStay \/ (Running(r) => Disturbed(r)')
  PROVE  Found(r)'
<1>1. request'[r] = request[r]
  BY DEF Goes
<1>2. CASE Disturbed(r)'
  BY <1>2 DEF Found
<1>3. CASE ~ Disturbed(r)'
  <2>1. ~ Disturbed(r)
    BY <1>3, DisturbedStays
  <2>2. CASE ~ Running(r)
    BY <1>1, <2>1, <2>2 DEF Found, At, Running, Ended
  <2>3. CASE RowsStay
    <3>1. Present \subseteq Present'
      BY <2>3 DEF RowsStay, Present
    <3>2. \A sku : HasSku(sku) # {} => HasSku(sku)' # {}
      BY <2>3 DEF RowsStay, HasSku, Present
    <3> QED
      BY <1>1, <2>1, <3>1, <3>2 DEF Found, At
  <2> QED
    BY <1>3, <2>2, <2>3
<1> QED
  BY <1>2, <1>3

\* Only updates and deletes take a row away from its sku.
LEMMA InsertStays ==
  ASSUME IInv, NEW w \in Rows, local[w] = NULL, NEW row \in Row,
         local' = [local EXCEPT ![w] = row]
  PROVE  RowsStay
BY CatalogueAssumption DEF IInv, TypeOK, RowsStay

LEMMA UpsertStays ==
  ASSUME IInv, NEW row \in Row, Upsert(row)
  PROVE  RowsStay
<1>1. CASE Insert(row)
  BY <1>1, InsertStays DEF Insert
<1>2. CASE \E w \in HasSku(row.sku) : local' = [local EXCEPT ![w] = row]
  BY <1>2 DEF RowsStay, HasSku, Present, IInv, TypeOK
<1> QED
  BY <1>1, <1>2 DEF Upsert

LEMMA MostStay ==
  ASSUME IInv, NEW p \in Requests,
         \/ Start(p) \/ BeginUpdate(p) \/ BeginDelete(p) \/ FindService(p)
         \/ CallZoho(p) \/ ClearCache(p) \/ StoreCreated(p) \/ Finish(p)
         \/ Read(p) \/ Use(p)
  PROVE  RowsStay
<1>1. CASE UNCHANGED local
  BY <1>1 DEF RowsStay
<1>2. CASE StoreCreated(p)
  <2>1. request[p].data \in Row
    BY <1>2, AtType, NewItemType DEF StoreCreated, Shape
  <2> QED
    BY <1>1, <1>2, <2>1, InsertStays DEF StoreCreated, Insert
<1>3. CASE Copy(p)
  <2>1. /\ request[p].list \in List
        /\ request[p].todo \subseteq Listed(request[p].list)
    BY <1>3, AtType DEF Copy, Shape
  <2>2. PICK i \in request[p].todo : Upsert(AsRow(i, request[p].list[i]))
    BY <1>3 DEF Copy
  <2>3. AsRow(i, request[p].list[i]) \in Row
    BY <2>1, AsRowType DEF Listed
  <2> QED
    BY <2>2, <2>3, UpsertStays
<1>4. CASE SettleItem(p)
  <2>1. request[p].data \in Item
    BY <1>4, AtType DEF SettleItem, Shape
  <2>2. ASSUME NEW w \in Present, request[p].data.stock # NULL,
               local' = [local EXCEPT ![w].stock = request[p].data.stock]
        PROVE  RowsStay
    <3>1. w \in Rows /\ local[w] \in Row
      BY DEF Present
    <3>2. /\ [local[w] EXCEPT !.stock = request[p].data.stock] \in Row
          /\ [local[w] EXCEPT !.stock = request[p].data.stock].sku =
             local[w].sku
      BY <2>1, <2>2, <3>1 DEF Row, Item, Maybe
    <3>3. local' = [local EXCEPT ![w] =
                      [local[w] EXCEPT !.stock = request[p].data.stock]]
      BY <2>2
    <3> QED
      BY <3>1, <3>2, <3>3 DEF RowsStay, IInv, TypeOK
  <2> QED
    BY <1>1, <1>4, <2>2 DEF SettleItem, HasSku
<1>5. CASE InsertItem(p)
  <2>1. request[p].data \in Row
    BY <1>5, AtType DEF InsertItem, Shape
  <2> QED
    BY <1>1, <1>5, <2>1, InsertStays DEF InsertItem
<1>6. CASE \/ Start(p) \/ BeginUpdate(p) \/ BeginDelete(p) \/ FindService(p)
           \/ CallZoho(p) \/ ClearCache(p) \/ Finish(p) \/ Load(p) \/ Keep(p)
           \/ ReadItem(p) \/ LookUp(p) \/ Recheck(p) \/ Refetch(p) \/ Attach(p)
  BY <1>1, <1>6 DEF Start, BeginUpdate, BeginDelete, FindService, CallZoho,
     ClearCache, Finish, Load, Keep, ReadItem, LookUp, Recheck, Refetch, Attach
<1> QED
  BY <1>2, <1>3, <1>4, <1>5, <1>6 DEF Read, Use

LEMMA FoundOthers ==
  ASSUME IInv, FoundInv, NEW p \in Requests, NEW r \in Requests \ {p},
         Start(p) \/ Write(p) \/ Read(p) \/ Use(p)
  PROVE  Found(r)'
<1>1. Goes(p) /\ overlaps \subseteq overlaps' /\ Found(r)
  BY OverlappingStays DEF FoundInv
<1>2. CASE StoreUpdated(p) \/ StoreDeleted(p)
  <2>1. /\ request[p] # NULL /\ request[p].kind \in Changers /\ Running(p)
        /\ UNCHANGED overlaps
    BY <1>2 DEF StoreUpdated, StoreDeleted, At, Running, Ended, Changers
  <2>2. ASSUME Running(r) PROVE Disturbed(r)
    BY <2>1, <2>2 DEF FoundInv, Overlapping, Disturbed
  <2>3. Running(r) => Disturbed(r)'
    BY <1>1, <2>2, DisturbedStays
  <2> QED
    BY <1>1, <2>3, FoundByOther
<1>3. CASE RowsStay
  BY <1>1, <1>3, FoundByOther
<1> QED
  BY <1>2, <1>3, MostStay DEF Write

\* What a request does to what it has found itself.
LEMMA ToFound ==
  ASSUME IInv, NEW r \in Requests, request[r] # NULL,
         NEW phase \in Phases \ {"keep"}, To(r, phase),
         phase = "failed" => Disturbed(r)',
         phase \notin {"refetch", "attach"}
  PROVE  Found(r)'
BY ToTurns DEF Found, At

LEMMA AttachingFound ==
  ASSUME IInv, NEW r \in Requests, request[r] # NULL, NEW w \in Present',
         request' = Attaching(r, w)
  PROVE  Found(r)'
<1> DEFINE q == [request[r] EXCEPT !.phase = "attach", !.target = w]
<1>1. request'[r] = q
  BY DEF Attaching, IInv, TypeOK
<1>2. q.phase = "attach" /\ q.target = w
  BY Known DEF Request
<1> QED
  BY <1>1, <1>2 DEF Found, At

LEMMA FoundSelf ==
  ASSUME IInv, FoundInv, NEW r \in Requests, Use(r)
  PROVE  Found(r)'
<1>1. /\ request[r] # NULL /\ request[r] \in Request /\ Goes(r)
      /\ overlaps \subseteq overlaps'
  BY ActsGo, Known DEF Running
<1>2. Found(r)
  BY DEF FoundInv
<1>3. ASSUME NEW phase \in {"done", "unknown", "insert"}, To(r, phase)
      PROVE  Found(r)'
  BY <1>1, <1>3, ToFound DEF Phases, Ended
<1>4. ASSUME NEW w \in Present, request' = Attaching(r, w), UNCHANGED local
      PROVE  Found(r)'
  BY <1>1, <1>4, AttachingFound DEF Present
<1>5. ASSUME Disturbed(r), To(r, "failed")
      PROVE  Found(r)'
  <2>1. Disturbed(r)'
    BY <1>1, <1>5, DisturbedStays
  <2> QED
    BY <1>1, <1>5, <2>1, ToFound DEF Phases, Ended
<1>6. CASE LookUp(r)
  <2>1. ASSUME NEW x, request' = [request EXCEPT ![r].phase = "recheck",
                                                 ![r].data = x]
        PROVE  Found(r)'
    <3> DEFINE q == [request[r] EXCEPT !.phase = "recheck", !.data = x]
    <3>1. request'[r] = q
      BY <2>1 DEF IInv, TypeOK
    <3>2. q.phase = "recheck"
      BY <1>1 DEF Request
    <3> QED
      BY <3>1, <3>2 DEF Found, At
  <2> QED
    BY <1>3, <1>4, <1>6, <2>1 DEF LookUp, HasSku
<1>7. CASE Recheck(r)
  BY <1>3, <1>4, <1>7 DEF Recheck, HasSku
<1>8. CASE InsertItem(r)
  <2>1. request[r].data \in Row
    BY <1>8, AtType DEF InsertItem, Shape
  <2>2. ASSUME NEW w \in Rows, local' = [local EXCEPT ![w] = request[r].data],
               request' = Attaching(r, w)
        PROVE  Found(r)'
    <3>1. w \in Present'
      BY <2>1, <2>2 DEF Present, IInv, TypeOK
    <3> QED
      BY <1>1, <2>2, <3>1, AttachingFound
  <2>3. ASSUME HasSku(request[r].data.sku) # {}, To(r, "refetch"),
               UNCHANGED local
        PROVE  Found(r)'
    <3>1. request'[r] = [request[r] EXCEPT !.phase = "refetch"]
      BY <2>3 DEF To, Ended, IInv, TypeOK
    <3>2. request'[r].phase = "refetch" /\ request'[r].data = request[r].data
      BY <1>1, <3>1 DEF Request
    <3> QED
      BY <2>3, <3>2 DEF Found, At, HasSku, Present
  <2> QED
    BY <1>8, <2>2, <2>3 DEF InsertItem
<1>9. CASE Refetch(r)
  <2>1. HasSku(request[r].data.sku) # {} \/ Disturbed(r)
    BY <1>2, <1>9 DEF Refetch, Found
  <2> QED
    BY <1>4, <1>5, <1>9, <2>1 DEF Refetch, HasSku
<1>10. CASE Attach(r)
  <2>1. request[r].target \in Present \/ Disturbed(r)
    BY <1>2, <1>10 DEF Attach, Found
  <2> QED
    BY <1>3, <1>5, <1>10, <2>1 DEF Attach
<1> QED
  BY <1>6, <1>7, <1>8, <1>9, <1>10 DEF Use

LEMMA InitFound == Init => FoundInv
BY DEF Init, FoundInv, Overlapping, Found, At, Running

LEMMA NextFound == IInv /\ FoundInv /\ [Next]_vars => FoundInv'
<1> SUFFICES ASSUME IInv, FoundInv, [Next]_vars PROVE FoundInv'
  OBVIOUS
<1>1. ASSUME NEW p \in Requests, Start(p) \/ Write(p) \/ Read(p) \/ Use(p)
      PROVE  FoundInv'
  <2>1. Overlapping'
    BY <1>1, OverlappingStays DEF FoundInv
  <2>2. \A r \in Requests \ {p} : Found(r)'
    BY <1>1, FoundOthers
  <2>3. CASE Start(p)
    <3>1. PICK kind \in Kinds[p] : Asks(p, kind)
      BY <2>3 DEF Start
    <3>2. kind \in AllKinds
      BY CatalogueAssumption
    <3>3. request'[p].phase \in {"begun", "find", "call"}
      BY <2>3, <3>1, <3>2, AsksSteps DEF Start
    <3>4. Found(p)'
      BY <3>3 DEF Found, At
    <3> QED
      BY <2>1, <2>2, <3>4 DEF FoundInv
  <2>4. CASE Write(p) \/ Read(p)
    <3>1. request[p] # NULL /\ request[p].kind # "material"
      BY <2>4 DEF Write, BeginUpdate, BeginDelete, FindService, CallZoho,
         ClearCache, StoreCreated, StoreUpdated, StoreDeleted, Finish, Read,
         Load, Keep, Copy, ReadItem, SettleItem, At, Writers, Deletes, Loaders
    <3>2. request'[p].kind # "material"
      BY <2>4, <3>1, ActsGo DEF Goes
    <3>3. Found(p)'
      BY <3>2 DEF Found, At
    <3> QED
      BY <2>1, <2>2, <3>3 DEF FoundInv
  <2>5. CASE Use(p)
    BY <2>1, <2>2, <2>5, FoundSelf DEF FoundInv
  <2> QED
    BY <1>1, <2>3, <2>4, <2>5
<1>2. CASE UNCHANGED vars
  BY <1>2 DEF vars, FoundInv, Overlapping, Found, Disturbed, At, Running,
              HasSku, Present
<1> QED
  BY <1>1, <1>2 DEF Next

\* However many requests insert the same missing item at once: each gets its
\* row, unless a request that renames or deletes rows overlapped it.
THEOREM MaterialIsFound == Spec => []MaterialFindsItsItem
<1>1. FoundInv => MaterialFindsItsItem
  BY DEF FoundInv, Found, Disturbed, Changers, MaterialFindsItsItem
<1> QED
  BY InitInv, NextInv, InitFound, NextFound, <1>1, PTL DEF Spec

-----------------------------------------------------------------------------
(* One service item per stage *)

\* Users give items skus of their own, not those of the service items, and
\* Zoho has no service item twice to begin with.
OwnSkus ==
  /\ Skus \cap Services = {}
  /\ \A known \in Initial, v \in Services, i, j \in Ids :
       (/\ known.zoho[i] \in Item /\ known.zoho[i].sku = v
        /\ known.zoho[j] \in Item /\ known.zoho[j].sku = v) => i = j

Ensures(r, v) ==
  request[r] # NULL /\ request[r].kind = "ensure" /\ request[r].target = v

\* Two saves of tasks of the stage overlapped.
Doubled(v) == \E pair \in overlaps : \A r \in pair : Ensures(r, v)

Single(v) == \A i, j \in WithSku(v) : i = j

\* A request that is about to create a service item has found none.
Sought(r) ==
  request[r] # NULL /\ request[r].kind = "ensure" =>
    /\ request[r].target \in Services
    /\ request[r].phase = "call" =>
         /\ request[r].data.sku = request[r].target
         /\ WithSku(request[r].target) = {} \/ Doubled(request[r].target)

\* Only requests that have begun have overlapped.
Met == \A pair \in overlaps : \A r \in pair : r \in Requests /\ request[r] # NULL

ServiceInv ==
  /\ Overlapping /\ Met
  /\ \A r \in Requests : Sought(r)
  /\ \A v \in Services : Single(v) \/ Doubled(v)

\* A request keeps looking for the service item it was started for.
Keeps(p) ==
  request[p] # NULL /\ request[p].kind = "ensure"
    => request'[p].target = request[p].target

LEMMA ToKeeps ==
  ASSUME IInv, NEW r \in Requests, request[r] # NULL,
         request[r].kind = "ensure", NEW phase \in Phases, To(r, phase)
  PROVE  /\ request'[r].target = request[r].target
         /\ request'[r].phase = phase
<1>1. request'[r] = Moved(request[r], phase)
  BY DEF To, Moved, IInv, TypeOK
<1>2. CASE phase \in Ended
  BY <1>1, <1>2 DEF Moved, Over, Blank
<1>3. CASE phase \notin Ended
  BY <1>1, <1>3, Known, MovedType
<1> QED
  BY <1>2, <1>3

LEMMA EnsureKeeps ==
  ASSUME IInv, NEW p \in Requests, request[p] # NULL,
         request[p].kind = "ensure", Write(p) \/ Read(p) \/ Use(p)
  PROVE  /\ Keeps(p)
         /\ request'[p].phase = "call" =>
              /\ WithSku(request[p].target) = {} /\ UNCHANGED zoho
              /\ request'[p].data.sku = request[p].target
<1> DEFINE this == request[p]
<1>1. this \in Request
  BY Known
<1>2. \/ FindService(p) \/ CallZoho(p) \/ ClearCache(p) \/ Finish(p)
  BY DEF Write, Read, Use, BeginUpdate, BeginDelete, StoreCreated,
     StoreUpdated, StoreDeleted, Load, Keep, Copy, ReadItem, SettleItem,
     LookUp, Recheck, InsertItem, Refetch, Attach, At, Deletes, Loaders
<1>3. ASSUME NEW phase \in {"done", "failed", "store", "clear"}, To(p, phase)
      PROVE  Keeps(p) /\ request'[p].phase # "call"
  BY <1>3, ToKeeps DEF Keeps, Phases, Ended
<1>4. CASE FindService(p)
  <2> DEFINE v == this.target
             item == [sku |-> v, name |-> v, stock |-> NULL]
             q == [this EXCEPT !.phase = "call", !.data = item]
  <2>1. CASE Finds(v, v) = {} /\ request' = [request EXCEPT ![p] = q]
    <3>1. request'[p] = q
      BY <2>1 DEF IInv, TypeOK
    <3>2. q.target = v /\ q.data.sku = v
      BY <1>1 DEF Request
    <3>3. WithSku(v) = {}
      BY <2>1 DEF Finds
    <3> QED
      BY <1>4, <3>1, <3>2, <3>3 DEF Keeps, FindService
  <2>2. CASE To(p, "done") \/ To(p, "failed")
    BY <1>3, <2>2
  <2> QED
    BY <1>4, <2>1, <2>2 DEF FindService
<1>5. CASE CallZoho(p)
  <2>1. To(p, "clear") \/ To(p, AfterFailure(p))
    BY <1>5 DEF CallZoho
  <2> QED
    BY <1>3, <2>1 DEF AfterFailure
<1>6. CASE ClearCache(p) \/ Finish(p)
  BY <1>3, <1>6 DEF ClearCache, Finish
<1> QED
  BY <1>2, <1>4, <1>5, <1>6

LEMMA AsksKind ==
  ASSUME IInv, NEW r \in Requests, NEW kind \in AllKinds, Asks(r, kind)
  PROVE  /\ request'[r].kind = kind
         /\ kind = "ensure" => /\ request'[r].target \in Services
                               /\ request'[r].phase = "find"
<1> DEFINE b == Blank(kind)
<1>1. /\ b.kind = kind /\ DOMAIN b = {"kind", "phase", "target", "data", "id",
                                     "todo", "list"}
  BY DEF Blank
<1>2. CASE kind = "ensure"
  <2>1. PICK v \in Services :
          request' = [request EXCEPT ![r] = [b EXCEPT !.phase = "find",
                                                      !.target = v]]
    BY <1>2 DEF Asks, Deletes
  <2> HIDE DEF b
  <2>2. request'[r] = [b EXCEPT !.phase = "find", !.target = v]
    BY <2>1 DEF IInv, TypeOK
  <2> QED
    BY <1>1, <2>2
<1>3. CASE kind # "ensure"
  <2>1. ASSUME NEW q, request' = [request EXCEPT ![r] = q]
        PROVE  request'[r] = q
    BY <2>1 DEF IInv, TypeOK
  <2>2. \/ \E x : request'[r] = [b EXCEPT !.phase = "call", !.data = x]
        \/ \E w, x : request'[r] = [b EXCEPT !.target = w, !.data = x]
        \/ \E x : request'[r] = [b EXCEPT !.todo = x]
        \/ \E x : request'[r] = [b EXCEPT !.target = x]
        \/ request'[r] = b
    <3> HIDE DEF b
    <3> QED
      BY <1>3, <2>1 DEF Asks, b
  <2> HIDE DEF b
  <2> QED
    BY <1>1, <1>3, <2>2
<1> QED
  BY <1>2, <1>3

LEMMA DoubledStays ==
  ASSUME Met, NEW p \in Requests, Goes(p), Keeps(p), overlaps \subseteq overlaps',
         NEW v, Doubled(v)
  PROVE  Doubled(v)'
<1>1. PICK pair \in overlaps : \A r \in pair : Ensures(r, v)
  BY DEF Doubled
<1>2. ASSUME NEW r \in pair PROVE Ensures(r, v)'
  <2>1. r \in Requests /\ request[r] # NULL /\ Ensures(r, v)
    BY <1>1 DEF Met
  <2>2. CASE r = p
    BY <2>1, <2>2 DEF Ensures, Goes, Keeps
  <2>3. CASE r # p
    BY <2>1, <2>3 DEF Ensures, Goes
  <2> QED
    BY <2>2, <2>3
<1> QED
  BY <1>2 DEF Doubled

\* The skus of services come from requests that ensure them only.
LEMMA ApplyServices ==
  ASSUME IInv, OwnSkus, NEW p \in Requests, At(p, Writers, "call"), Apply(p),
         Sought(p), NEW v \in Services
  PROVE  \/ WithSku(v)' \subseteq WithSku(v)
         \/ /\ Ensures(p, v)
            /\ \E i \in Ids : WithSku(v)' \subseteq WithSku(v) \cup {i}
<1> DEFINE this == request[p]
<1>1. /\ this \in Request /\ Shape(this, zoho, local) /\ this # NULL
      /\ this.phase = "call"
  BY AtType DEF At
<1>2. zoho \in List
  BY DEF IInv, TypeOK
<1>3. ASSUME NEW i, zoho' = [zoho EXCEPT ![i] = Gone]
      PROVE  WithSku(v)' \subseteq WithSku(v)
  BY <1>2, <1>3, CatalogueAssumption DEF WithSku, Listed, List
<1>4. ASSUME NEW i \in Ids, NEW item \in Item, zoho' = [zoho EXCEPT ![i] = item],
             item.sku = v => i \in WithSku(v)
      PROVE  WithSku(v)' \subseteq WithSku(v)
  BY <1>2, <1>4 DEF WithSku, Listed, List
<1>5. CASE this.kind = "create"
  <2>1. PICK i \in Ids : zoho' = [zoho EXCEPT ![i] = this.data]
    BY <1>5 DEF Apply, Deletes
  <2>2. this.data \in NewItems
    BY <1>1, <1>5 DEF Shape
  <2>3. this.data \in Item /\ this.data.sku \in Skus
    BY <2>2, NewItemType, CatalogueAssumption
  <2> QED
    BY <1>4, <2>1, <2>3 DEF OwnSkus
<1>6. CASE this.kind = "ensure"
  <2>1. PICK i \in Ids : zoho' = [zoho EXCEPT ![i] = this.data]
    BY <1>6 DEF Apply, Deletes
  <2>2. this.data \in Item /\ this.data.sku = this.target
    BY <1>1, <1>6 DEF Shape, Sought
  <2>3. CASE v = this.target
    <3>1. WithSku(v)' \subseteq WithSku(v) \cup {i}
      BY <1>2, <2>1 DEF WithSku, Listed, List
    <3> QED
      BY <1>1, <1>6, <2>3, <3>1 DEF Ensures
  <2> QED
    BY <1>4, <2>1, <2>2, <2>3
<1>7. CASE this.kind = "update" /\ zoho[this.id] # Gone
  <2> DEFINE i == this.id
             item == Amended(zoho[i], this.data)
  <2>1. /\ i \in Ids /\ zoho[i] \in Item /\ this.data \in Change
        /\ zoho' = [zoho EXCEPT ![i] = item]
    BY <1>1, <1>2, <1>7, CatalogueAssumption DEF Apply, Shape, List, Deletes
  <2>2. item \in Item
    BY <2>1, AmendedItem
  <2>3. item.sku = zoho[i].sku \/ item.sku \in Skus
    BY <2>1 DEF Amended, Set, Change, Maybe
  <2>4. item.sku = v => i \in WithSku(v)
    BY <2>1, <2>3 DEF OwnSkus, WithSku, Listed
  <2> HIDE DEF item, i
  <2> QED
    BY <1>4, <2>1, <2>2, <2>4
<1>8. CASE this.kind \in Deletes
  BY <1>3, <1>8 DEF Apply, Deletes
<1> QED
  BY <1>5, <1>6, <1>7, <1>8 DEF Apply

\* Two requests that create the same service item at once are known to.
LEMMA DoubledNow ==
  ASSUME ServiceInv, NEW p \in Requests, NEW r \in Requests, r # p,
         Running(p), Running(r), NEW v, Ensures(p, v), Ensures(r, v)
  PROVE  Doubled(v)
<1>1. {p, r} \in overlaps
  BY DEF ServiceInv, Overlapping
<1> QED
  BY <1>1 DEF Doubled

LEMMA InitService == OwnSkus /\ Init => ServiceInv
<1> SUFFICES ASSUME OwnSkus, Init PROVE ServiceInv
  OBVIOUS
<1>1. PICK known \in Initial : zoho = known.zoho
  BY DEF Init
<1>2. \A v \in Services : Single(v)
  BY <1>1 DEF OwnSkus, Single, WithSku, Listed
<1> QED
  BY <1>2 DEF Init, ServiceInv, Overlapping, Met, Sought, Running

LEMMA StartService ==
  ASSUME IInv, ServiceInv, NEW p \in Requests, Start(p)
  PROVE  ServiceInv'
<1>1. PICK kind \in Kinds[p] : Asks(p, kind)
  BY DEF Start
<1>2. kind \in AllKinds
  BY CatalogueAssumption
<1>3. /\ request[p] = NULL /\ UNCHANGED zoho
      /\ overlaps' = overlaps \cup {{p, s} : s \in {q \in Requests : Running(q)}}
  BY DEF Start
<1>4. /\ request'[p].kind = kind
      /\ kind = "ensure" => /\ request'[p].target \in Services
                            /\ request'[p].phase = "find"
  BY <1>1, <1>2, AsksKind
<1>5. Overlapping' /\ Goes(p) /\ overlaps \subseteq overlaps'
  BY OverlappingStays DEF ServiceInv
<1>6. Met'
  BY <1>3, <1>5 DEF ServiceInv, Met, Goes, Running
<1>7. \A v : Doubled(v) => Doubled(v)'
  BY <1>3, <1>5, DoubledStays DEF ServiceInv, Keeps
<1>8. \A v : WithSku(v)' = WithSku(v)
  BY <1>3 DEF WithSku, Listed
<1>9. \A r \in Requests : Sought(r)'
  BY <1>4, <1>5, <1>7, <1>8 DEF ServiceInv, Sought, Goes
<1>10. \A v \in Services : Single(v)' \/ Doubled(v)'
  BY <1>7, <1>8 DEF ServiceInv, Single
<1> QED
  BY <1>5, <1>6, <1>9, <1>10 DEF ServiceInv

LEMMA ActService ==
  ASSUME IInv, OwnSkus, ServiceInv, NEW p \in Requests,
         Write(p) \/ Read(p) \/ Use(p)
  PROVE  ServiceInv'
<1>1. /\ Goes(p) /\ Running(p) /\ UNCHANGED overlaps /\ request[p] # NULL
      /\ Overlapping'
  BY ActsGo, OverlappingStays DEF ServiceInv, Running
<1>2. Keeps(p)
  BY <1>1, EnsureKeeps DEF Keeps
<1>3. Met'
  BY <1>1 DEF ServiceInv, Met, Goes
<1>4. \A v : Doubled(v) => Doubled(v)'
  BY <1>1, <1>2, DoubledStays DEF ServiceInv
<1>5. ASSUME NEW v \in Services
      PROVE  \/ WithSku(v)' \subseteq WithSku(v)
             \/ /\ At(p, Writers, "call") /\ Ensures(p, v)
                /\ \E i \in Ids : WithSku(v)' \subseteq WithSku(v) \cup {i}
  <2>1. CASE UNCHANGED zoho
    BY <2>1 DEF WithSku, Listed
  <2>2. CASE CallZoho(p)
    BY <2>1, <2>2, ApplyServices DEF CallZoho, ServiceInv
  <2>3. CASE Write(p) /\ ~CallZoho(p)
    BY <2>1, <2>3 DEF Write, BeginUpdate, BeginDelete, FindService, ClearCache,
                     StoreCreated, StoreUpdated, StoreDeleted, Finish
  <2>4. CASE Read(p) \/ Use(p)
    BY <2>1, <2>4 DEF Read, Load, Keep, Copy, ReadItem, SettleItem, Use,
                     LookUp, Recheck, InsertItem, Refetch, Attach
  <2> QED
    BY <2>2, <2>3, <2>4
<1>6. ASSUME NEW r \in Requests PROVE Sought(r)'
  <2> SUFFICES ASSUME request'[r] # NULL, request'[r].kind = "ensure",
                      NEW v, v = request'[r].target
               PROVE  /\ v \in Services
                      /\ request'[r].phase = "call" =>
                           /\ request'[r].data.sku = v
                           /\ WithSku(v)' = {} \/ Doubled(v)'
    BY DEF Sought
  <2>1. CASE r = p
    <3>1. request[p].kind = "ensure" /\ v = request[p].target
      BY <1>1, <1>2, <2>1 DEF Goes, Keeps
    <3>2. v \in Services
      BY <1>1, <3>1 DEF ServiceInv, Sought
    <3>3. request'[p].phase = "call" =>
            request'[p].data.sku = v /\ WithSku(v)' = {}
      BY <1>1, <3>1, EnsureKeeps DEF WithSku, Listed
    <3> QED
      BY <2>1, <3>2, <3>3
  <2>2. CASE r # p
    <3>1. request'[r] = request[r]
      BY <1>1, <2>2 DEF Goes
    <3>2. /\ v \in Services
          /\ request[r].phase = "call" =>
               request[r].data.sku = v /\ (WithSku(v) = {} \/ Doubled(v))
      BY <3>1 DEF ServiceInv, Sought
    <3>3. ASSUME request[r].phase = "call", WithSku(v) = {}
          PROVE  WithSku(v)' = {} \/ Doubled(v)
      <4>1. Running(r) /\ Ensures(r, v)
        BY <3>1, <3>3 DEF Running, Ensures, Ended
      <4>2. Ensures(p, v) => Doubled(v)
        BY <1>1, <2>2, <4>1, DoubledNow
      <4> QED
        BY <1>5, <3>2, <3>3, <4>2
    <3> QED
      BY <1>4, <3>1, <3>2, <3>3
  <2> QED
    BY <2>1, <2>2
<1>7. ASSUME NEW v \in Services PROVE Single(v)' \/ Doubled(v)'
  <2>1. CASE WithSku(v)' \subseteq WithSku(v)
    BY <1>4, <2>1 DEF ServiceInv, Single
  <2>2. CASE /\ At(p, Writers, "call") /\ Ensures(p, v)
             /\ \E i \in Ids : WithSku(v)' \subseteq WithSku(v) \cup {i}
    <3>1. WithSku(v) = {} \/ Doubled(v)
      BY <2>2 DEF ServiceInv, Sought, Ensures, At
    <3> QED
      BY <1>4, <2>2, <3>1 DEF Single
  <2> QED
    BY <1>5, <2>1, <2>2
<1> QED
  BY <1>1, <1>3, <1>6, <1>7 DEF ServiceInv

LEMMA NextService == IInv /\ OwnSkus /\ ServiceInv /\ [Next]_vars => ServiceInv'
<1> SUFFICES ASSUME IInv, OwnSkus, ServiceInv, [Next]_vars PROVE ServiceInv'
  OBVIOUS
<1>1. CASE UNCHANGED vars
  BY <1>1 DEF vars, ServiceInv, Overlapping, Met, Sought, Single, Doubled,
              Ensures, WithSku, Listed, Running
<1> QED
  BY <1>1, StartService, ActService DEF Next

\* However often the answer that a service item was created is lost, and the
\* next save of a task asks for it again, there is one item per stage, unless
\* two saves of its tasks overlapped.
THEOREM ServicesStaySingle ==
  ASSUME OwnSkus
  PROVE  Spec => []OneItemPerService
<1>1. ServiceInv => OneItemPerService
  <2> SUFFICES ASSUME ServiceInv, NEW v \in Services, ~ Doubled(v)
               PROVE  Cardinality(WithSku(v)) <= 1
    BY DEF OneItemPerService, Doubled, Ensures
  <2>1. Single(v)
    BY DEF ServiceInv
  <2>2. CASE WithSku(v) = {}
    BY <2>2, FS_EmptySet
  <2>3. ASSUME NEW i \in WithSku(v) PROVE Cardinality(WithSku(v)) <= 1
    <3>1. WithSku(v) = {i}
      BY <2>1, <2>3 DEF Single
    <3> QED
      BY <3>1, FS_Singleton
  <2> QED
    BY <2>2, <2>3
<1> QED
  BY InitInv, NextInv, InitService, NextService, <1>1, PTL DEF Spec

-----------------------------------------------------------------------------
(* What a sync that is alone copies *)

Alone(r) == \A s \in Requests \ {r} : {r, s} \notin overlaps

\* The item i of the list has its row, or another of its sku has.
Held(table, list, i) ==
  \/ \E j \in Listed(list) \ {i} : AsRow(j, list[j]).sku = AsRow(i, list[i]).sku
  \/ \E w \in Rows : table[w] \in Row /\ table[w] = AsRow(i, list[i])

\* A sync that is alone has the list in Zoho, and rows for what it is done with.
Synced(r) ==
  (/\ At(r, {"sync"}, "keep") \/ At(r, {"sync"}, "copy")
   /\ Alone(r) /\ ~contested["zoho"])
  => /\ Agrees(request[r].list)
     /\ request[r].phase = "copy" =>
          \A i \in Listed(request[r].list) \ request[r].todo :
            Held(local, request[r].list, i)

SyncInv == Overlapping /\ \A r \in Requests : Synced(r)

\* A request that runs is not alone when another one takes a step.
LEMMA NotAlone ==
  ASSUME IInv, Overlapping, NEW p \in Requests, NEW r \in Requests \ {p},
         Running(r), Start(p) \/ Write(p) \/ Read(p) \/ Use(p)
  PROVE  ~Alone(r)'
<1>1. {r, p} = {p, r}
  OBVIOUS
<1>2. CASE Start(p)
  BY <1>1, <1>2 DEF Start, Alone
<1>3. CASE Write(p) \/ Read(p) \/ Use(p)
  BY <1>3, ActsGo DEF Overlapping, Alone
<1> QED
  BY <1>2, <1>3

LEMMA LoadSynced ==
  ASSUME IInv, CacheInv, SyncInv, NEW r \in Requests, Load(r)
  PROVE  Synced(r)'
<1> DEFINE this == request[r]
           list == cached["zoho"]
<1>1. /\ this # NULL /\ this \in Request /\ Running(r)
      /\ UNCHANGED <<zoho, local, overlaps, contested>>
  BY AtType DEF Load, At, Running, Ended
<1> SUFFICES ASSUME (At(r, {"sync"}, "keep") \/ At(r, {"sync"}, "copy"))',
                    Alone(r), ~contested["zoho"]
             PROVE  /\ Agrees(request'[r].list)
                    /\ request'[r].phase = "copy" =>
                         \A i \in Listed(request'[r].list) \ request'[r].todo :
                           Held(local, request'[r].list, i)
  BY <1>1 DEF Synced, Alone, Agrees, Listed, Held
<1>2. ASSUME NEW phase \in Ended, To(r, phase) PROVE FALSE
  BY <1>1, <1>2, ToTurns DEF At, Phases, Ended
<1>3. CASE Own(r) = "zoho" /\ list # NULL
           /\ request' = [request EXCEPT ![r].phase = "copy",
                            ![r].list = list, ![r].todo = Listed(list)]
  <2>1. \A s \in Requests : At(s, Writers, "clear") => s = r
    BY <1>1 DEF SyncInv, Overlapping, Alone, Running, At, Ended
  <2>2. ~At(r, Writers, "clear")
    BY DEF Load, At
  <2>3. Agrees(list)
    BY <1>3, <2>1, <2>2 DEF CacheInv, CachedCurrent, Caches
  <2>4. request'[r] = [this EXCEPT !.phase = "copy", !.list = list,
                                   !.todo = Listed(list)]
    BY <1>3 DEF IInv, TypeOK
  <2> HIDE DEF list
  <2>5. request'[r].list = list /\ request'[r].todo = Listed(list)
    BY <1>1, <2>4 DEF Request
  <2> QED
    BY <2>3, <2>5
<1>4. CASE request' = [request EXCEPT ![r].phase = "keep", ![r].list = zoho]
  <2>1. request'[r] = [this EXCEPT !.phase = "keep", !.list = zoho]
    BY <1>4 DEF IInv, TypeOK
  <2>2. request'[r].list = zoho /\ request'[r].phase = "keep"
    BY <1>1, <2>1 DEF Request
  <2> QED
    BY <2>2 DEF Agrees
<1>5. this.kind = "sync"
  BY <1>1, LoadType DEF At, Goes
<1>6. Own(r) = "zoho"
  BY <1>5 DEF Own, CacheOf, OfInventory
<1> QED
  BY <1>2, <1>3, <1>4, <1>5, <1>6 DEF Load, Ended

LEMMA KeepSynced ==
  ASSUME IInv, SyncInv, NEW r \in Requests, Keep(r)
  PROVE  Synced(r)'
<1> DEFINE this == request[r]
<1>1. /\ this # NULL /\ this \in Request /\ this.phase = "keep"
      /\ UNCHANGED <<zoho, local, overlaps, contested>>
  BY AtType DEF Keep
<1> SUFFICES ASSUME (At(r, {"sync"}, "keep") \/ At(r, {"sync"}, "copy"))',
                    Alone(r), ~contested["zoho"]
             PROVE  /\ Agrees(request'[r].list)
                    /\ request'[r].phase = "copy" =>
                         \A i \in Listed(request'[r].list) \ request'[r].todo :
                           Held(local, request'[r].list, i)
  BY <1>1 DEF Synced, Alone, Agrees, Listed, Held
<1>2. ASSUME To(r, "done") PROVE FALSE
  BY <1>1, <1>2, ToTurns DEF At, Phases, Ended
<1>3. request'[r] = [this EXCEPT !.phase = "copy", !.todo = Listed(this.list)]
  BY <1>2 DEF Keep, IInv, TypeOK
<1>4. request'[r].list = this.list /\ request'[r].todo = Listed(this.list)
  BY <1>1, <1>3 DEF Request
<1>5. this.kind = "sync"
  BY <1>2 DEF Keep
<1>6. Agrees(this.list)
  BY <1>1, <1>5 DEF SyncInv, Synced, At
<1> QED
  BY <1>4, <1>6

\* A row that is written over is of the sku of the item that is copied.
LEMMA CopySynced ==
  ASSUME IInv, SyncInv, NEW r \in Requests, Copy(r)
  PROVE  Synced(r)'
<1> DEFINE this == request[r]
           list == this.list
<1>1. /\ this # NULL /\ this \in Request /\ this.phase = "copy"
      /\ this.kind = "sync"
      /\ list \in List /\ this.todo \subseteq Listed(list)
      /\ UNCHANGED <<zoho, overlaps, contested>>
  BY AtType DEF Copy, Shape, At
<1>2. PICK i \in this.todo :
        /\ Upsert(AsRow(i, list[i]))
        /\ request' = [request EXCEPT ![r].todo = @ \ {i}]
  BY DEF Copy
<1> DEFINE new == AsRow(i, list[i])
<1>3. i \in Listed(list) /\ new \in Row
  BY <1>1, AsRowType DEF Listed
<1>4. PICK w \in Rows : /\ local' = [local EXCEPT ![w] = new]
                        /\ local[w] \in Row => local[w].sku = new.sku
  <2>1. CASE HasSku(new.sku) = {}
    BY <1>2, <2>1, CatalogueAssumption DEF Upsert, Insert
  <2>2. CASE HasSku(new.sku) # {}
    BY <1>2, <2>2 DEF Upsert, HasSku, Present
  <2> QED
    BY <2>1, <2>2
<1> HIDE DEF new
<1>5. \A v \in Rows : local'[v] = IF v = w THEN new ELSE local[v]
  BY <1>4 DEF IInv, TypeOK
<1>6. /\ request'[r].list = list /\ request'[r].phase = "copy"
      /\ request'[r].todo = this.todo \ {i}
  <2>1. request'[r] = [this EXCEPT !.todo = @ \ {i}]
    BY <1>2 DEF IInv, TypeOK
  <2> QED
    BY <1>1, <2>1 DEF Request
<1> SUFFICES ASSUME Alone(r), ~contested["zoho"]
             PROVE  /\ Agrees(list)
                    /\ \A j \in Listed(list) \ (this.todo \ {i}) :
                         Held(local', list, j)
  BY <1>1, <1>6 DEF Synced, Alone, Agrees, Listed, Held
<1>7. /\ Agrees(list)
      /\ \A j \in Listed(list) \ this.todo : Held(local, list, j)
  BY <1>1 DEF SyncInv, Synced, At
<1>8. Held(local', list, i)
  BY <1>3, <1>5 DEF Held, new
<1>9. ASSUME NEW j \in Listed(list) \ this.todo, j # i
      PROVE  Held(local', list, j)
  <2>1. CASE AsRow(j, list[j]).sku = new.sku
    BY <1>3, <1>9, <2>1 DEF Held, new
  <2>2. CASE AsRow(j, list[j]).sku # new.sku
    <3>1. ASSUME NEW v \in Rows, local[v] \in Row, local[v] = AsRow(j, list[j])
          PROVE  local'[v] \in Row /\ local'[v] = AsRow(j, list[j])
      BY <1>4, <1>5, <2>2, <3>1
    <3> QED
      BY <1>7, <3>1 DEF Held
  <2> QED
    BY <2>1, <2>2
<1> QED
  BY <1>7, <1>8, <1>9

LEMMA CopyPhase ==
  ASSUME IInv, NEW r \in Requests, Copy(r)
  PROVE  request'[r].phase = "copy"
<1>1. PICK i : request' = [request EXCEPT ![r].todo = @ \ {i}]
  BY DEF Copy
<1>2. request[r] \in Request /\ request[r].phase = "copy"
  BY AtType DEF Copy
<1>3. request'[r] = [request[r] EXCEPT !.todo = @ \ {i}]
  BY <1>1 DEF IInv, TypeOK
<1> QED
  BY <1>2, <1>3 DEF Request

LEMMA NextSynced == IInv /\ CacheInv /\ SyncInv /\ [Next]_vars => SyncInv'
<1> SUFFICES ASSUME IInv, CacheInv, SyncInv, [Next]_vars PROVE SyncInv'
  OBVIOUS
<1>1. ASSUME NEW p \in Requests, Start(p) \/ Write(p) \/ Read(p) \/ Use(p)
      PROVE  SyncInv'
  <2>1. Overlapping' /\ Goes(p)
    BY <1>1, OverlappingStays DEF SyncInv
  <2>2. ASSUME NEW r \in Requests \ {p} PROVE Synced(r)'
    <3>1. request'[r] = request[r]
      BY <2>1 DEF Goes
    <3>2. CASE Running(r)
      BY <1>1, <3>2, NotAlone DEF Synced, SyncInv
    <3>3. CASE ~Running(r)
      BY <3>1, <3>3 DEF Synced, At, Running, Ended
    <3> QED
      BY <3>2, <3>3
  <2>3. Synced(p)'
    <3>1. CASE Start(p)
      <4>1. PICK kind \in Kinds[p] : Asks(p, kind)
        BY <3>1 DEF Start
      <4>2. kind \in AllKinds
        BY CatalogueAssumption
      <4>3. request'[p].phase \in {"begun", "find", "call"}
        BY <3>1, <4>1, <4>2, AsksSteps DEF Start
      <4> QED
        BY <4>3 DEF Synced, At
    <3>2. CASE Load(p) \/ Keep(p) \/ Copy(p)
      BY <3>2, LoadSynced, KeepSynced, CopySynced
    <3>3. CASE Finish(p)
      <4>1. request[p] # NULL /\ To(p, "done")
        BY <3>3 DEF Finish, At
      <4>2. request'[p].phase = "done"
        BY <4>1, ToTurns DEF Phases, Ended
      <4> QED
        BY <4>2 DEF Synced, At
    <3>4. CASE (Write(p) /\ ~Finish(p)) \/ ReadItem(p) \/ SettleItem(p) \/ Use(p)
      <4>1. request[p] # NULL /\ request[p].kind # "sync"
        BY <3>4 DEF Write, BeginUpdate, BeginDelete, FindService, CallZoho,
           ClearCache, StoreCreated, StoreUpdated, StoreDeleted, ReadItem,
           SettleItem, Use, LookUp, Recheck, InsertItem, Refetch, Attach, At,
           Writers, Deletes
      <4> QED
        BY <2>1, <4>1 DEF Goes, Synced, At
    <3> QED
      BY <1>1, <3>1, <3>2, <3>3, <3>4 DEF Read
  <2> QED
    BY <2>1, <2>2, <2>3 DEF SyncInv
<1>2. CASE UNCHANGED vars
  BY <1>2 DEF vars, SyncInv, Overlapping, Synced, Alone, Agrees, Held, Listed,
              At, Running
<1> QED
  BY <1>1, <1>2 DEF Next

\* A sync that nothing overlaps, from the list it reads or from a cached one
\* that no one changed behind its back, leaves every item of Zoho a row as it
\* is there, in whatever order it copies them.
THEOREM LoneSyncsCopy == Spec => LoneSyncCopies
<1>1. IInv /\ SyncInv /\ [Next]_vars => [LoneSyncCompletes]_vars
  <2> SUFFICES ASSUME IInv, SyncInv, Next,
                      NEW r \in Requests, At(r, {"sync"}, "copy"),
                      request'[r].phase = "done", ~contested["zoho"], Alone(r),
                      NEW i \in Listed(zoho)
               PROVE  \/ \E j \in Listed(zoho) \ {i} :
                           AsRow(j, zoho[j]).sku = AsRow(i, zoho[i]).sku
                      \/ \E w \in Present : local[w] = AsRow(i, zoho[i])
    BY DEF LoneSyncCompletes, Alone
  <2>1. PICK p \in Requests : Start(p) \/ Write(p) \/ Read(p) \/ Use(p)
    BY DEF Next
  <2>2. p = r
    BY <2>1, StartType, ActsGo DEF Goes, At
  <2>3. request[r].todo = {}
    <3>1. CASE Copy(r)
      BY <3>1, CopyPhase DEF At
    <3>2. CASE Finish(r)
      BY <3>2 DEF Finish, At, Writers, Deletes
    <3>3. CASE ~Copy(r) /\ ~Finish(r)
      BY <2>1, <2>2, <3>3 DEF At, Start, Write, BeginUpdate, BeginDelete,
         FindService, CallZoho, ClearCache, StoreCreated, StoreUpdated,
         StoreDeleted, Read, Load, Keep, ReadItem, SettleItem, Use, LookUp,
         Recheck, InsertItem, Refetch, Attach
    <3> QED
      BY <3>1, <3>2, <3>3
  <2> DEFINE list == request[r].list
  <2>4. Agrees(list) /\ \A j \in Listed(list) : Held(local, list, j)
    BY <2>3 DEF SyncInv, Synced, At
  <2> HIDE DEF list
  <2>5. /\ Held(local, list, i) /\ Listed(list) = Listed(zoho)
        /\ \A j \in Listed(zoho) : list[j] = zoho[j]
    BY <2>4 DEF Agrees
  <2> QED
    BY <2>5 DEF Held, Present
<1>2. Init => SyncInv
  BY DEF Init, SyncInv, Overlapping, Synced, At, Running
<1> QED
  BY <1>1, <1>2, InitInv, NextInv, InitCurrent, NextCurrent, NextSynced, PTL
  DEF Spec, LoneSyncCopies

=============================================================================
