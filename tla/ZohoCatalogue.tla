---------------------------- MODULE ZohoCatalogue ----------------------------
(***************************************************************************)
(* The items the application shares with Zoho Books: Zoho's own list, the  *)
(* rows of the Inventory table that follow it, and the copies of the whole *)
(* list that ZohoService keeps in its cache (inventory.service.ts,         *)
(* zoho.service.ts, zoho-sync.service.ts, and addMaterial of the           *)
(* production orders).  There are two instances of that service: one of    *)
(* the inventory module, one of the Zoho module, and each has a cache that *)
(* only the handlers of its own module clear.                              *)
(*                                                                         *)
(* A request is a sequence of awaited steps; those of different requests   *)
(* interleave.  A call to Zoho is applied and answered, refused, or        *)
(* applied without an answer.  The pages of Zoho's list are read at once.  *)
(***************************************************************************)
EXTENDS Integers, FiniteSets

CONSTANTS
  Initial,    \* lists in Zoho, and rows, to begin with (bounds the model)
  Ids,        \* of items in Zoho, as it gives them out (bounds the model)
  Rows,       \* ids of rows of Inventory (bounds the model)
  NewItems,   \* what users create
  Changes,    \* what users change
  Skus,       \* skus that users give
  Services,   \* skus of the service items of the stages, also their names
  Names,      \* names that users give
  Contains,   \* the pairs of names of which the first contains the second
  Stocks,     \* quantities in stock, 0 among them
  Requests,   \* (bounds the model)
  Kinds,      \* the kinds each request may be of (bounds the model)
  NULL,       \* nothing, or not yet
  Gone        \* deleted

\* By the instance of ZohoService they are given to.
OfInventory == {"create", "update", "delete", "bulkDelete", "search"}
OfZoho == {"gap", "sync", "ensure", "material", "refresh"}
AllKinds == OfInventory \cup OfZoho

Caches == {"inventory", "zoho"}
CacheOf(kind) == IF kind \in OfInventory THEN "inventory" ELSE "zoho"

Titles == Names \cup Services

VARIABLES
  zoho,       \* the items in Zoho
  local,      \* the rows of Inventory
  used,       \* rows that a production order has as a material
  cached,     \* of each cache: ALL_ITEMS_CACHE_KEY
  request,
  overlaps,   \* pairs of requests that ran at the same time (history)
  contested   \* of each cache: since it was last cleared its list was changed
              \* in Zoho by a request that does not clear it, or between being
              \* read and being cached (history)

vars == <<zoho, local, used, cached, request, overlaps, contested>>

Maybe(S) == S \cup {NULL}

\* Services have no stock.
Item == [sku : Maybe(Skus \cup Services), name : Titles, stock : Maybe(Stocks)]
Row == [sku : Skus \cup Services \cup Ids, name : Titles, stock : Stocks]

\* What an update sets: the fields that are not NULL.
Change == [sku : Maybe(Skus), name : Maybe(Names), stock : Maybe(Stocks)]

List == [Ids -> Item \cup {NULL, Gone}]

Listed(list) == {i \in Ids : list[i] \in Item}
Present == {w \in Rows : local[w] \in Row}

\* A request: what it was given (target), the item or change it writes (data),
\* the item in Zoho it found (id), the targets or items to go, and the list.
Blank(kind) ==
  [kind |-> kind, phase |-> "begun", target |-> NULL, data |-> NULL,
   id |-> NULL, todo |-> {}, list |-> NULL]

Ended == {"done", "unknown", "failed"}
Phases == {"begun", "find", "call", "clear", "store", "keep", "copy", "recheck",
           "insert", "refetch", "attach", "settle", "finish"} \cup Ended

Request ==
  [kind : AllKinds, phase : Phases,
   target : Maybe(Rows \cup Ids \cup Skus \cup Services),
   data : Maybe(Item \cup Row \cup Change), id : Maybe(Ids),
   todo : SUBSET (Rows \cup Ids), list : Maybe(List)]

ASSUME CatalogueAssumption ==
  /\ Kinds \in [Requests -> SUBSET AllKinds]
  /\ Contains \subseteq Titles \X Titles
  /\ \A n \in Titles : <<n, n>> \in Contains
  /\ NewItems \subseteq [sku : Skus, name : Names, stock : Stocks]
  /\ Changes \subseteq Change
  /\ Initial \subseteq [zoho : [Ids -> Item \cup {NULL}],
                     local : [Rows -> Row \cup {NULL}]]
  /\ 0 \in Stocks
  /\ NULL \notin Item \cup Row \cup Change \cup List \cup Request
  /\ NULL \notin Skus \cup Services \cup Names \cup Stocks \cup Ids \cup Rows
  /\ NULL \notin Caches
  /\ Gone \notin Item \cup Row \cup {NULL}

TypeOK ==
  /\ zoho \in List
  /\ local \in [Rows -> Row \cup {NULL, Gone}]
  /\ used \in SUBSET Rows
  /\ cached \in [Caches -> Maybe(List)]
  /\ request \in [Requests -> Maybe(Request)]
  /\ overlaps \in SUBSET SUBSET Requests
  /\ contested \in [Caches -> BOOLEAN]

Init ==
  /\ \E known \in Initial : zoho = known.zoho /\ local = known.local
  /\ used = {}
  /\ cached = [c \in Caches |-> NULL]
  /\ request = [r \in Requests |-> NULL]
  /\ overlaps = {}
  /\ contested = [c \in Caches |-> FALSE]

-----------------------------------------------------------------------------

At(r, kinds, phase) ==
  request[r] # NULL /\ request[r].kind \in kinds /\ request[r].phase = phase

Running(r) == request[r] # NULL /\ request[r].phase \notin Ended

\* A request that is over keeps its kind, and its service.
Over(this, phase) ==
  [Blank(this.kind) EXCEPT !.phase = phase,
     !.target = IF this.kind = "ensure" THEN this.target ELSE NULL]

To(r, phase) ==
  request' = [request EXCEPT ![r] = IF phase \in Ended THEN Over(@, phase)
                                    ELSE [@ EXCEPT !.phase = phase]]

\* What requests of a kind may be given.
Asks(r, kind) ==
  LET Begin(this) == request' = [request EXCEPT ![r] = this]
      this == Blank(kind)
  IN  \/ /\ kind = "create"
         /\ \E x \in NewItems :
              Begin([this EXCEPT !.phase = "call", !.data = x])
      \/ /\ kind = "update"
         /\ \E w \in Present, x \in Changes :
              Begin([this EXCEPT !.target = w, !.data = x])
      \/ /\ kind = "delete"
         /\ \E x \in Present \cup Listed(zoho) : Begin([this EXCEPT !.todo = {x}])
      \/ /\ kind = "bulkDelete"
         /\ \E ids \in SUBSET (Present \cup Listed(zoho)) :
              ids # {} /\ Begin([this EXCEPT !.todo = ids])
      \/ /\ kind = "ensure"
         /\ \E v \in Services :
              Begin([this EXCEPT !.phase = "find", !.target = v])
      \/ /\ kind = "material"
         /\ \E x \in Present \cup Skus \cup Listed(zoho) :
              Begin([this EXCEPT !.target = x])
      \/ /\ kind = "refresh"
         /\ \E i \in Listed(zoho) : Begin([this EXCEPT !.target = i])
      \/ kind \in {"search", "gap", "sync"} /\ Begin(this)

Start(r) ==
  /\ request[r] = NULL
  /\ \E kind \in Kinds[r] : Asks(r, kind)
  /\ overlaps' = overlaps \cup {{r, s} : s \in {q \in Requests : Running(q)}}
  /\ UNCHANGED <<zoho, local, used, cached, contested>>

\* The cache of the module r is a request of, its list being read, and cleared.
Own(r) == CacheOf(request[r].kind)

Reading(c) ==
  \E q \in Requests : Running(q) /\ Own(q) = c /\ request[q].phase = "keep"

Clear(r) ==
  /\ cached' = [cached EXCEPT ![Own(r)] = NULL]
  /\ contested' = [contested EXCEPT ![Own(r)] = @ /\ Reading(Own(r))]

-----------------------------------------------------------------------------
(* Writing to Zoho *)

\* findZohoItemBySku, findZohoItemByName: the first that fits; the order of
\* the list is Zoho's.
WithSku(sku) == {i \in Listed(zoho) : zoho[i].sku = sku}
WithName(name) == {i \in Listed(zoho) : <<zoho[i].name, name>> \in Contains}

\* Mutant of Finds: the search of the cached list.
FindsCached(sku, name) ==
  LET list == IF cached["zoho"] = NULL THEN zoho ELSE cached["zoho"]
  IN  {i \in Listed(list) : list[i].sku = sku}

\* By sku, and where there is none by name.
Finds(sku, name) == IF WithSku(sku) # {} THEN WithSku(sku) ELSE WithName(name)

\* updateItem reads its row before it asks Zoho.
BeginUpdate(r) ==
  /\ At(r, {"update"}, "begun")
  /\ LET w == request[r].target
     IN  IF local[w] = Gone THEN To(r, "failed")
         ELSE \/ To(r, "store")  \* there is none, or Zoho fails
              \/ \E i \in Finds(local[w].sku, local[w].name) :
                   request' = [request EXCEPT ![r].phase = "call", ![r].id = i]
  /\ UNCHANGED <<zoho, local, used, cached, overlaps, contested>>

Deletes == {"delete", "bulkDelete"}

\* x is dealt with.
Proceed(r, x) ==
  IF request[r].todo = {x} THEN To(r, "finish")
  ELSE request' = [request EXCEPT ![r].phase = "begun", ![r].todo = @ \ {x},
                                  ![r].target = NULL, ![r].id = NULL]

\* The next of the ids to delete: a row, whose item in Zoho is looked for by
\* sku only, or else an item in Zoho, which a row that is gone is not.
BeginDelete(r) ==
  /\ At(r, Deletes, "begun")
  /\ \E x \in request[r].todo :
       \/ /\ x \in Present
          /\ \/ request' = [request EXCEPT ![r].phase = "store",
                                           ![r].target = x]
             \/ \E i \in WithSku(local[x].sku) :
                  request' = [request EXCEPT ![r].phase = "call",
                                             ![r].target = x, ![r].id = i]
       \/ /\ x \in Ids
          /\ request' = [request EXCEPT ![r].phase = "call",
                                        ![r].target = x, ![r].id = x]
       \/ /\ x \in Rows \ Present
          /\ IF request[r].kind = "delete" THEN To(r, "failed")
             ELSE Proceed(r, x)
  /\ UNCHANGED <<zoho, local, used, cached, overlaps, contested>>

\* ensureOperationServiceItem, run after every save of a task: a found item is
\* enough.  The accounts of a new one are copied from an item there is.
FindService(r) ==
  /\ At(r, {"ensure"}, "find")
  /\ LET v == request[r].target
     IN  \/ Finds(v, v) # {} /\ To(r, "done")
         \/ /\ Finds(v, v) = {} /\ Listed(zoho) # {}
            /\ request' = [request EXCEPT ![r].phase = "call",
                   ![r].data = [sku |-> v, name |-> v, stock |-> NULL]]
         \/ To(r, "failed")
  /\ UNCHANGED <<zoho, local, used, cached, overlaps, contested>>

\* Mutant of Set: a field that is left out is erased.
SetAlways(old, new) == new

Set(old, new) == IF new = NULL THEN old ELSE new

Amended(x, change) == [sku |-> Set(x.sku, change.sku),
                       name |-> Set(x.name, change.name),
                       stock |-> Set(x.stock, change.stock)]

\* The call of r is applied.
Apply(r) ==
  LET this == request[r]
  IN  \/ /\ this.kind \in {"create", "ensure"}
         /\ \E i \in Ids : /\ zoho[i] = NULL
                           /\ zoho' = [zoho EXCEPT ![i] = this.data]
      \/ /\ this.kind = "update" /\ zoho[this.id] # Gone
         /\ zoho' = [zoho EXCEPT ![this.id] = Amended(@, this.data)]
      \/ /\ this.kind \in Deletes /\ zoho[this.id] # Gone
         /\ zoho' = [zoho EXCEPT ![this.id] = Gone]

\* When a call fails, updates and deletes of rows go on locally, and a bulk
\* delete in any case.
AfterFailure(r) ==
  LET this == request[r]
  IN  IF this.kind \in {"update", "bulkDelete"} \/ this.target \in Rows
      THEN "store" ELSE "failed"

Writers == {"create", "update", "ensure"} \cup Deletes

\* The caches that may hold the list from before the change: not the one that
\* the request is to clear, except when it is being read.
Outdated(clears) ==
  [c \in Caches |-> \/ contested[c] \/ Reading(c)
                    \/ c # clears /\ cached[c] # NULL]

\* createItemInZoho, updateItemInZoho, deleteItemInZoho.
CallZoho(r) ==
  /\ At(r, Writers, "call")
  /\ \/ /\ Apply(r)
        /\ \/ To(r, "clear") /\ contested' = Outdated(Own(r))
           \/ \* the answer is lost
              To(r, AfterFailure(r)) /\ contested' = Outdated(NULL)
     \/ To(r, AfterFailure(r)) /\ UNCHANGED <<zoho, contested>>
  /\ UNCHANGED <<local, used, cached, overlaps>>

\* Mutant of ClearCache: a delete leaves the cached list.
ClearUnlessDeleted(r) ==
  /\ At(r, Writers, "clear")
  /\ IF request[r].kind \in Deletes THEN UNCHANGED <<cached, contested>>
     ELSE Clear(r)
  /\ To(r, IF request[r].kind = "ensure" THEN "done" ELSE "store")
  /\ UNCHANGED <<zoho, local, used, overlaps>>

\* invalidateAllItemsCache
ClearCache(r) ==
  /\ At(r, Writers, "clear")
  /\ Clear(r)
  /\ To(r, IF request[r].kind = "ensure" THEN "done" ELSE "store")
  /\ UNCHANGED <<zoho, local, used, overlaps>>

-----------------------------------------------------------------------------
(* Writing the rows *)

HasSku(sku) == {w \in Present : local[w].sku = sku}

Insert(row) ==
  \E w \in Rows : local[w] = NULL /\ local' = [local EXCEPT ![w] = row]

\* The local end of createItem.
StoreCreated(r) ==
  /\ At(r, {"create"}, "store")
  /\ IF HasSku(request[r].data.sku) = {}
     THEN Insert(request[r].data) /\ To(r, "finish")
     ELSE To(r, "failed") /\ UNCHANGED local
  /\ UNCHANGED <<zoho, used, cached, overlaps, contested>>

StoreUpdated(r) ==
  LET w == request[r].target
      new == Amended(local[w], request[r].data)
  IN  /\ At(r, {"update"}, "store")
      /\ IF local[w] # Gone /\ HasSku(new.sku) \subseteq {w}
         THEN local' = [local EXCEPT ![w] = new] /\ To(r, "finish")
         ELSE To(r, "failed") /\ UNCHANGED local
      /\ UNCHANGED <<zoho, used, cached, overlaps, contested>>

\* A row that a material refers to stays, and the ids behind it are not looked
\* at any more.  The item of the row is gone from Zoho by now.
StoreDeleted(r) ==
  LET x == request[r].target
  IN  /\ At(r, Deletes, "store")
      /\ IF x \in Rows /\ (local[x] = Gone \/ x \in used)
         THEN To(r, "failed") /\ UNCHANGED local
         ELSE /\ local' = [w \in Rows |-> IF w = x THEN Gone ELSE local[w]]
              /\ Proceed(r, x)
      /\ UNCHANGED <<zoho, used, cached, overlaps, contested>>

\* The handlers clear the cache at the end, if all went well.
Finish(r) ==
  /\ \/ At(r, Writers, "finish")
     \/ At(r, {"sync"}, "copy") /\ request[r].todo = {}
  /\ Clear(r)
  /\ To(r, "done")
  /\ UNCHANGED <<zoho, local, used, overlaps>>

-----------------------------------------------------------------------------
(* Reading the list *)

Loaders == {"search", "gap", "sync"}

\* loadAllZohoItems: the cached list, if it is not empty, or all of Zoho's.  A
\* search that gets neither scans the pages, and keeps nothing.
Load(r) ==
  LET list == cached[Own(r)]
  IN  /\ At(r, Loaders, "begun")
      /\ IF list # NULL /\ Listed(list) # {}
         THEN IF request[r].kind # "sync" THEN To(r, "done")
              ELSE request' = [request EXCEPT ![r].phase = "copy",
                     ![r].list = list, ![r].todo = Listed(list)]
         ELSE \/ request' = [request EXCEPT ![r].phase = "keep",
                                              ![r].list = zoho]
              \/ To(r, IF request[r].kind = "search" THEN "done" ELSE "failed")
      /\ UNCHANGED <<zoho, local, used, cached, overlaps, contested>>

\* The list that was read is cached.
Keep(r) ==
  /\ At(r, Loaders, "keep")
  /\ cached' = [cached EXCEPT ![Own(r)] = request[r].list]
  /\ IF request[r].kind # "sync" THEN To(r, "done")
     ELSE request' = [request EXCEPT ![r].phase = "copy",
                                     ![r].todo = Listed(request[r].list)]
  /\ UNCHANGED <<zoho, local, used, overlaps, contested>>

\* An item without a sku gets one that is made of its id.
AsRow(i, item) == [item EXCEPT !.sku = IF @ = NULL THEN i ELSE @,
                               !.stock = IF @ = NULL THEN 0 ELSE @]

\* Mutant of Upsert: a row that is there keeps its stock.
UpsertNewOnly(row) ==
  IF HasSku(row.sku) = {} THEN Insert(row) ELSE UNCHANGED local

Upsert(row) ==
  IF HasSku(row.sku) = {} THEN Insert(row)
  ELSE \E w \in HasSku(row.sku) : local' = [local EXCEPT ![w] = row]

\* syncAllItemsToLocal, one item.
Copy(r) ==
  /\ At(r, {"sync"}, "copy")
  /\ \E i \in request[r].todo :
       /\ Upsert(AsRow(i, request[r].list[i]))
       /\ request' = [request EXCEPT ![r].todo = @ \ {i}]
  /\ UNCHANGED <<zoho, used, cached, overlaps, contested>>

\* getItemInventory with sync_local: the stock of the row of that sku, or else
\* of that name.
ReadItem(r) ==
  /\ At(r, {"refresh"}, "begun")
  /\ \/ To(r, "failed")
     \/ /\ request[r].target \in Listed(zoho)
        /\ request' = [request EXCEPT ![r].phase = "settle",
                                      ![r].data = zoho[request[r].target]]
  /\ UNCHANGED <<zoho, local, used, cached, overlaps, contested>>

SettleItem(r) ==
  LET item == request[r].data
      named == {w \in Present : local[w].name = item.name}
      rows == IF HasSku(item.sku) # {} THEN HasSku(item.sku) ELSE named
  IN  /\ At(r, {"refresh"}, "settle")
      /\ IF rows = {} \/ item.stock = NULL THEN UNCHANGED local
         ELSE \E w \in rows : local' = [local EXCEPT ![w].stock = item.stock]
      /\ To(r, "done")
      /\ UNCHANGED <<zoho, used, cached, overlaps, contested>>

-----------------------------------------------------------------------------
(* addMaterial, up to the material *)

Attaching(r, w) == [request EXCEPT ![r].phase = "attach", ![r].target = w]

\* What the user gave is the id or the sku of a row, or else an id in Zoho;
\* the sku that is made of such an id is not the id.
LookUp(r) ==
  LET x == request[r].target
      rows == IF x \in Present THEN {x} ELSE IF x \in Ids THEN {} ELSE HasSku(x)
  IN  /\ At(r, {"material"}, "begun")
      /\ \/ \E w \in rows : request' = Attaching(r, w)
         \/ /\ rows = {} /\ x \in Listed(zoho)
            /\ request' = [request EXCEPT ![r].phase = "recheck",
                                          ![r].data = AsRow(x, zoho[x])]
         \/ rows = {} /\ To(r, "unknown")
      /\ UNCHANGED <<zoho, local, used, cached, overlaps, contested>>

Recheck(r) ==
  LET rows == HasSku(request[r].data.sku)
  IN  /\ At(r, {"material"}, "recheck")
      /\ \/ \E w \in rows : request' = Attaching(r, w)
         \/ rows = {} /\ To(r, "insert")
      /\ UNCHANGED <<zoho, local, used, cached, overlaps, contested>>

\* Mutant of InsertItem: what another request created is not read again.
InsertItemOnce(r) ==
  /\ At(r, {"material"}, "insert")
  /\ \/ /\ HasSku(request[r].data.sku) = {}
        /\ \E w \in Rows : /\ local[w] = NULL
                           /\ local' = [local EXCEPT ![w] = request[r].data]
                           /\ request' = Attaching(r, w)
     \/ HasSku(request[r].data.sku) # {} /\ To(r, "failed") /\ UNCHANGED local
  /\ UNCHANGED <<zoho, used, cached, overlaps, contested>>

\* The sku is unique: what another request created first is read again.
InsertItem(r) ==
  /\ At(r, {"material"}, "insert")
  /\ \/ /\ HasSku(request[r].data.sku) = {}
        /\ \E w \in Rows : /\ local[w] = NULL
                           /\ local' = [local EXCEPT ![w] = request[r].data]
                           /\ request' = Attaching(r, w)
     \/ HasSku(request[r].data.sku) # {} /\ To(r, "refetch") /\ UNCHANGED local
  /\ UNCHANGED <<zoho, used, cached, overlaps, contested>>

Refetch(r) ==
  LET rows == HasSku(request[r].data.sku)
  IN  /\ At(r, {"material"}, "refetch")
      /\ \/ \E w \in rows : request' = Attaching(r, w)
         \/ rows = {} /\ To(r, "failed")
      /\ UNCHANGED <<zoho, local, used, cached, overlaps, contested>>

\* The material refers to the row, which must be there.
Attach(r) ==
  LET w == request[r].target
  IN  /\ At(r, {"material"}, "attach")
      /\ IF w \in Present THEN used' = used \cup {w} /\ To(r, "done")
         ELSE To(r, "failed") /\ UNCHANGED used
      /\ UNCHANGED <<zoho, local, cached, overlaps, contested>>

-----------------------------------------------------------------------------

Write(r) ==
  \/ BeginUpdate(r) \/ BeginDelete(r) \/ FindService(r) \/ CallZoho(r)
  \/ ClearCache(r) \/ StoreCreated(r) \/ StoreUpdated(r) \/ StoreDeleted(r)
  \/ Finish(r)

Read(r) == Load(r) \/ Keep(r) \/ Copy(r) \/ ReadItem(r) \/ SettleItem(r)

Use(r) == LookUp(r) \/ Recheck(r) \/ InsertItem(r) \/ Refetch(r) \/ Attach(r)

Next == \E r \in Requests : Start(r) \/ Write(r) \/ Read(r) \/ Use(r)

Spec == Init /\ [][Next]_vars

-----------------------------------------------------------------------------
(* Properties *)

\* A cached list, which searches answer from and a sync copies into the table,
\* is the list in Zoho but for changes whose request is about to clear it,
\* however the requests overlap: only a lost answer, a change between the
\* reading and the caching of the list, or a change through the service of the
\* other module leaves an old one behind, until the cache is cleared again.
CacheIsCurrent ==
  \A c \in Caches :
    (/\ cached[c] # NULL /\ ~contested[c]
     /\ \A r \in Requests : At(r, Writers, "clear") => Own(r) # c)
      => /\ Listed(cached[c]) = Listed(zoho)
         /\ \A i \in Listed(zoho) : cached[c][i] = zoho[i]

\* Every save of a task makes sure that the service item of its stage is in
\* Zoho.  As long as two of these never overlap there is one item at most, also
\* when the answer that it was created is lost and the next save asks again.
OneItemPerService ==
  \A v \in Services :
    \/ Cardinality(WithSku(v)) <= 1
    \/ \E pair \in overlaps : \A r \in pair :
         request[r].kind = "ensure" /\ request[r].target = v

\* Two requests that find the same item missing from the table both get it:
\* adding a material that Zoho knows fails only when the row was deleted or
\* renamed meanwhile.
MaterialFindsItsItem ==
  \A r \in Requests :
    At(r, {"material"}, "failed")
      => \E s \in Requests : /\ {r, s} \in overlaps
                             /\ request[s].kind \in {"update"} \cup Deletes

\* A sync that nothing else overlaps, and that does not start from an old
\* list, ends with a row for every item in Zoho, as it is there.
LoneSyncCompletes ==
  \A r \in Requests :
    (/\ At(r, {"sync"}, "copy") /\ request'[r].phase = "done"
     /\ ~contested["zoho"]
     /\ \A s \in Requests \ {r} : {r, s} \notin overlaps)
    => \A i \in Listed(zoho) :
         LET row == AsRow(i, zoho[i])
         IN  \/ \E j \in Listed(zoho) \ {i} : AsRow(j, zoho[j]).sku = row.sku
             \/ \E w \in Present : local[w] = row

\* ... in every step.
LoneSyncCopies == [][LoneSyncCompletes]_vars
=============================================================================
