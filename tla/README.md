# TPPC Manufacturing: specification and proofs

TLA+ models of the backend of the manufacturing system (`src/backend`, NestJS,
Prisma, PostgreSQL), checked with TLC and, where it matters most, proved with
TLAPS. Paths such as `production-orders.service.ts:2134` are relative to
`src/backend/src/modules/<module>/`; `schema.prisma` is `src/backend/prisma/schema.prisma`.
`PROJECT.json` maps every definition to the lines it stands for.

## 1. The system

| Component | State | Operations | Interacts with | Hard behaviour | What makes it correct | Here |
|---|---|---|---|---|---|---|
| Production tasks and gates (`production-orders.service.ts`) | rows of `ProductOrderOperation` (one task per stage of an order), `TaskPrerequisite`, `TaskPrerequisiteOverride` | `upsertOperation` (by id, cutting, paper selection, other stage), `deleteOperation`, saving and deleting prerequisites and overrides | feeds materials, totals, notifications, the Zoho push | READ COMMITTED transactions without locks or unique keys; whole rows written back; derived status and timestamps | row invariants under races; gates; one task per stage; complete tasks follow the cutting; deletes stay in bounds | `TaskRows`, `TaskOperations` |
| Paper, sheets, materials (same service) | the selections and cuttings among those rows, `ProductOrderMaterial` | the first two stages of `upsertOperation` and `deleteOperation`, `syncPaperSelectionMaterials`, `validateCuttingOperation`, `addMaterial`, `updateMaterialUsage`, `removeMaterial` | runs inside the task transactions; feeds the totals | long sequences of linking, moving, sharing, clearing and deleting; rounded sheets at a boundary | paper is kept for selections only; no cutting beyond the sheets taken; every sheet is charged once | `PaperSheets` |
| Order totals (same service, `factory-activity.service.ts`) | `subtotal`, `labourCost`, `grandTotal` of `ProductOrder`; `FactoryWorkerActivity` | `recalcTotals` and all that call it: materials, tasks, activities, repeated orders; deleted orders | every transaction above | recomputed sums overwrite each other; activities move between orders; row locks and deadlocks; time limits | totals are those of the rows, or become so with the next change; transactions end | `ServiceCosts`, `OrderTotals` |
| Cutting and costing rules (`production-rules.ts`, `operation-services.ts`) | none | pure functions | called by tasks, previews, totals, the Zoho push | boundaries, rounding | metrics agree with the definition | `CuttingRules`, `ServiceCosts` |
| Zoho push (`zoho-sync.service.ts`, both controllers' callers) | `ProductOrder.status`, `zohoLocationId`, `quantityPushedToZoho`; units assembled at Zoho | FINISHING saves, status updates, `pushFinishingDelta`, `applyInventoryAdjustments` | Zoho Books over HTTP | read-await-write across many awaits; fire and forget; failure or restart between Zoho and the database | only the difference is pushed; the running total is true; a completed order arrives | `ZohoPush`, `PushLedger` |
| Audit log (`audit.service.ts`) | append-only `AuditLog` chained by `prevHash` | `log` and its four wrappers, `verifyChain` | called by auth and order controllers, also without await | two writers read one predecessor; equal milliseconds; commit order differs from stamp order; swallowed failures | the chain is one chain and verifies; removal is noticed | `AuditChain` |
| Sessions (`auth.service.ts`; `lib/api.ts`, `auth-store.ts`, start page and sidebar of the web client) | one refresh-token hash per user; cookies; the page's access token, `isRefreshing` and `failedQueue` | login, refresh, rotate, logout; calls, the interceptors, sign-out | users, audit | check, then replace; calls refused while refreshing; lost answers; reloads | every call ends; nobody waits for a refresh that is over; a session used alone is kept | `Sessions` |
| Inventory; Zoho catalogue (`inventory.service.ts`, `zoho.service.ts`, `zoho-sync.service.ts`) | rows of `Inventory`; the items at Zoho; the cached lists of two modules | create, update, delete, bulk delete; search; sync; `ensureOperationServiceItem`; stock refresh; the lookup of `addMaterial` | Zoho, then the database | partial failure, find-then-create, filling a cache races clearing it, lost answers | cached lists are current; one service item; added materials find their item; a sync copies | `ZohoCatalogue` |
| Order lifecycle | `ProductOrder`, legacy `Operation` rows | create, delete, bulk delete, repeat, update | notifications, cache, audit | deletes while others write | no orphaned rows, all or nothing | in `OrderTotals`, the update in `ZohoPush` |
| Zoho client and OAuth | stored tokens | refresh, paging | Zoho | concurrent refreshes | a valid token is used | not modelled |
| Response cache | cached GET answers | fill, clear | every order controller | fill races clear | answers at most one lifetime old | not modelled |
| Notifications, users, permissions, machinery, vendors, locations, reports, guards, encryption | rows of one table each | CRUD, reads | | no interplay | | not modelled |
| Pages of the web client (`src/frontend/app`) | | forms and pages | the API | presentation | | not modelled; they fix what clients send |

How they interact. All writes of an order run in interactive transactions of one
service: a save of a task computes its row (`TaskRows`, `TaskOperations`), brings the
paper and its materials in step (`PaperSheets`), and recalculates the totals
(`OrderTotals`). The modules divide that transaction by what they ask of it: the
first and the last let transactions overlap, `PaperSheets` follows long sequences of
serial ones. After the transaction the controllers start, without awaiting it, the
push (`ZohoPush`) and the service item of the stage (`ensure` in `ZohoCatalogue`), and
write the audit log (`AuditChain`).

## 2. The modules

### Tasks: `TaskRows`, `TaskOperations`, `MCTaskOperations`, `TaskOperations_proofs`

`TaskRows` is one task row and the pure rules a save applies to it, in the order
`upsertOperation` applies them: `Merge` (`resolveOperationFields`), then
`CompletionDefaults`, `AutoPartial`, `StampStatus`. `Resolve` composes them.

`TaskOperations` is the order's table of tasks and the two gate tables. A
request holds a *slot* and takes up to three steps:

| Step | Code |
|---|---|
| `UpsertById`, `UpsertCutting`, `UpsertPaperSelection`, `UpsertStage` | find the row, ask the gate, read the available quantity, compute the row (`BeginUpsert`) |
| `WriteUpsert` | the `update` or `create`: the row is locked, and the transaction reads the flow of the cutting with its own write |
| `CommitUpsert` | complete later tasks are given the flow (waiting for the locks it needs), and everything becomes visible |
| `BeginDelete`, `CommitDelete` | the status check before the transaction; the transaction |
| `RollBack` | any failure after the reads, also a crash or the sheet limit of a cutting |
| `SetPrerequisite`, `DeletePrerequisite`, `SetOverride`, `DeleteOverride` | one statement each |

With one slot requests are serial; with more they interleave as PostgreSQL's READ
COMMITTED allows. The statements inside one of these steps are taken together,
which is the one place where the model is coarser than the database.

Abstractions: the columns the rules tell apart are kept, the others are left out;
keys are never reused; a total beyond `MaxQuantity` is an integer overflow of the
column and fails the request (the guards that bound `row` and the flow). The
model's clients send what the web client sends: they leave a key out rather than
send null, and never send the timestamps, which `UpsertOperationDto` would accept
("set by the service automatically"); the timestamp invariants hold for those
clients only. The material rows and money totals
which the same transactions recompute do not feed back into the modelled columns:
they are in `PaperSheets` and `OrderTotals`. Which of several matching rows `findFirst` returns
(the one updated last, or any where the code names no order) is left open. Which unlinked cuttings match a paper is left open.

### Zoho push: `PushLedger`, `ZohoPush`, `MCZohoPush`, `ZohoPush_proofs`

A *job* is a request to update the order, or a push. Between two of its steps it
awaits the database or Zoho, and other jobs run: `BeginUpdate` (the status is read,
the location looked up), `CommitUpdate` (the write, and the comparison with the
status read before), `Check` (`pushFinishingDelta`), `Load` (the one read of the
order), `Build` (the assembly at Zoho), `Record` (the running total). `Fail` is any
error after which the job is logged and forgotten; `Crash` a restart, which forgets
all jobs; `failed` is a history variable that remembers that either happened. `bundled` counts the units assembled at Zoho and is external. An update
may leave the status out (`UNCHANGED`). Statuses other than the three named behave
like PENDING. Left out: which items, services and materials the assembly names.

`PushLedger` is what "only push the difference" promises: the total jumps from the
recorded total to a quantity that was finished, and is recorded before the next
jump. `ZohoPush` implements it under the mapping `total <- bundled`,
`recorded <- pushed` as long as jobs are serial and nothing fails.

### Audit log: `AuditChain`, `MCAuditChain`, `AuditChain_proofs`

An entry is known by its place in the order of commits; its `prevHash` is the entry
it hashes, 0 standing for `'genesis'`. A call reads the latest entry by `createdAt`
(`Begin`), inserts with the time of the insert (`Insert`: the Prisma client sends
`createdAt` with the statement), and commits (`Commit`), or is lost (`Lose`). Any
number of entries may share a millisecond (`Tick` is never forced); among equals the
database may list any order, so `verifyChain` is asked for every `Listing`. `overlap` is
a history variable: it remembers that two calls were in flight at once, so that the
serial properties can be stated of the same model. A payload is `"partial"` when a value in
it is undefined: `canonicalJson` hashes the key and the JSON column does not keep it.
The trigger of migration `20260622120000_extend_audit_log` forbids updates and
deletes; rows it backfilled are outside the model.

### Totals: `ServiceCosts`, `OrderTotals`, `MCOrderTotals`, `OrderTotals_proofs`

`ServiceCosts` says what an order costs, as a function of its rows: `ServiceTotal` is
the service line of a task (`buildOperationServiceLine`), `FactoryLabour` the labour of
the activities, `DerivedPaperCost` the paper that is charged to a task as long as no
paper is a material; `TotalsOf` is what `recalcTotals` stores. `Repeated` is what
`repeatProductionOrder` copies of a task. Amounts are integers in the scale of the
columns, and a sum over rows is the community modules' sum of a function (`TotalOver`).

`OrderTotals` has the three tables of rows as one (`row`), the orders, and the
transactions in flight:

| Step | Code |
|---|---|
| `AddMaterial`, `RemoveMaterial`, `SaveTask`, `DeleteOperation`, `CreateActivity`, `UpdateActivity`, `RemoveActivity`, `RepeatProductionOrder`, `DeleteProductionOrders` | what is read before the first write (for an activity, before the transaction) |
| `Write` | the insert, update or delete, which locks the row |
| `Sum`, `Store` | the reads of `recalcTotals`, and its update, which locks the order; for an activity once per affected order |
| `LockOrder`, `Cascade` | `productOrder.delete`, and the rows that go with it (`ON DELETE CASCADE`) |
| `Commit` | everything becomes visible |
| `Refuse`, `BreakDeadlock`, `Expire` | a row or an order that is gone; the victim of a deadlock; the time limit, a lost connection, a crash |

The locks are PostgreSQL's and external: an update of an order conflicts with updates
and deletes of it, a foreign key (`Shares`) with deletes only. `raced` and `alone` are
history: which orders two transactions in flight were about at once. Which rows a save
of paper touches is left to `PaperSheets`; here such a save would only be one more
writer of materials.

### Paper: `CuttingRules`, `PaperSheets`, `MCPaperSheets`, `PaperSheets_proofs`

`CuttingRules` is the arithmetic: `CutOuts` (by area), `SheetFraction` (rounded to
ten-thousandths), `SheetsRequired`, and the comparison with the tolerance
(`Suffices`). Lengths are in half inches, the smallest step of the sizes offered; the
code computes the same quotients with floating point, whose floor is exact for these
sizes.

`PaperSheets` is one order: its selections and cuttings (`ops`), of each of them the
rows updated after it (`newer`: every `findFirst` sorts by `updatedAt`, and `First`
takes the row that has none after it), and its materials. The
actions are the ways to save (`SaveById`, `SaveCutting`, `SaveSelection`),
`DeleteOperation` with its `Cascade`, and the three writes of materials by hand. `Sync`
is `syncPaperSelectionMaterials` and part of each save and delete, `Allowed` is
`validateCuttingOperation`, `Fits` the refusal of a cut larger than its sheet. `kept`
is history: items that were added by hand, or whose selection was saved with the item
cleared, which the code does not take for leaving it.

### Sessions: `Sessions`, `MCSessions`, `Sessions_proofs`

One user, whose row holds the hash of one refresh token; browsers with a cookie and a
page each. A token is the second it was signed in, since two tokens of a second are
the same string. A call is sent, served (`Serve`; a rotation is checked by `Serve` and
stored by `Rotate`), and received; `Lose` is a call or an answer that does not arrive.
`ReceiveRefused` is the response interceptor: it starts the refresh or queues the call;
`ReceiveRefreshGranted` and `ReceiveRefreshRefused` are the two ends of it, with
`processQueue`, after which `Unload` is the page being replaced by `/login`. `SignOut` is
the button, which tells nobody. `/auth/logout` looks for a `sub` that the guard does not
set, so it clears the cookie and not the row. `holder` and `contested` are history: whose
login or rotation was stored last, and whether two overlapped or one was lost. The
server's `/auth/rotate` has no caller in the repository; its client is external.

### Catalogue: `ZohoCatalogue`, `MCZohoCatalogue`, `ZohoCatalogue_proofs`

The items at Zoho (external, as the calls leave them), the rows of `Inventory`, and the
cached list of all items. There are *two* such caches: `InventoryModule` provides its
own `ZohoService` (`inventory.module.ts:12`; `ZohoModule` exports only the sync service),
and each module registers its own `CacheModule`. `CacheOf` says whose requests use which. A
request goes through phases, one per await:

| Kind | Steps |
|---|---|
| `create`, `update`, `delete`, `bulkDelete` | `BeginUpdate` or `BeginDelete` (the row, the search at Zoho), `CallZoho` (applied and answered, refused, or applied without an answer), `ClearCache`, `StoreCreated`, `StoreUpdated` or `StoreDeleted`, `Finish` (the controller clears its cache) |
| `ensure` | `FindService`, `CallZoho`, `ClearCache` |
| `search`, `gap`, `sync` | `Load`, `Keep` (the list is cached), for a sync then `Copy` per item and `Finish` |
| `refresh` | `ReadItem`, `SettleItem` |
| `material` | `LookUp`, `Recheck`, `InsertItem`, `Refetch`, `Attach` |

Left out: prices, the paging (the pages of a list are read at once), composite items,
the lifetime of the cache (`{ ttl }` is handed over as an object, which the cache does not take for a
number: the list does not expire).

## 3. The checks

Passing runs:

| Run | Bounds | Shows |
|---|---|---|
| `TaskSerial` | 2 tasks, cutting and packaging, quantities 0..2, 2 clock readings, 1 slot | `TypeOK`, `OneTaskPerStage`, `StartedOnce`, `CompletedFollowFlow` |
| `TaskConcurrent` | 2 tasks, 2 slots, quantities 0..1 | the four row invariants under overlapping requests |
| `TaskLinks` | 3 tasks, paper selections gating cuttings (`partial_any`, `full`, overrides), links to one task or none, 1 slot | `StartsThroughGate`, `DeletesAtMostItsCutting` |
| `TotalsRace` | 2 orders, 2 rows, 2 transactions; a printing that carries its paper, a paper material, activities of two sizes | `TypeOK`, `TotalsAgree`, `DeadlockNeedsTwoOrders`, `LoneTransactionRepairs` |
| `TotalsEnd` | the same from two orders with an activity each, fair | `Ends`: every transaction ends, deadlocks included |
| `PaperSheets` | 3 selections and cuttings, 2 papers, 1 sheet size, cuts of a quarter and of a sixth of it, an order of 9 | `TypeOK`, `PaperIsSelected`, `CutsOfSheetsTaken`, `SheetsCountOnce` |
| `PushSerial` | quantities 1..5, 1 job, no failures | `TypeOK`, `RunningTotal`, the ledger (`LedgerSpec`) |
| `PushFaults` | 2 jobs, failures, restarts | `NeverClaimsMore`, `CompletionReachesZoho` |
| `AuditLog` | 4 entries, 2 writers, 4 milliseconds, `verifyChain` takes 3 | `TypeOK`, `Rooted`, `ForksBounded`, `SerialLogIsLinear`, `SerialChainVerifies`, `RemovalIsNoticed` |
| `SessionCalls` | 1 browser, 3 calls that cover every pair of kinds, 2 seconds | `TypeOK`, `QueueIsServed`, `LoneSessionKept`, `Settles` |
| `Catalogue` | 3 requests of 10 kinds, 3 items, 2 rows, names of which one contains the other | `TypeOK`, `CacheIsCurrent`, `OneItemPerService`, `MaterialFindsItsItem`, `LoneSyncCopies` |

One run shows where the code departs from a comment (`findings` in `PROJECT.json`):
`PushTwice`, two overlapping pushes assemble the same units twice.

Departures that the models contain and that no run is spent on, because reading the
lines side by side shows them, or because a property states what is left of the promise:

- two overlapping saves both start a task, and the second start time replaces the first,
  which `production-orders.service.ts:2403` calls "never overwritten": `StartedOnce` is
  checked with serial requests;
- two overlapping first saves of a stage create two tasks (comment at 971):
  `OneTaskPerStage` likewise;
- recording a quantity on a PENDING task makes it PARTIALLY_COMPLETE after the gate was
  asked with the old status (2393; `schema.prisma:763`): `StartsThroughGate` speaks of
  the other two statuses;
- two overlapping writers fork the audit chain, and the intact log fails verification
  (`audit.service.ts:142`): `SerialChainVerifies`, `ForksBounded`;
- the threshold `percentage` never blocks (`production-orders.service.ts:2200-2222`;
  `schema.prisma:768` offers it): `GateOpen`;
- an existing override cannot be cleared by saving null (`production-orders.service.ts:3043`;
  `schema.prisma:779`): `Overridden`;
- deleting a paper selection deletes its cutting also when that is complete
  (`production-orders.service.ts:2098`; the message at 2074): `CommitDelete`;
- two overlapping changes of one order can leave totals that miss one of them, until the
  next change (`recalcTotals`): `raced` in `TotalsAgree`, `LoneTransactionRepairs`;
- a failure between the assembly (`zoho-sync.service.ts:666`) and the update (682) leaves
  the running total behind for good, so the next push assembles the units again
  (`schema.prisma:337`): `Fail` and `Crash` after `Build`; and each batch consumes the
  materials of the whole order (362), which is not modelled;
- an audit payload with an undefined value is reported as "hash mismatch — row mutated"
  (`audit.service.ts:185`, 383): `Accepts` of a `"partial"` payload;
- signing out tells the server nothing, and a logout leaves the stored hash: the refresh
  token stays good until it expires (`sidebar.tsx:57`, `auth.service.ts:128`): `SignOut`, `Serve`;
- a wrong password, answered 401, goes through the interceptor, which tries to refresh
  (`lib/api.ts:32`): `wrongPassword`;
- what the inventory pages change does not clear the list that the Zoho module has
  cached, which never expires; a later sync copies it and brings deleted rows and old
  stock back: `Outdated` in `contested`;
- the search by name takes a name that *contains* the one looked for
  (`zoho.service.ts:1322`), so an update may change another item: `WithName`.

Why the bounds are enough. The row rules read one row, the gate and one sum, so two
tasks (one cutting, one later, or two of a kind) meet every branch; the link rules need
a paper selection and two cuttings, hence three. The same three give `PaperSheets` two
selections sharing a cutting, two cuttings of a selection, and a selection that is left
for the other paper; a sixth of a sheet is rounded, seven sixths and five quarters are
more than a sheet taken, and an order of nine needs one sheet more than it fills. Races
here are between a reader and one writer: two slots, jobs, transactions or writers. Two
rows and two orders hold an activity that moves in each direction, an order that is
repeated while it changes, and a paper material beside a task that carries paper. Three
calls are one that refreshes, one that waits, and one that logs in, rotates or leaves;
with `RefreshLife` past `MaxTime` a refresh token is refused because it was replaced,
never because it expired. Three requests are a writer, a reader that caches, and one
that uses what is cached; one item at Zoho to begin with, synced or not, and two that may
be created. Two clock
readings tell "before" from "after"; quantities 0, 1, 2 tell "none", "the order's",
"more". `MaxQuantity` and `MaxClock` bound the tables, `MaxBundled` stops
new pushes once Zoho holds that much, `MaxEntries` and `MaxClock` bound the log: four
entries hold a fork with a continuation on either side, and reach beyond `Limit`.
`Contents`, `Changes`, `Amounts`, `NewItems`, `Initial` and `Kinds` bound what clients send;
`RowIds`, `Orders`, `OpIds`, `Ids`, `Rows` and `Requests` are used up, so runs with them may
stop and do not check deadlock, and neither does `SessionCalls`, whose calls are all
settled in the end. In both push runs FINISHING may be saved with more than the ordered
quantity. Symmetry is used over task ids (not in `TaskLinks` and `PaperSheets`, whose
changes name one), orders, rows, slots and writers, and never in a run with a liveness
property.

Fairness. `Spec` and `ReliableSpec` of `ZohoPush` assume weak fairness of the steps of a
job that is in flight (`Push(j)`): a promise whose database or HTTP call has been
answered is resumed by the event loop, and one that is not answered is `Fail`. Nothing
makes a client send a request, so requests are not fair, and neither are failures.
`CompletionReachesZoho` holds of orders none of whose jobs was logged as failed or lost
in a restart (`failed`), since the code never retries; under failures no more is true.
`OrderTotals` assumes strong fairness of a transaction's statements, because PostgreSQL
grants a lock in the order it was asked for, so that a transaction whose lock becomes
free again and again gets it; and weak fairness of `BreakDeadlock`, which
PostgreSQL runs after `deadlock_timeout`. The time limit (`Expire`) is not fair: `Ends` holds
without it. `Sessions` assumes weak fairness of serving and receiving a call and a
refresh: what is not answered is lost, and a loss is received as a failure. Neither the
clock nor a reload is fair. The other modules state safety only and assume no fairness.

Each passing property has a mutant: a plausible bug in a mapped definition that TLC
finds under the same configuration. Mutants stand beside the definition they change.

## 4. The proofs

Each theorem holds for all values of the constants allowed by the named assumptions
(`TaskRowsAssumption`, `TaskOperationsAssumption`, `ZohoPushAssumption`,
`AuditChainAssumption`, `SessionsAssumption`, `CatalogueAssumption`,
`ServiceCostsAssumption`, `OrderTotalsAssumption`, `PaperSheetsAssumption`), which TLC
evaluates on every run. What they ask beyond types is that a NULL is none of the values
it stands beside, that the rows of an order, the orders and the writers of the log are
finitely many, and that `Paper` are items. A theorem with a hypothesis of its own
(`ASSUME ... PROVE Spec => ...`) says so below.

Every safety invariant and every action property of a passing run is proved.

- `TaskOperations_proofs`, overlapping requests: `TypeOK` and the four row invariants for
  any number of them. None of the four is inductive: a request in flight will overwrite a
  row with one computed from an older state. The invariant `IInv` therefore says of
  every row in the table *and of every row a request is about to write* that it is
  well formed. The key lemma is that `Resolve` makes such a row from any such row, so it
  does not matter how stale the row was; the sync of the complete tasks keeps it.
- `TaskOperations_proofs`, one request at a time: `OneTaskPerStage`, `StartedOnce`,
  `StartsThroughGate`, `CompletedFollowFlow` and `DeletesAtMostItsCutting`, if any two slots
  are the same slot (`Serial`; overlapping requests break the first two, see section 3). The
  invariant is that the request in flight still knows the table as it is (`Fresh`): whether
  its task is new and the only one of its stage, when an old one started, that it may start,
  and the flow after its own write. The first four follow from what `Resolve` keeps of a
  row (`ResolveKeeps`), the last from the status that the delete has read.
- `ZohoPush_proofs`: `NeverClaimsMore` under failures, restarts and any overlap (a job
  that has assembled its difference knows that Zoho holds at least its target). If any two
  jobs are the same job and nothing fails, `ReliableSpec` implements the ledger
  (`SerialImplementsLedger`), the recorded total is Zoho's between pushes (`RunningTotal`),
  and Zoho never assembles more than was finished (`SerialPushesTheDifference`). The
  hypothesis is needed: `PushTwice` refutes the last for two jobs.
- `AuditChain_proofs`: `Rooted` for any number of writers, overlaps and equal
  milliseconds. `SerialLogIsLinear` for writers that never overlapped or shared a
  millisecond needs to know more than the chain itself: entries are committed in the order
  of their stamps (`InOrder`), and a call in flight holds the last entry (`Chained`), so
  `Latest` names exactly that entry. Then the only listing by time is the log itself
  (`StampsRise`), and `verifyChain` accepts it (`SerialChainVerifies`) and rejects it without
  one of its entries (`RemovalIsNoticed`). `ForksBounded` counts: in separate milliseconds an
  entry that is sealed is never read again, so those that have sealed an entry and those
  that are about to are together no more than the writers (`Bounded`).
- `OrderTotals_proofs`, locks: `DeadlockNeedsTwoOrders` for any number of transactions, rows
  and orders. A transaction that changes rows locks them before any order and each order once
  (`Orderly`): where nobody deletes, one that waits for an order waits for somebody who
  has recalculated one, and who waits in the same cycle for another.
- `OrderTotals_proofs`, sums: `TypeOK` (`TypeInv`, which types what each step of a transaction
  has read), `TotalsAgree` and `LoneTransactionRepairs`. A total is stored before it is true
  for others, so the invariant (`HistoryInv`) speaks of what a transaction sees, the tables
  with its own rows in place (`Seen`): the sums it has read or stored are those of that view,
  unless somebody else was about the same order (`Right`); what it wrote belongs to orders
  it recalculates (`Settled`); and two in flight never write the same row, and about the
  same order only if the history says so (`Apart`). An attempt at this
  proof found that the history was too narrow: an activity that somebody moved to a third
  order, and committed, after a transaction had read it and before it wrote it, left that
  order out of `raced` (three orders show it to TLC, two do not); `moved` of `Enter` is that
  order.
- `PaperSheets_proofs`, arithmetic: `CutOuts` is the largest number of cuts the area holds,
  `SheetsRequired` the least number of sheets that is enough; and `SheetCheckIsExact`, for
  any sheets and cuts of up to 6666 cutouts a sheet: rounding to ten-thousandths
  and allowing one of them more lets exactly the cuts through that the sheets give. Beyond
  that number a single cut is within rounding and tolerance of none.
- `PaperSheets_proofs`, state, for any number of selections, cuttings and items: every request
  saves one row, deletes one or two, or changes a material by hand (`RequestIs`), which
  divides each proof. `TypeOK` holds only with the rule that no row has a cut larger than its
  sheet (`Table`) and with the order of the updates (`InTurn`), without which there need not
  be a latest row to plan with (`FirstIsIn`). `PaperIsSelected`: an item that loses its last
  selection is the one that is synced as left, or is remembered in `kept` (`UnselectedStays`).
  `SheetsCountOnce` sums the cuttings by the selection they are linked to, and the selections
  by their item (`SumOfParts`). `CutsOfSheetsTaken` is about the moment a cutting is saved
  (`SheetCheckIsExact`) and about what later requests cannot change without updating the
  selection; its hypothesis `FewCutOuts` is that clients send no cut of which a sheet
  gives more than 6666. The sizes that the pages offer are far from it, but nothing on the server rules
  such a size out: a sheet of 36 by 48 inches gives 6912 cuts of half an inch.
- `Sessions_proofs`: `TypeOK`, `QueueIsServed` and `LoneSessionKept` for any number of
  browsers and calls. The queue is served because a call in `"renewing"` and a refresh
  come and go together, with every call that waits. The cookie of a session used alone
  is the stored hash only between its logins and rotations, so the invariant (`Kept`)
  follows the token on its way: as long as nothing is contested, whatever answer is
  under way with a token is the holder's and carries the one that was stored last, and
  the cookie is that token when there is none.
- `ZohoCatalogue_proofs`: `TypeOK`, `CacheIsCurrent`, `MaterialFindsItsItem`, `OneItemPerService`
  and `LoneSyncCopies` for any number of requests, items and rows. Each needs what a request in
  flight holds: that the list which is about to be cached is Zoho's (`ReadCurrent`); that the
  row which a request found is still there, unless a request that renames or deletes rows
  runs at the same time (`Found`, with `Overlapping`: two requests that run at the same time
  are known to); that no item has the sku which a request is about to create (`Sought`);
  that a sync which is alone has copied all it is done with (`Synced`). `OneItemPerService` has the hypothesis
  `OwnSkus`, that no user gives an item the sku of a service: the code keeps nobody from it,
  and two items with that sku would be no error of the search. `Shape` says what a request
  knows in each phase, `Goes` that a step changes no other request.

`InductionLemmas` is what these proofs need of induction. The induction theorems of the
library take an operator as a parameter, which these provers cannot instantiate, so
induction is stated over sets: a set of naturals that is not empty has a least element
(`LeastElement`), one of finite sets a smallest one (`SmallestSet`). From them it proves
what the community modules' sum of a function over a set computes: nothing for
no elements, what is left when one is taken out (`SumTakesOut`), the same for the same
values, a natural number for naturals, and the sum of its parts (`SumOfParts`).

Model-checked only: liveness (`CompletionReachesZoho`, `Ends`, `Settles`), which with ENABLED
is out of this prover's reach. 
## 5. Not modelled, and why

- The pages of the web client, the seed and the help texts, which are most of the
  repository's lines: they show and collect data. What they send fixes the changes that the
  models enumerate. Reports, lists and previews only read.
- Zoho OAuth: one row with a token pair. Two refreshes at once leave two valid access
  tokens of which one is stored; an access token that is overwritten stays good.
- The response cache of the controllers, which has the race that `CacheIsCurrent` shows
  for the list of items, and lifetimes of a minute or three.
- Notifications, users, permissions, machinery, vendors, locations: writes of one row.
- In modelled parts: what an assembly names and consumes; the tables of prices and sizes;
  what is guessed from the name of an inventory item (its sheet size is a constant of
  `PaperSheets`); the legacy `Operation` rows, which only the seed creates; completion notices.

## 6. Open work

- The materials that a batch consumes, as an addition to `ZohoPush`.
- An abstract specification of the table of tasks that serial requests implement, as the
  ledger is one of the pushes.
- The pure rules of a task (`Resolve`) have theorems about the rows they keep, none about
  being the only row that keeps what the client sent.
