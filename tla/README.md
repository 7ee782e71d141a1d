# A TLA+ model of the tenant ERP

The repository is a multi-tenant ERP for metal trading: an API (`apps/api`,
Express, Drizzle, PostgreSQL with a schema per tenant, Redis), a worker
(`apps/worker`, BullMQ) and two React applications. This directory holds TLA+
modules that model the parts of it whose correctness depends on how requests
interleave and fail, TLC configurations that check them on small instances, and
TLAPS proofs of what holds for every instance.

    tlc -config SalesAny.cfg MCSalesFulfilment.tla      # model-check one run
    tlapm SettlementProofs.tla                          # check one module's proofs

## 1. Inventory

Every request of the API is one transaction (`withTenantDb`, READ COMMITTED, a
connection of a pool of 20). Components do not send each other messages: they
share tables, call each other inside one transaction, and one of them calls its
subscribers synchronously through an event bus (`common/events`), again inside
the transaction. Two things leave that frame: the caches in Redis, which change
after the commit, and the worker's scheduled job, a transaction of its own. What is hard is therefore always one of four things: a row
that is read without a lock and used later, an order of row locks, a failure
after some statements, and a derived status that nobody recomputes.

| component | state | operations | what makes it correct |
|---|---|---|---|
| lot reservation engine (`core/inventory-lots/reserve-allocate.ts`) | `stock_lots` counters, `stock_lot_reservations`, outbound `stock_movements` | reserve, release, consume | a lot is never promised or shipped beyond what was received; counters equal the sums over reservations; movements equal consumption |
| sales order lifecycle (`modules/sales/sales.service.ts`) | `sales.status` | create, approve, cancel (close is automatic) | approval reserves everything or nothing; a cancelled sale holds nothing |
| sales items and lot picks (`sales-items.service.ts`, `sales-item-lots.service.ts`) | `sales_items`, `sales_item_lots` | addItem, updateSalesItem, addLot, removeLot, link (by approve) | an open reservation is always reachable from a live pick |
| deliveries (`deliveries.service.ts`) | `deliveries`, `delivery_items` | create, confirm | a confirmed delivery shipped exactly its lines, others nothing; no more than reserved |
| document numbering (`core/numbering`, `core/provisioning/seed-number-series.ts`) | `number_series` | nextNumber, seed | unique and without gaps per series and fiscal year |
| tenant database access (`database/get-db.ts`) | connection pool | begin, commit, roll back | every request ends, its locks and its client are returned |
| purchase orders, items, receipts, bills, short-close (`modules/purchase`) | `purchases`, items, receipts, bills | issue, cancel, create, confirm, approve, short-close, reopen; close is automatic | received and billed quantities within their ceilings; the order closes exactly when it is done |
| event bus, inventory ledger | `stock_movements`, `stock_lots` | emit, subscribers | a confirmed receipt has its movements and lots, once |
| sales invoices, payments received, automatic close (`sales-invoices*`, `sales-payments-received*`, `sales-lifecycle.ts`) | `sales_invoices`, allocations, `sales.status` | create, update, approve, pay, close | never invoiced beyond delivered, never paid beyond invoiced; a finished order closes |
| purchase payments (`purchase-payments*`) | `purchase_bills.status`, allocations | pay | never paid beyond the bill; the payment that settles a bill makes it `paid` |
| clauses and their versions, promotion job (`modules/contract/clauses*`, `clause-promotion.ts`, `apps/worker`) | `clause_versions` | add, approve, promote | numbered without a gap, one version in force, a due version comes into force |
| contracts (`modules/contract/contract*`) | `contracts`, `contract_clauses` | create, add, remove, reorder, edit, resnapshot, update, approve, sign, close, revise | quotes what was in force; frozen from its approval on |
| permission and menu caches (`core/rbac`, `core/menu-engine`, `core/module-registry`) | Redis versions and entries | resolve, change, bump | a change is visible to every later request |
| landed cost allocation | none | pure functions | shares add up to the cost they share |
| provisioning, invitations, sessions | tenants, users, tokens | provision, invite, accept, refresh | a failure between two steps is repairable |
| masters, field definitions, storage, web and admin applications, ... | rows, objects, screens | one row per call, or I/O | not modelled |

`PROJECT.json` lists all forty components with their source files, and the
hazards with the line where each one bites and the properties that cover it.

## 2. What is modelled

### RowStore

One row of a PostgreSQL table under READ COMMITTED: its committed version, its
newest version and the holder of its row lock. `Seen` is what a plain `SELECT`
returns (it never waits), `Lockable` is when `SELECT ... FOR UPDATE`, `UPDATE`
and `INSERT` proceed, `Put` is what they do. Every module uses it, so that the
difference between *read* and *locked read* is the same everywhere. It models
the database as the code uses it and is external to the repository.

### SalesFulfilment

Reservation, release and consumption of lots by approvals, cancellations,
deliveries and edits of items and picks. One action per SQL statement that another
transaction can come before; reads that nothing can separate are one action
with their guard.

| action | code |
|---|---|
| `Approve`, `TransitionToApproved`, `ReserveFromLot`, `LinkReservation` | `sales.service.ts` approve 475-553, `reserveFromLot` 46-77, `updateSalesItemLot` |
| `Cancel`, `FindReservation`, `ReleaseReservation`, `TransitionToCancelled` | `sales.service.ts` cancel 563-609, `releaseReservation` 91-110 |
| `AddItem` | `sales-items.service.ts` addItem 41-91, `assertItemsEditable` in `sales.service.ts` 190-204 |
| `AddLot`, `RemoveLot`, `SoftDeletePick` | `sales-item-lots.service.ts` 87-178 |
| `CreateDelivery`, `ConfirmDelivery`, `TransitionToConfirmed`, `NextLine`, `NextReservation`, `ConsumeReservation` | `deliveries.service.ts` create 94-169, confirm 186-250, `consumeReservation` 134-187 |
| `Commit`, `Crash`, `DeadlockVictim`, and `Rollback` inside the others | `get-db.ts` 60-102 and PostgreSQL |

`lots`, `reservations`, `picks`, `sales`, `deliveries` and `movements` are the
tables, and `items` the committed rows of `sales_items`: no handler deletes
one, so an item is there from the commit of `addItem` on. Items come to
drafts and to approved sales. `tx` holds, for each request, the statement its
handler executes next and its local variables, the items that an approval read
among them (`items`): those are what `ApprovalIsAtomic` speaks of, since an item
added to an approved sale is never reserved. `consumeReservation` and `releaseReservation` read the
reservation, test it and only then lock the lot; the model keeps that order and
writes `consumed_qty` from the earlier read, as the code does.

Left out, on purpose: the key-share locks of foreign keys; the lock on the
DELIVERY series (its module is NumberSeries; without it `create` has more
interleavings here, not fewer); the five-second limit on the wait for a pool
client (a request that gives up never begins); audit rows, the credit warning,
header fields; quantities and prices of items (`updateSalesItem`); invoices and
the status `closed`. `approve` reads the items and then the picks, which is one
action here: the second asks only for the picks of the items the first one found,
so an item added between them counts as added after both, and a pick added or
removed between them as added or removed before both. A delivery has at most one line per item. Quantities are positive integers, as the guards against zero
and negative quantities ensure. Reservations of one approval have the same
`created_at`, so their order is arbitrary.

### SalesLedger

The abstract specification of the engine: reservations and two counters per
lot. Its steps reserve a set of picks, release a set, or deliver quantities, at
once; counters are *defined* as sums over reservations and never exceed what
was received. `SalesFulfilmentProperties` instantiates it with the committed
versions of the tables, so that a commit is one step of the ledger and
everything else is a stutter.

### NumberSeries

`nextNumber` statement by statement: `SelectSeries` (for update),
`ReadPriorYear`, `InsertSeries` (on conflict do nothing: it waits for an open
insert of the same key, and leaves a committed row alone), `ReselectSeries`,
then the caller's `InsertDocument`, which meets the unique index on the printed
number, and `SeedSeries`, which provisioning runs again at will. `ReadPriorYear`
takes the configuration of the latest fiscal year of any, as the code does
although its comment says *prior*. A series stands for a company, branch and
document type. The error for a `{BRANCH}` token without branch is one of the
failures `Crash` stands for.

### PurchaseReceiving

One purchase order from draft to closed; orders share no row, so one is enough.
`purchase` is the order's status, `items` its lines (quantity,
`short_closed_qty`, `line_status`), `receipts` and `bills` the statuses of its
documents, whose lines are constants, and `stock` counts how often a receipt was
booked. What was received and billed is stored nowhere: `SumReceived` and
`SumBilled` add up the documents a transaction sees, as the repositories do.

| action | code |
|---|---|
| `Issue`, `TransitionToIssued`, `Cancel`, `TransitionToCancelled` | `purchase.service.ts` 567-670, `transitionPurchaseStatus` |
| `EditItem`, `WriteItem` | `purchase-items.service.ts` addItem, updatePurchaseItem 82-218, `assertItemsEditable` |
| `CreateReceipt`, `ConfirmReceipt`, `TransitionToConfirmed`, `BookStock` | `purchase-receipts.service.ts` 94-309, `inventory-subscriber.ts` 31-98 |
| `CreateBill`, `CheckBill`, `ApproveBill`, `TransitionToApproved` | `purchase-bills.service.ts` 151-369 |
| `ShortCloseLine`, `ShortCloseAll`, `ListLines`, `SumLine`, `WriteShortClose`, `ReopenLine`, `FindLine`, `WriteReopened` | `purchase-line-shortclose.service.ts` 56-231 |
| `ListItems`, `SumReceipts`, `SumBills`, `MaybeAutoClose` | `maybeAutoCloseAfterShortClose` 20-33, `maybeAutoClosePurchase` 217-245 |

The axes (`ReceivedStatus`, `BilledStatus`, `LineStatus`, `BillableCeiling`) are
operators. The automatic close is the tail of four operations and sees what its
own transaction wrote. A read is one action with its guard where the guard
decides on that read alone; a receipt's check and its insert are one action,
since the insert waits for nobody and nobody sees it before the commit.

Left out: payments and the paid status (InvoiceSettlement has them), the paid
axis, which is only displayed, amounts, landed rates and additional costs, edits of the order's or a draft bill's header, the LME guard of `issue`,
key-share locks, and the lock on the number series that `create` takes after
its checks (it delays the insert and changes no outcome). Every request locks
in the order receipt or bill, items by `created_at`, order, so that no two
wait for each other; items are added one per transaction, so that `created_at`
orders them.

### InvoiceSettlement

Invoices, payments and the automatic close of approved sales, and payments of
supplier bills, whose code is the same but for the close. What is delivered,
invoiced and paid is stored nowhere: `SumDelivered`, `SumInvoiced` and `SumPaid`
add up the documents a transaction sees. Drafts count as invoiced.

| action | code |
|---|---|
| `Deliver` | a confirmed delivery, as one commit; SalesFulfilment has its statements |
| `CreateInvoice`, `CheckLines`, `NextNumber`, `InsertInvoice` | `sales-invoices.service.ts` create |
| `Update`, `UpdateFields` | update of an invoice and of a bill |
| `ApproveInvoice`, `TransitionToApproved` | `sales-invoices.service.ts` approve |
| `SumDeliveries`, `SumInvoices`, `MaybeAutoClose` | `sales-lifecycle.ts`, the tail of approvals and payments |
| `CancelSale`, `TransitionToCancelled` | `sales.service.ts` cancel, against deliveries and invoices |
| `Pay`, `CheckOutstanding`, `NextNumber`, `RecordPayment`, `TransitionToPaid` | `sales-payments-received.service.ts`, `purchase-payments.service.ts` create |

`series` is the row lock of a number series: it is what serializes payments of
one fiscal year *after* they have tested the outstanding amount and *before*
they take the sums that decide which documents are settled. Amounts are natural
numbers; tax, currency, dates, references and the lists of outstanding documents
are left out. The items of a sale and their quantities are constants: `addItem`
and `updateSalesItem`, which also accept an approved sale, are left out, so the
order whose close is decided is the one that was approved. `settle` holds the documents a payment still has to test for a
remainder and `recheck` the sales whose close it still has to compute; the code
walks through both in the order of the payment's lines, and so does the model
(`NextDoc`, `NextSale`).

### OpenItems

The abstract specification of the ledger: a document has a state and an amount
that is owed. It is revised only as a draft; a payment takes a part off approved
documents, at most what is owed, and the one that leaves nothing makes the
document paid. InvoiceSettlement implements it with
`owed = amount - payments committed`, so that a commit is one step.

### AccessCache

A user's permissions and menu, both computed from the databases and cached in
Redis under the user and version numbers of the company. The data are the
changes themselves: a database is the set of changes committed to it, and an
answer is the set of changes it reflects, so that *stale* can be said.

| action | code |
|---|---|
| `Write`, `Bump`, `Crash` | `rbac/mutations.ts`, `menu-engine/mutations.ts`, `setModuleEnabled`: commit, then one increment per company concerned, or the process is lost in between |
| `Begin`, `GetPermissions`, `QueryPermissions`, `SetPermissions` | `rbac/resolve.ts` resolve |
| `ReadMenuVersion`, `GetTree`, `ReadRoleVersion`, `ReadMenus`, `ReadModules`, `SetTree` | `menu-engine/resolve.ts` resolveMenuTree, with resolve inside it |
| `ExpirePermissions`, `ExpireTree` | the time to live of an entry, one hour |

Left out: which permissions and items there are and how a tree is filtered, and
a restart or an eviction of Redis that loses a version key (it would count from
0 again under entries that may still be there). Entries of versions that are no
longer current are never dropped, which only keeps more of them.

### ClauseVersions

The versions of a clause: added as drafts, approved, active from their first day
on, superseded by the next. One transaction per request, the API's and the
worker's; `LibraryInit`, `LibraryNext` and `LibrarySpec` are named so that
ContractAssembly can extend the module.

| action | code |
|---|---|
| `AddVersion`, `FindMaxVersionNumber`, `InsertVersion` | `clauses.service.ts` addVersion and the unique index on the number |
| `ApproveVersion`, `WriteApproved` | `clauses.service.ts` approveVersion |
| `FindDue`, `FindDueAfterApproval`, `FindActiveVersion`, `SupersedePrior`, `Activate` | `clause-promotion.ts` of the API and of the worker, and the partial unique index on the active version |
| `BreakDeadlock`, `Crash`, `NextDay` | PostgreSQL, a lost connection, the calendar |

`StoredNumber` and `FirstDay` are what is in the database at the start: the
number a stored version has (0 if there is none) and the day it is active from.
`StoredAssumption` and `LibraryAssumption` say that earlier requests can have
left it so: at most one version of a clause is active, a superseded one has given
way to one, what is in force has had its first day, and the numbers have no gap.

Clauses exist from the start. Deactivating a clause hides it from lists and
touches no version. `findDueApprovedVersions` has no `ORDER BY`, so the loop
takes due versions in any order.

### ContractAssembly

Contracts made of the versions that are active at the time. It extends
ClauseVersions: the library goes on by itself and contracts read its committed
rows. A line is the version its text comes from and whether the text was edited
by hand; parties and commercial fields are one value, `terms`.

| action | code |
|---|---|
| `Create`, `SnapshotClause`, `InsertClause` | `contracts.service.ts` create, `assembleFromTemplate`, `snapshotClause` |
| `AddClause`, `RunRules`, `ListClauses` | `addClause`, `addClauseFromRule`, `clause-rules.service.ts` |
| `RemoveClause`, `WriteRemoved`, `EditClauseText`, `WriteEdited` | `removeClause`, `editClauseText` |
| `Reorder`, `MoveAside`, `MoveIntoPlace` | `reorderClauses`: every line below 0, then into place |
| `Resnapshot`, `Overwrite` | `resnapshotToLatest` |
| `UpdateContract`, `WriteTerms` | `update`, and `sendForApproval`, which writes other columns the same way |
| `RunTransition`, `Transition` | `approve`, `sign`, `close` |
| `Revise` | `revise` |

The unique index on the place of a line is `SameOrder`: an insert or an update
waits for a line that another transaction is moving, and fails on one that is
there. Which clauses the rules add is a constant. A reorder turns the list
round. Left out: generated documents, e-mail, e-signatures, templates' edits.

## 3. What the runs check

| run | specification | result |
|---|---|---|
| `sales_any` | two sales, four items, of which one is added, two lots, nine requests, three open at a time, two of them possibly on one document; 614 000 states | `TypeOK`, `ChecksNeverFire`, `ShippedMatchesCounter`, `ConfirmedShipsItsLines`, `ApprovalIsAtomic` hold |
| `sales_serial` | nine requests, two at a time, never two on one sale; fair; 77 000 states | `NoOverDelivery`, `CancelledHoldsNothing`, `NoLeakedReservation`, `ImplementsLedger`, `EveryRequestEnds` hold |
| `sales_confirm_race` | as `sales_any`, two at a time | `NoOverDelivery` is violated |
| `numbering` | five requests over a rollover and a seeding; fair; 7 400 states | `TypeOK`, `Gapless`, `SeriesNeverDisappears`, `NewNumberIsUnused`, `CountersNeverReset`, `EveryRequestEnds` hold |
| `supplier_codes` | three suppliers around the end of a fiscal year | `NewNumberIsUnused` is violated |
| `purchase_any` | one item, two receipts, a bill, ten requests, two at a time; 180 000 states | `TypeOK`, `StockFollowsReceipt`, `TerminalStays` hold |
| `purchase_serial` | two items, two receipts, two bills, twelve requests, one at a time; 400 000 states | `ClosedIsDone`, `FinishedOrderIsClosed`, `ShortClosedLineCanBeReopened`, `ShortCloseCoversTheRest`, `BillingWithinCeiling`, `ReceivedItemsAreFrozen` hold |
| `purchase_two_receipts` | two receipts, four requests, one at a time | `NeverOverReceived` is violated |
| `settlement` | two sales, two deliveries, three invoices, a bill, fourteen requests, two at a time, four pairs of them never together; 206 000 states | `TypeOK`, `NeverOverInvoiced`, `FinishedSaleIsClosed`, `ClosedSaleIsDone`, `ImplementsOpenItems` hold |
| `access` | one user, a role change of the user's company and a module switched by another company, a reader of the menu and one of the permissions, each again and again; fair; 158 000 states | `TypeOK`, `TakesEffectImmediately`, `EventuallyFresh` hold |
| `clauses` | a clause with three versions over three days, five requests, the job and a reader; fair; 42 000 states | `LibraryTypeOK`, `OneInForce`, `DueIsPromoted` hold |
| `contracts` | a contract and its revision, twelve calls, two at a time, edits never with an approval, with the library changing meanwhile; 73 000 states | `TypeOK`, `QuotesWhatWasInForce`, `ApprovedHasClauses`, `ApprovedIsFrozen` hold |

**Why two sales runs.** What the locks and the CHECK constraints protect holds
however requests interleave. What `consumeReservation`, `releaseReservation`,
`cancel` and `removeLot` protect they protect by reading a row they have not
locked, and that is only right when nobody else works on the sale:
`OneWriterPerSale` says so, as an assumption of the second run and not as
something the code ensures. `sales_confirm_race` shows what happens without it.
`removeLot` and a cancellation racing a delivery that is being created break
`NoLeakedReservation` and `CancelledHoldsNothing` in the same way.

**And two purchase runs.** The same division: the compare-and-set of a status
protects stock and the terminal states however requests interleave;
every ceiling, every guard on other documents and the automatic close are
computed from rows that no handler locks, and hold when one request at a time
works on an order (`OneAtATime`, again an assumption of the run). Without it a
receipt can be created between the test and the write of a cancellation, two
bills can together exceed the ceiling, and the close can be lost. `OrderIsDone` and the sums in the properties are stated
from the tables and not with the operators the code's axes are made of.

**Findings.**

- `sales_confirm_race`: two draft deliveries ask for one and for two of two
  reserved units (drafts do not count against each other), both confirmations
  read `consumed_qty = 0`, both ship, and `consumed_qty` ends at what the second
  one wrote: three units have left on a reservation of two, at the expense of
  other sales. The comment of `consumeReservation` says the cumulative quantity
  never exceeds the reservation.
- `supplier_codes`: the counters of SUPPLIER, BROKER, CUSTOMER and CLAUSE restart
  in a new fiscal year although their patterns do not print it. The first code
  of the year exists already, the insert fails, the number is given back, and
  the next attempt gets the same code.
- `purchase_two_receipts`: a receipt is tested against the order when it is
  drafted, only confirmed receipts count, and confirming does not test again:
  two drafts that fit alone are both confirmed, and more is in stock than was
  ordered. The lifecycle document asks for a guard across all receipts.

**Settlement, contracts.** One run each, in which everything interleaves except
the pairs a constant names (`Conflicts`, `Exclusive`): those where the code
tests a row it does not lock and the test alone decides. The pairs are
assumptions of the runs. What each of them costs is in the next list; what is
left is not little: creations and payments that overlap with deliveries,
approvals, each other and crashes, where the numbering lock, the
compare-and-set and the order of the sums must do their work.

**What a theorem presupposes, an instance asserts.** Where the proofs of section
4 ask something of the documents or of the requests that may overlap, the
properties module defines it by name and the MC module states it as an `ASSUME`
(`SettleAssumption`, `SerialAssumption`, `ConAssumption`), which TLC evaluates:
each run is an instance of the theorems.

**Departures that have no run of their own.** Found while modelling; each one is
a short behaviour of the model when its constant admits it.

- `removeLot` racing an approval (`sales-item-lots.service.ts:159`): it reads a
  pick without reservation, the approval links one, the pick is deleted, and the
  capacity of the reservation is lost.
- The close of a purchase (ADR 0018, line 150: it closes whichever axis finishes
  first): the confirmation sums the bills before the bill is there, the
  approval sums the receipts before the confirmation commits, neither closes.
- Two invoices of one item created at once, or one invoice with two lines of the
  same item, charge more than was delivered; two payments at once, or two lines
  of one payment for the same document, pay more than is owed. The tests come
  before the numbering lock and do not see each other.
- Two payments dated in different fiscal years draw from different series:
  neither waits for the other, and two part payments leave the document
  `approved` although it is paid in full.
- An invoice's update that has passed its test for a draft writes after the
  approval: an approved amount changes. A cancellation has the same gap against
  the creation of a delivery or an invoice.
- An edit of a contract that has passed its test for a draft writes after the
  approval (`contract-assembly.service.ts:76`).
- `shortCloseLine` tests no status of the order
  (`purchase-line-shortclose.service.ts:123`; the comment at line 193 has closed
  orders immutable). After a line was written off and its order closed, a receipt
  that was still a draft can be confirmed; a second short-close of the line then
  writes off less, the billable ceiling rises, and the order is `closed` with
  something left to bill. `ClosedIsDone` holds when whole orders are
  short-closed (`NoLineIsShortClosed`), which is what `purchase_serial` does and
  the theorem asks.
- The stored `line_status` of a purchase item is to be refreshed by the
  confirmation of a receipt and the approval of a bill
  (`purchase-lifecycle.ts:89`). Only short-closing and reopening write it
  (`purchase-line-shortclose.service.ts:90`, `:209`). A draft receipt that is
  confirmed after its line was short-closed leaves the line stored as
  `short_closed`, while `computeLineStatus` gives `fully_received`, which is what
  `getById` shows because it computes it again; `reopenLine` goes by the stored
  one and still reopens that line. What stored and shown status have in common
  is `ShortClosedLineCanBeReopened`.
- An item, or a pick, can be added to an approved sale
  (`sales-items.service.ts:50`, `sales-item-lots.service.ts:95`), but only
  `approve` reserves: what was added is never reserved, is not deliverable, and
  the sale can no longer be approved again. `ApprovalIsAtomic` therefore speaks
  of the items that the approval read.
- `updateClauseVersion` tests no status: the second of two approvals sets an
  active or a superseded version back to `approved`, from where it is promoted
  again. `OneInForce` survives this.
- Due versions are promoted in any order, so the older one can come into force
  last, with `effective_to` before `effective_from`; ADR 0020 has the periods
  adjoin each other.
- `reorderClauses` compares the length and the membership of the ids it gets: a
  list that names one line twice passes a test that is to be an exact match.
- A process that stops between the commit and the increment of a version leaves
  the caches as they were until the entries expire (`EventuallyFresh` says they
  do).
- `getGenerationJobStatus` of an older job writes its document keys over those
  of a newer one. `revise` copies edited texts and not the mark that they were
  edited.

**Bounds.** Two sales on two lots are what a deadlock over lots and a conflict
over capacity need; two deliveries and two reservations of one item are what a
split and a double consumption need; three open transactions let a third one
act between the two sides of a race. Quantities of one and two distinguish a
whole, a part and a remainder. Each request runs at most once: a retry is
another request on the same document. In NumberSeries two fiscal years, two
series and three documents of one series cover a rollover that races another
and a seeding, with any of them failing. In PurchaseReceiving a quantity of two splits over two
receipts or two bills, of which one alone may be the whole; the item added later
has three, so that what is written off differs from what was received; one item
has all the races, because lines only meet in the sums. In `settlement` two
deliveries and two invoices finish a sale in every order, two payments share an
invoice and a bill, one pays two invoices, and the sale without deliveries is
cancelled or invoiced. In `access` one change of each way to count (one company,
all of them) and one reader of each kind meet; the user's company is not the one
that switches the module, and a change of the menu, counted like the module's,
has no instance. In `clauses` three versions let two be due at once. In
`contracts` five rows hold a contract of three lines, of which some are
removed, and its copy; calls follow each other where their order is fixed by
what they need (`CallAfter`).

**Fairness.** In the sales and numbering runs, weak fairness of the whole server:
while some request can take a step of its own, some request does. The handlers
run on an event loop that does not stop and PostgreSQL aborts a transaction of
every deadlock. Crashes are not fair. Strong fairness per request is not needed,
because requests are finite in number.

In `access`, weak fairness of every request that was begun and of the expiry of
every entry; nobody is obliged to send a request or to complete a change, and
crashes are free. Without the fairness of expiry `EventuallyFresh` fails.

In `clauses`, requests may come again and again, so fairness is per request:
strong, since PostgreSQL serves the waiters of a row lock in order while the
lock is taken and released, plus weak fairness of the deadlock detector and of
the scheduled job. `DueIsPromoted` assumes beyond that, in its statement, that
the job's connection is not lost forever.

Deadlock is checked where the requests have a `Done`. `clauses` and `contracts`
really stop, when the days are over and nothing is due, or no call is left.

## 4. What is proved

TLAPS checks every theorem for every value of the constants that satisfies the
assumptions the modules name: any number of documents, lots, users, versions and
requests, any amounts and quantities. Where a theorem needs more, it is an
`ASSUME ... PROVE` and the premise is one of the definitions below. Each is proved
from an inductive invariant; what these have in common is a part that says *who
can hold the lock of a row, at which statement, and what he has written there*.
The properties speak of committed rows only and are therefore never inductive by
themselves: what a commit publishes was written by earlier statements.

| theorem | property | premises |
|---|---|---|
| `SalesFulfilmentProofs!TypeCorrect`, `NoCheckFires` | `TypeOK`, `ChecksNeverFire` | |
| `SalesFulfilmentProofs!AtomicApproval`, `ShipsItsLines`, `ShippedCounted` | `ApprovalIsAtomic`, `ConfirmedShipsItsLines`, `ShippedMatchesCounter` | |
| `SalesFulfilmentProofs!CancelledSalesHoldNothing`, `ReservationsNeverLeak`, `NothingShippedTwice` | `CancelledHoldsNothing`, `NoLeakedReservation`, `NoOverDelivery` | `OneWriterPerSale` |
| `SalesFulfilmentProofs!LedgerImplemented` | `ImplementsLedger` | `OneWriterPerSale` |
| `NumberSeriesProofs!NumberTypes`, `NumbersAreGapless`, `SeriesStay`, `CountersOnlyGrow` | `TypeOK`, `Gapless`, `SeriesNeverDisappears`, `CountersNeverReset` | |
| `NumberSeriesProofs!FiscalNumbersNeverCollide` | `NewNumberIsUnused` | every pattern prints the fiscal year |
| `AccessProofs!VersionsCount`, `ChangesTakeEffect` | `TypeOK`, `TakesEffectImmediately` | |
| `ClauseProofs!LibraryIsNumbered`, `LibraryHasOneInForce` | `LibraryTypeOK`, `OneInForce` | |
| `ContractProofs!LinesHavePlaces`, `QuotesInForce` | `TypeOK`, `QuotesWhatWasInForce` | |
| `ContractProofs!ApprovedKeepsClauses`, `ApprovedStaysFrozen` | `ApprovedHasClauses`, `ApprovedIsFrozen` | `EditsApart` |
| `PurchaseProofs!NothingIsNegative`, `ReceiptsBookStockOnce`, `FinalStatus` | `TypeOK`, `StockFollowsReceipt`, `TerminalStays` | |
| `PurchaseProofs!FinishedOrdersClose`, `ShortClosedLinesReopen`, `ShortClosesCover`, `ReceivedItemsFreeze` | `FinishedOrderIsClosed`, `ShortClosedLineCanBeReopened`, `ShortCloseCoversTheRest`, `ReceivedItemsAreFrozen` | `OneAtATime` |
| `PurchaseProofs!BillsFitTheCeiling` | `BillingWithinCeiling` | `OneAtATime`, `OneLinePerItem` |
| `PurchaseProofs!ClosedOrdersAreDone` | `ClosedIsDone` | `OneAtATime`, `NoLineIsShortClosed` |
| `SettlementProofs!SettlementTypes` | `TypeOK` | |
| `SettlementProofs!ClosedSalesAreDone` | `ClosedSaleIsDone` | `DeliveriesFit` |
| `SettlementProofs!NeverInvoicedTwice`, `FinishedSalesAreClosed` | `NeverOverInvoiced`, `FinishedSaleIsClosed` | `InvoicesApart`, `OneLineEach` |
| `SettlementProofs!LedgerImplemented` | `ImplementsOpenItems` | `OneAllocationEach`, `OverlapsFit`, `OneSeries`, `RevisionsApart` |

**Premises.** `OneWriterPerSale`, `OneAtATime`, `EditsApart`, `InvoicesApart`,
`OneSeries` and `RevisionsApart` name the overlaps the code does not exclude and
section 3 shows to break the property. `OneLineEach`, `OneLinePerItem` and `OneAllocationEach`
exclude two lines of a document for one item, each of which is tested against the
same remainder. `OverlapsFit` is what two overlapping payments need, since each
tests the outstanding amount before it waits for the number: payments that fit
one by one fit together. `DeliveriesFit` is what SalesFulfilment ensures before
a delivery is drafted. None of them follows from the code, which is why none is
an assumption of a model.

**The arguments.**

- *Sales, the counters* (`Inv`). `ChecksNeverFire` is not inductive: that `consumed_qty <= qty`
  survives an update written from a stale read follows only from what the
  handler remembers of that read (`HandlerInv`: the quantity read plus the one
  chosen is within the reservation). `CountersInv` has both versions of every
  counter within their constraint.
- *Sales, the locks* (`LockInv`). For each of the six tables: who can hold a row's
  lock, at which statement, and with which two versions (`HeldInv`); and what a
  handler still finds as it read it (`KnowsInv`). The reservation of a pick is
  always locked together with its lot. A reservation that an approval has made is
  locked by it, and so is its sale, from the compare-and-set to the commit; every
  item that the approval read has one or is still to come (`Covered`, over the
  remembered `tx.items`, to which no later `AddItem` adds). So the commit that
  publishes `approved` publishes a reservation for every item it read
  (`ApprovedByCommit`), and a rollback none.
- *Sales, what is shipped* (`ShipInv`, then `CountInv`). `ShipOK` is the invariant
  of the two nested loops of a confirmation: the lines it is through with are
  shipped in full, of the line at hand `left` is missing, and the reservations
  still to come have shipped nothing. `CountInv` says of both versions of a lot
  that `delivered` is the sum of the movements out of it. The lot, the reservation
  and the movement that consumption writes are locked by the same transaction and
  therefore published, or dropped, together.
- *Sales, one request per sale* (`SerialInv`). The rows of a sale are locked by the
  one request that works on it (`Alone`, `PickOwned`, `ReservationOwned`), so what
  its handler has read without a lock, the picks and reservations still to handle,
  that there is no delivery, what is consumed so far, is still so when it acts
  (`ApprovalOK`, `CancellationOK`, `ReadingOK`). `PickSettled` and
  `DeliverySettled` are the two properties as they hold of the committed rows; the
  commit of a cancellation keeps them because its list is empty by then and
  contained every open reservation.
- *Sales, the books* (`BooksInv`). In both versions a reservation's `consumed` is
  the sum of its movements and a lot's `reserved` the sum of what its reservations
  still hold. A statement writes a lot, a reservation and a movement by the same
  quantity because the value it read is fresh (`ReadingOK`); a commit or a rollback
  takes the same version of all of them because a locked movement has its
  reservation locked, and that its lot, by the same transaction.
- *SalesLedger.* `BooksInv` makes the counters those that the ledger computes from
  its reservations. By `LockInv` and `ReservationOwned`, what a transaction has
  locked when it commits is either all new (`ReserveAll`, with room by the CHECK
  constraint), or all open and released (`ReleaseAll`), or all open with more
  consumed, within the quantity (`Deliver`); if it has locked no reservation, and
  at any other step, the ledger does not move.
- *Numbers.* The newest value of a series is its committed value or one more,
  held by the lock of the one transaction between its increment and its commit;
  a handler after its insert finds a row that is committed or its own.
- *Caches* (`AccessInv`). A version counts the changes whose increment it has
  seen. An entry under a version reflects at least the changes that version
  counts, because a handler reads the version *before* the database and a change
  commits before it is counted. What a request was promised, the changes that
  had returned when it began, is counted by every version it reads. The menu
  needs two versions, and the permissions inside it are asked for under a third
  reading, no older than the first.
- *Clauses* (`LibraryInv`). `PairOK`: while one version is active in the eyes of
  a transaction, another is active in the committed table only if that same
  transaction has superseded it, which is what the partial unique index and the
  wait for its undecided entries amount to. `OwedOK`: a transaction owes a
  successor to every version it superseded, and a promotion to every version in
  force that its approval has set back to `approved`; both are paid before it
  commits. Numbers have no gap because at most one insert of a clause is open
  and it carries the next number.
- *Contracts* (`AssemblyInv`). It extends the library's invariant: a version in
  force stays active or superseded in the committed table (the second approval
  pays what it owes in its own transaction), so a quotation stays valid whatever
  the library does. Two lines on one place are excluded pair by pair
  (`LinePairOK`) over both versions of both rows: a line takes the old place of
  another only if the same call has moved that. `FrozenInv` adds that while a
  contract is being approved, and from then on, nobody edits it, and it has
  clauses.
- *Purchase, any interleaving* (`PurchaseInv`). A receipt is at rest, being
  inserted or being confirmed, and in the last case its stock row is held by the
  same transaction, with what it will book.
- *Purchase, one request at a time* (`SerialInv`). Both the committed tables and
  those the one open transaction sees are `Sound`: quantities written off are
  covered and marked, a closed order is complete, a complete order is closed or
  waits for an approval. Between its last write and the commit a handler's sums
  are those of its tables (`SerialOK`), so that what it decides is what holds.
- *Settlement* (`SettlementInv`, then `SumsInv`, `ClosedInv`, `OverInv`,
  `FinishedInv`). The sums that a handler holds are lower bounds, since nothing
  that was counted is taken back; so whoever closes a sale closes a complete one.
  An invoice in the making fits what was delivered together with those that are
  there (`Fits`). A complete sale that is still approved waits for one of its
  drafts (`Pending`): the approval that has locked that draft has found, or will
  find, everything delivered, and commits with the sale closed.
- *The ledger* (`LedgerInv`). `AmountsInv`, `RevisionsInv`: only an update writes
  another amount, and of a draft. `PayersInv`: what is paid was approved, with
  the amount that the payment has read. `FitInv`: the payments that are committed
  and those that have passed their test together fit the amount (this is where
  `OverlapsFit` is needed), and a paid document is paid in full. `HoldersInv`: a
  payment from its insert on holds its series, so no other payment of its
  documents commits meanwhile (`OneSeries`). `SettlersInv`: it settles exactly
  the documents that its commit leaves without anything owed. Hence a commit is
  one step of OpenItems and every other step is none.

**Sums.** Nothing received, billed, delivered, invoiced or paid is stored, so
most of these properties compare sums over sets of rows (`MapThenSumSet`, a fold).
`SumTheorems` proves what is used of them: that the sum over a finite set exists
and is a natural number, that it is the sum without one element plus that element,
that it is monotone in the set and in the addends, and that it bounds each
addend. Induction over sets is not available to the provers with an operator
argument; the lemmas take a least counterexample over the cardinalities instead.

**Only model-checked.**

- Liveness (`EveryRequestEnds`, `EventuallyFresh`, `DueIsPromoted`): the
  provers do not handle fairness and `ENABLED`.
- The three violated properties, which are false.

## 5. Not modelled

- The web and administration applications, the shared types and schemas, the
  field defaults and the declarations of tables: data and views without a
  protocol. They are most of the repository's lines, so the share of lines the
  modules stand for stays small however much of the logic they cover.
- Parsing, validation, formatting, audit rows, lists and generic create, update
  and delete of reference data: one statement in one transaction.
- Landed cost, LME and hedge calculations: decimal arithmetic on one order, with
  unit tests of its own.
- Sessions, invitations and provisioning: protocols with failures between their
  steps (roles are assigned after the invitation was accepted and committed; a
  tenant is provisioned over several stores). They are the next to model.
- Generated documents and e-mail: a job, two columns and I/O.

## 6. Plan

1. An abstract order (ordered, received, billed, written off per line) that
   PurchaseReceiving implements one request at a time, first model-checked, then
   proved from `Sound`.
2. Invitations and provisioning: protocols of several transactions, where a
   failure between two of them must be repairable.

The modules are ordered by what they can cost: stock that is shipped twice or
lost first, numbers next, money after that, screens last.
