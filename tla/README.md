# Farmera V2 backend: TLA+ specifications

Specifications of the Farmera marketplace backend (NestJS, TypeORM on
PostgreSQL, PayOS, GHN, an EVM chain), their TLC models and their TLAPS proofs.
Source paths below are relative to `src/src/`. `PROJECT.json` maps every
definition to the lines it models, lists the runs, the hazards of the code and
the theorems.

## 1. The system

One Node process serves gRPC and REST requests and a few cron jobs. Its handlers
share no memory: they meet in PostgreSQL, and every `await` is a place where
another handler can run. Most handlers read a row, await something and write the
row by id or with `save()`, with no lock and no version column, so that *what a
handler has read may be stale when it is used* is the theme of these models.

| Component | State it keeps | Operations | What is hard | What makes it correct |
|---|---|---|---|---|
| Checkout (`modules/order/order`) | order, order_detail, payment, `product.stock_quantity` and `total_sold` | `creatBatchOders` | row locks taken in cart order, two connections for each request, every error path must roll back and release once, farms writing the same rows | no sale without stock, counters agree with the orders, no leaked lock or connection, every request is answered |
| Order fulfilment (`modules/order/order`) | order status, delivery row | farm confirms, cancels, books a shipment at GHN; GHN's webhooks; refresh from GHN; buyer's receipt | late, repeated and reordered webhooks, handlers that save what they read earlier, a shipment booked before it is stored | a status has a cause, one shipment for each order, nobody pays twice |
| Payment (`modules/payment`) | payment row shared by the orders of a batch, order code | `createPayOSPayment`, `handlePayOSCallback`, `verifySignature` | late, repeated and contradictory webhooks, a code made of the time and the id | paid only if PayOS says so, the payment completed is the one that was paid |
| Product rows (`modules/product/product`) | product status, stock, season | create, update, delete, open for sale, listings | `save()` of stale copies while checkouts run | sold quantities are not lost, only finished seasons are sold |
| Seasons, steps, logs (`modules/crop-management`) | season, season_detail, log | create and update a season, add and finish a step, add and deactivate a log, assign to a product | two overlapping requests on one season, an unconditional update by id, a `switch` that falls through | phases in order, a season ends by its last step, finished work was logged |
| Plots and crops (`crop-management/plot`, `crop`) | plot, its seasons | create, delete, `validateAddSeason` | the check precedes the INSERT, a stale season row | one open season for each plot |
| Log verification (`crop-management/verification`, `image-verification`, `auditor-profile`) | log status, `is_active`, image_hash, step score, trust record, assignments, hashes on the chain | search for copies, image score, sampling, request to auditors, their assignment, trust contract, hash, score | a verdict saved over a row read before contract calls, events that come again, pictures that cannot be fetched or annotated, wallets in two spellings | one verdict for each log, copies are reviewed, the named auditors are asked, no log is forgotten |
| Blockchain event sync (`blockchain/auditor`, `blockchain/state`) | block cursor | cron jobs every 30 s, `handleEvent` | overlapping runs, RPC failures, restart between handling and storing the cursor | each event is handled at least once, or its query failed |
| Process tracking, trust computation (`blockchain/*`) | hashes and trust records in contracts, `transaction_hash` | `addLog`, `addTempLog`, `addStep`, `processData`, the comparisons of `getLogs` and `getSeasonSteps` | failure after the transaction was sent, a row that changes after it was hashed | what is shown as verified is what was hashed |
| FTES scores (`modules/ftes`) | scores of steps, seasons, farms | nightly run, weighted means | data that changes during a run, a farm that fails, a dimension without data | every farm is scored, from what was there |
| Product QR codes (`modules/qr`) | qr status, scan_count | create, activate, verify | two first scans at once | one genuine first scan |
| Address book (`address/delivery-address`) | `is_primary` | add, update, delete | several statements, no transaction | one primary address |
| Verification codes, registration (`core/auth`, `core/twilio`) | codes, counters, accounts | send, verify, register, new password, nightly cleanup | read-modify-write of the limit, cleanup meanwhile, a code proven by one request and spent by another | limit respected, accounts of proven contacts |
| Farm registration (`modules/farm`, `modules/admin`) | farm status, certificates, identification, role, token | register, verify by biometry, certificates, approve, role, ban, login, refresh | the check precedes the transaction, whole rows saved after calls of seconds | one farm for each farmer, decisions stand |
| Users (`modules/user`) | account | create, look up, password, role, ban, lists | - | see registration and farm |
| Reviews (`modules/review`) | review, reply | create, delete, pages by cursor | rows that come and go between two pages | a walk shows every row once |
| Categories and all lists (`common/utils/pagination.util.ts`) | - | pages by limit and offset | an order that is no total order, rows that come and go | a walk at rest shows every row once |
| GHN, old addresses (`modules/address`) | GHN codes of places | sync, reset, look up; fee, shipment, detail | overlapping jobs, levels reset one by one, every kind of failure of an HTTP call | a code is of that place, a refused shipment does not exist |
| File storage (`core/file-storage`) | files on disk or in R2 | upload, delete | the third of five files fails, a restart in between | an answered URL has a file, a failed upload leaves none |
| Notifications, audit log | tables, pushes | input and output | - | - |

How they meet:

- `creatBatchOders` commits the orders and the payment, then calls
  `createPayOSPayment`; from there on the payment row belongs to PayOS's
  callbacks, to `buyerConfirmReceived` and to `createPayOSPayment`'s error path.
- `season.service` owns a product's season and its way to `OPEN_FOR_SALE`
  (`assignSeason`, `updateProductStatus`); `product.service` and the checkout
  write the same row.
- `confirmOrderDelivery` books at GHN, GHN answers and sends webhooks;
  `updateDeliveryFromGHN` asks GHN again.
- A log added to a step is later scored, sampled and verified by auditors through
  contracts; the cron jobs of `verification.service` bring requests and results
  back from the chain through `handleEvent` (`EventSync`), and its listeners save
  the verdict over the log and the score over the step (`LogVerification`) that
  `season.service` may be deactivating or finishing.

## 2. The modules

| Module | What it is |
|---|---|
| `StockLedger` | Abstract: a batch of orders is bought in one step, from a shelf that has every line of it, or not at all. |
| `Checkout` | `creatBatchOders`, one action per await, with the farms' handlers on the same product rows. |
| `CheckoutLedger` | The refinement `Checkout` => `StockLedger`, with the counters of the products. |
| `CheckoutProofs` | Proofs about `Checkout`, and that it implements `StockLedger`. |
| `OrderFulfilment` | Orders of a batch from COMMIT to receipt, with payment, PayOS, GHN. |
| `OrderFulfilmentProofs` | Proofs about `OrderFulfilment`. |
| `SeasonProgress` | A season's steps and logs, and the products sold from it. |
| `SeasonProgressProofs` | Proofs about `SeasonProgress`. |
| `AtLeastOnceQueue` | Abstract: a message leaves the queue only when it has reached its consumer or is given up, and does one of both in the end. |
| `EventSync` | `handleEvent` for one kind of contract event: cursor, runs in flight, failures, restarts; implements `AtLeastOnceQueue`. |
| `EventSyncProofs` | Proofs about `EventSync`. |
| `VerdictRecord` | Abstract: a log is judged once, and its row and its hash take over that verdict. |
| `LogVerification` | From `addLog` to the verdict, with `unactiveLog` and `finishStep`; implements `VerdictRecord`. |
| `LogVerificationProofs` | Proofs about `LogVerification`. |
| `Registration` | Codes by e-mail and SMS, registration, new passwords, the nightly cleanup. |
| `FarmOnboarding` | Farms, their identification, certificates and approval; roles, bans, tokens. |
| `QrCodes` | The QR codes of sold products. |
| `AddressBook` | Delivery addresses and which is primary. |
| `Plots` | Plots, and the seasons opened on them. |
| `OrderAmounts` | What an order costs, what it weighs, and what the courier is told to collect. |
| `PayosLinks` | Order codes, payment links and webhooks of several payments. |
| `PictureChecks` | The score of the pictures of one log, and whether auditors review it. |
| `Assignments` | Auditor profiles, and who is asked about which log. |
| `ProcessTracking` | Hashes of logs and steps, and what is shown as verified. |
| `FtesScores` | The nightly transparency scores. |
| `Reviews`, `Listings` | Reviews by cursor; every list by limit and offset. |
| `GhnLocations`, `GhnRequests` | GHN's codes of places; GHN's answers. |
| `FileStorage` | Uploads to the local disk and to R2. |
| `Services` | An instance of each of these sixteen, one for each behaviour. |
| `AccountsAnswersProofs` | Proofs about the first five of them, and about `GhnLocations`, `GhnRequests`, `PayosLinks`, `ProcessTracking`, `OrderAmounts`. |
| `ServicesProofs` | Proofs about the other six, and `TypeCorrect` of all. |
| `FiniteSums` | Induction over numbers and over the subsets of a finite set; what sums of the community modules add up to. |
| `MCServices` | A small instance of `Services` for TLC. |
| `MCCheckout`, `MCOrderFulfilment`, `MCSeasonProgress`, `MCLogVerification` | Small instances for TLC (`EventSync` has its own .cfg). |

### Checkout

A batch `b` is one request. Its `phase` is the await it is at:

| Action | Code (`order.service.ts`) |
|---|---|
| `Begin` | query runner, connect, startTransaction (takes a connection) |
| `FindAddress`, `FindFarm` | lookups through repositories, which need a **second** connection of the pool |
| `CheckItem` | one line: `SELECT ... FOR UPDATE`, status and stock checks, `productUpdates` |
| `Refuse` | `validationErrors` is not empty |
| `Commit` | payment, product updates, orders, details, COMMIT |
| `Respond` | re-reads through the pool, payment link, answer, `finally` |
| `DatabaseError`, `DeadlockVictim` | a statement throws; PostgreSQL aborts one transaction of a cycle |

`holder[p]` is the row lock of product `p`, `free` the idle connections of the
pool, `take[b]` the map `productUpdates`. Farm handlers (`edit[f]`) are
`updateProductStatus`, `updateProduct`, `assignSeason` and `deleteProduct`; their
UPDATE waits for the row lock and keeps its connection while it waits. `save()`
re-reads the row and updates the columns in which the copy differs from it
(`Changed`): a copy whose `total_sold` is stale writes it back, which the history
variable `rewound` records. Prices, weights, fees and totals are in `OrderAmounts`;
the orders' contents are left out. A line with no id or with a quantity that is not positive is
the product `None`. `PRE_ORDER` behaves as `NOT_YET_OPEN` here, and `SOLD_OUT` is
never stored. Whether the season allows opening a product is the business of
`SeasonProgress`; here a farm may always open or close one.

### OrderFulfilment

A handler in flight is a call `k`; its record holds what it has read and not
acted on yet (`ReadToCancel` ... `SaveCancelled`, `ReadToBook`, `Book`,
`CommitBooking`, and so on). Handlers that are one statement
(`farmerConfirmOrder`), or one transaction that relies on nothing it read (the
webhooks), are one action. `gateway[p]` is what PayOS has reported and may report
again at any time, `reported[c]` likewise for GHN: delay, loss, repetition and
reordering are all in the choice of which report a handler takes and when.
GHN's 22 statuses are grouped by how the program treats them; where GHN can take
a shipment is the parameter `Moves`, unconstrained in the proofs. The two reads
of `handlePayOSCallback` (payment, orders) are one. `save()` of an order that
was read without a delivery fails when the row exists by then (`Abandon`); one
committed later goes unnoticed (`SaveCancelled`). Amounts, signatures and order
codes are in `PayosLinks`: here a callback that fails those checks changes nothing,
and one that passes is about this payment. Of GHN's other webhooks UPDATE_COD is
in `OrderAmounts`, UPDATE_FEE overwrites fees that nothing reads, and UPDATE_WEIGHT does nothing.

### SeasonProgress

The crop is the parameters `Steps`, `Order`, `Repeated`, `PostHarvest`. A season
detail `d` is a row (`entry[d]` is `Null` before its INSERT). Points that follow
the code closely:

- `validateAddSeasonStep` queries `GROUP BY step_status ... LIMIT 1` with no
  ORDER BY, so which group counts as the previous step is arbitrary: `CheckStep`
  is nondeterministic there.
- `updateSeasonStatus(IN_PROGRESS)` falls through into `DONE` when the season is
  IN_PROGRESS already (`StartSeason`). That INSERT and this update are one
  action, for a trigger on season_detail updates, and so locks, the season row.
  A request whose season another one has started meanwhile gets there with a
  PENDING it read before; `overlapped` names the seasons that two requests had
  read as PENDING at once.
- `finishStep`, `handleAfterAddLogs` and `updateProductStatus` update by id what
  they have checked before; `unactiveLog`, `updateSeason`, `assignSeason` and
  `updateProduct` save the row they have read. A finished step can be reopened
  by either, and no property claims the opposite. The log and the step that
  `unactiveLog` is given need not match.
- `CANCELED` is never stored. Dates, `is_assigned` and the upload to the chain
  are left out; what verification writes to a log is in `LogVerification`,
  `createSeason` and the rule of one open season in `Plots`.

### EventSync

`handleEvent` (`auditor-registry.service.ts:182`) for one key; its five awaits
are the ops of a run:

| Action | Code |
|---|---|
| `Fire` | the cron job starts, `getState` or `this.state[key]` |
| `ReadHead`, `ReadNoHead` | `getCurrentBlockNumber` answers, or fails and returns 0; a cursor past it ends the run |
| `Query`, `QueryFails` | `getRecent...Events` answers, or fails and returns `[]` |
| `Handle` | the callback (`verification.service.ts:221`, `:284`) returns |
| `Refuse` | the callback throws, every time, for it saves all assignments of its events at once and one of them cannot be saved (`Poison`: `log_id` is a foreign key) |
| `Store` | `updateState`, or `this.state[key]` in dev mode; the cursor is the *next* block |
| `Abandon`, `Restart` | the database or the callback throws; the process stops (in dev mode the cursor starts at 0 again) |
| `Mine` | environment: a block with new events |

`@Cron` fires whether or not the last run has ended, so any number of runs
(`Runs`) may be in flight, and one that is late may set the cursor back.
"Handled" means that the callback returned: the assignments are saved, or, for
finalised events, `emit` was called; the listeners run on their own. A failed
query is not told from an empty one, so the cursor moves past what it hid:
`lost`, which is what makes the queue of `AtLeastOnceQueue` give messages up.
An event that can never be saved
keeps the cursor, and every event it was fetched with, where they are: the abstract queue promises
to empty itself only as long as no such event was posted. Reorganisations of the chain are not modelled, and the head of the chain never
goes back.

### LogVerification

A handler in flight is a call `k` again; its `op` is the await it is at.

| Op, action | Code |
|---|---|
| `AddLog` | the INSERT of `addLog`; the event carries the row as inserted |
| `check`: `CheckCopies`, `CheckFails`, `NoPicture` | `checkDuplicates`, whose failure counts as "no copy"; or no picture to check |
| `keep`: `KeepHashes` | `saveHashes`, whose failure is only logged |
| `grade`: `Skip`, `Review` | `calculateOverallScore`, the thresholds and the sampling |
| `request`: `RequestVerification` | `addTempLog`, `requestVerfication` |
| `HandleLogVerified` | the event of `EventSync`, any number of times; `getLog` |
| `judge`: `ProcessData`, `ProcessDataUnanswered` | the trust contract, which judges a log once and reverts after that |
| `save`, `anchor`, `score` | `handleTrustProcessedEventForLog`: `save(log)`, the hash on the chain, the score of the step |
| `ReadToDrop`, `DropLog` | `unactiveLog`, whose `save()` puts the step's score back as it was read |
| `ReadToSeal`, `SealStep` | the end of `finishStep`: the step is read, and hashed later |
| `Abandon`, `GiveUp` | an await throws, or the process stops |

The score of a picture is reduced to what decides: a copy is always below the
threshold of review, anything else may fall on either side. `score[s]` names the
log the score came from instead of a number. Two logs with equal trust would give
equal hashes, which only makes `CreditKept` easier to keep. Whether a step still
takes logs is `SeasonProgress`'s business; here it does so, loses them and is
finished at any time. The registry and the contracts are environment, as far as
their errors and events show in the code.

What the properties leave room for is what the code has no defence against: two
farms that use one picture at the same moment (neither search sees the other), a
log deactivated after its vote and before the save (the save brings it back), a
contract that has judged a log whose save then fails (the log stays PENDING; the
event that comes again is refused), and a step finished before its logs have their
verdicts (its hash no longer fits, and it counts as 0).

### The services of `Services`

What one of these services decides rests on no row that another of them writes, but for
accounts, whose roles and bans are in `FarmOnboarding`; so their modules are kept
apart as the services are. As above, a handler in flight is a call `k` whose record
is what it has read; statements that no transaction holds together are actions of
their own, and `Abandon`, `Fail`, `BreakOff` or `Restart` may end a handler between any two.
History variables (`overlapped`, `disturbed`, `overruled`, `putBack`, `undone`, `rescored`, `rewound`) record
what the code has no defence against: a property excuses what they name, and nothing else.

- **Registration** (`core/auth`). Twilio makes and checks the code for an e-mail address; the SMS is commented out, so
  nobody checks the one for a number and its row is APPROVED as it is inserted. `ReadForEmail`/`ReadForPhone`,
  `SendEmail`/`SendPhone` are the two halves of `sendVerification...`, `CheckCode` and `SetStatus` are `verifyEmail`.
  `checkVerify` takes any APPROVED row of the address *or* of the number a request names (`Named`, `ApprovedRow`), for a new
  account (`CheckForAccount`) and for a new password (`CheckForPassword`, where either may be absent); `Spend` deletes the row. Then
  `CheckFree`, `InsertUser` are `createUser`, and `UpdatePassword` is `updateUserPassword`, which looks for the account by the address
  if there is one, else by the number as typed, and throws when there is none, with the approval spent. A password
  is modelled by the contact whose row let it in (`by`). `Cleanup` deletes all rows at night, under whoever has read one.
  Histories: `spent`, `reused` (rows that let a request through, contacts of those that let two), `crossed` (accounts whose password
  was asked for with an address and a number). `forgotPassword` has no route, so codes are only sent to contacts without an account.
- **FarmOnboarding**. `CheckNoFarm`, `InsertFarm` are `farmRegister` with its transaction;
  `ReadForBiometric`, `CardRead`, `FaceMatched`, `SaveIdentified` are `verifyBiometric`, which saves the farm it
  read before two calls of FPT; `SaveCertificate`, `LockStatus`, `CommitStatus` the
  upload of certificates, whose status follows in another transaction; `Approve` is the
  administrator's. `refreshToken` leaves `farm_id` out of the new token, so `RolesGuard` refuses a farmer's
  routes until the next login.
- **QrCodes**. `activate` and `verify` read a row and save it whole. `createProductQr` has no caller yet, and `updateQr`
  writes an order id that the entity does not have.
- **AddressBook**. Each handler unsets, reads and sets `is_primary` in separate statements; the
  successor of a deleted primary address is any other. `getDefaultAddress` does not look at `is_primary`.
- **Plots**. `validateAddSeason` looks at the last season by start; `updateSeason` saves the row it read.
- **OrderAmounts**. `Quote` is `calculateShippingFee`, whose fee is the constant 30000 while the request for the order brings
  a fee of its own; `PlaceOrders` is `creatBatchOders` at its COMMIT, when the rows it has locked are as it read them. `Storable` says which
  numbers the columns take: a weight that is not whole is quoted, and its order then fails. `Confirm` takes prices from the details
  and weights from the products, `SaveEdit` is a save of `updateProduct` after a sale has begun. `edited` is the history that exempts
  weights and quotes. Deleting a product (which keeps its row) and GHN's own fees are left out.
- **PayosLinks**. `OrderCode` is `payment.service.ts:36` on digits: the last `Width` of those of the time with those of
  the id behind them, so ids of different lengths can meet in one code. `SignatureHolds` says which webhooks pass `verifySignature` (an optional field
  that is absent changes the signed text, and the webhook is refused), `Valid` compares status and amount.
- **PictureChecks**. One picture after the other is fetched, hashed, annotated; `OverallScore`
  is 0 when any criterion fails, and what cannot be fetched or hashed does not count. `checkDuplicates` selects
  `farm_id` only, so `duplicate_source_log_id` is never stored; unsafe content is flagged and changes no score. The web's answer counts
  matches in full and in part and pages, and says whether a best guess label names an agency (`IsStockImage`).
- **Assignments**. Seeded auditors have their wallets in checksum case, as the events have them; `registerAuditor`
  stores lower case, which no event matches, so such auditors are never asked.
- **ProcessTracking**. What is hashed is the log's or the step's selected columns (`HashedLog`, `HashedStep`); `getLogs`
  compares with the chain, `getSeasonSteps` only asks whether the chain knows the step. `verifySeasonStep` gives two ids to a
  contract function that takes one, answers 500 each time, and is left out. `unactiveLog` is a transaction:
  `ReadToUnactive` updates the log, whose row lock makes `SaveLog` and `StoreLogHash` wait, and reads the step; `UnactiveLog` saves
  that whole step, with the score it read (`updateInactiveLogNum`), and commits. `rewound` names the steps whose score it
  so put back after `finishStep` had read them, `rescored` those that got a score by a verdict after that.
- **FtesScores**. `ReadSteps`, `ReadOrders`, `SaveScore` follow one farm through `handleCalcFarmTSCron`; a farm without evidence is
  skipped and counted as failed in the audit log. A step that has one bound of days and keeps it gets
  penalty 0.
- **Reviews**, **Listings**. A walk asks for page after page while rows come, go and change. The first is by cursor, the second
  by offset, with the columns each list of the code can be sorted by; where these leave ties, PostgreSQL may
  order two pages differently, and the promise is made only for lists with `InOneOrder`.
- **GhnLocations**, **GhnRequests**. The sync jobs, level by level, against resets; names are what normalisation leaves
  of them, so two districts of one province with the same normalised name may get each other's code. The second module
  is each way out of the three HTTP calls, with the one retry of a fee (which has no live caller).
- **FileStorage**. `MoveFile`, `FailFile`, `UndoUpload` on the local disk, where the first failure takes all files back;
  `PutObject`, `PutFails` for R2, where nothing is taken back. R2's `serveFile` reads the public bucket only.

## 3. What is checked

| Run | Instance | States | Shows |
|---|---|---|---|
| `checkout` | 2 batches, 2 products, 5 carts, 1 farm handler, pool of 4 | 471,724 | types, locks and connections, no overselling but by a repeated line, refinement of `StockLedger` (a batch is bought at once from shelves that have every line, and `total_sold` counts it but for a stale save), every batch is answered |
| `one_order` | 1 order, 2 calls, 2 codes, delivery, cancellation and return | 1,201,097 | every status has its cause, nobody pays twice, the first shipment stays |
| `two_orders` | 2 orders of one payment, 2 calls, 2 codes, shipments that leave | 1,057,139 | cash settled by receipt only, pending reads stay justified, uncollected only after a sibling was received |
| `season_steps` | 1 season, 4 steps, 2 rows, 2 logs, 2 calls | 2,021,895 | phases in order, a season ends by a finished harvest unless two first steps overlapped, when one goes back to PENDING, finished work is logged |
| `season_products` | 2 seasons, 2 steps, 2 rows, 1 product, 3 calls | 646,598 | nothing is on sale with a season that was never DONE |
| `event_sync` | 3 events, one of which can never be saved, 2 runs, 2 blocks, 2 failures | 675,303 | the cursor passes nothing unhandled but what a failed query hid, events are handled twice only for a cause, refinement of `AtLeastOnceQueue` with its liveness |
| `log_verification` | 2 logs of 2 farms, 1 picture, 2 calls, 1 log that meets failures | 3,114,566 | copies are reviewed, early deactivations stay, the score fits the hash but for two causes, no log is forgotten, refinement of `VerdictRecord` |
| `services` | 16 scenes; 2 calls each (3 for QR codes), 1 to 4 rows of each table | 2,450,936 | `AccountsProven`, `FarmerHasOneFarm`, `FarmStatusJustified`, `GenuineOnce`, `OnePrimary`, `OneOpenSeason`, `AnswersKept`, `WalksComplete`, `AssignedAsRequested`, `PartialFailuresContained` (below), and the types of all |
| `cod_by_method`, `paid_orders_ship`, `ended_by_last_step`, `market_scores` | as above | - | a comment the code contradicts (section 5) |

The properties of `services` are those of its modules, each of its scene:
`AccountsProven` (Registration: no contact gets more codes than the limit; a row lets one request through; every password, first or later, was let
in by an APPROVED row of the account's own contact, or of the other one that the request named, and if that is an address Twilio had accepted its code),
`FarmerHasOneFarm` and `FarmStatusJustified` (FarmOnboarding: a decision stands until
certificates come, a pending certificate awaits one), `GenuineOnce`, `OnePrimary`,
`OneOpenSeason`, `AnswersKept` (GhnLocations: a code is of that place; GhnRequests: what was
refused was not booked; PayosLinks: the payment completed was paid; ProcessTracking: what is shown as verified was hashed so, but for a step with a score from after that or from before; OrderAmounts: the courier
collects the total of the order or nothing, and the payment is the sum of its orders),
`WalksComplete` (Listings, Reviews), `AssignedAsRequested` (Assignments) and
`PartialFailuresContained` (FileStorage, FtesScores, PictureChecks: what fails leaves the rest accounted for).

Why these bounds are enough to show something:

- **Checkout.** The carts cover one line, two lines of one order, two orders, the
  two lock orders that deadlock, one product named twice, and a line that names
  no product. Shelf 2 allows the second of two batches to fail, and a repeated
  line of 1 + 2 to sell below zero. `DeadlockVictim` fires in the run. `Shelf`
  has one value: what the farm enters need only differ from what a sale leaves.
- **Pool size.** Two batches hold two connections each at most and a farm's UPDATE
  one; at 4 one request can always go on. With `PoolSize` 2 or 3 TLC finds
  `EveryBatchAnswered` violated: the two batches hold one connection each and wait for a
  second, at 3 with the farm's UPDATE keeping the third while it waits for a row
  one of them has locked. `typeorm.config.ts` sets no size, so the driver's
  default (10) applies, and ten concurrent batches can stop one another. This is
  a bound on load that the code does not enforce; nothing in the repository
  promises otherwise, so it is documented here and not a finding.
- **Fulfilment.** Two calls are what it takes for one handler's read to become
  stale; two codes let both book a shipment; one payment with two orders is what
  makes sharing visible. These instances stop when every order is at its end
  and the calls are idle, hence `CHECK_DEADLOCK FALSE`.
- **Seasons.** The four steps are of the phases 1, 3, 4 and 5, so a phase can be
  skipped (1 to 3 is refused, unless repeated) and orders within a phase differ
  from its number. The two rows make the double first step possible; a run with
  three rows (16.5 million states) and a sequential one with four rows and three
  logs gave the same answers but take too long to repeat each time.
- **Events.** Two runs are what it takes to overlap and to set the cursor back; two
  blocks let a head become stale while a run holds it, the third event is the one that can never be saved, and two failures let one
  run lose events and another, or the process, stop before its cursor is stored.
- **Logs.** Two logs of two farms are what it takes to copy; two calls let an event
  come again while its first handler runs, and a verdict meet a deactivation or
  the end of a step. One of the logs is deactivated (`Droppable`), one step is
  finished (`Finishable`) and one log meets failures (`MaxFaults`), any number of
  times each; with no such bounds the states are beyond 19 million, and the proofs
  do without the bounds. Two logs of one step gave the same answers.
- **Services.** Two calls are what it takes to overlap; a request can be let in by the row of another contact, or of a second row of its own,
  only when there are two of them and two numbers (with one code to each: one row and two codes gave the same answers); and a third scan shows that a blocked code stays
  blocked. Three addresses leave a choice of successor; four season ids for three seasons
  let the crop's limit be reached; two districts of one name in two provinces make
  the search by name go wrong if it forgets the province; two payments with ids of one and two digits
  and equal amounts can get one code (that ids of one length never do is proved, `LinkingCodeEnds`); of three auditor profiles one is seeded;
  two orders of one batch share a product whose offers make one order fail for a half unit, or both for the size of the total. The scenes stop when the ids are used up, hence
  `CHECK_DEADLOCK FALSE`. One behaviour plays one scene, so the states add up and do not multiply.
- **Symmetry** permutes calls, codes, orders, rows, logs and phone numbers, which no
  definition tells apart; it is used only where all properties are safety.

**Fairness.** `Checkout` and `EventSync` state any. A batch whose step is enabled is run in
the end (the event loop), PostgreSQL's detector ends a deadlock after
`deadlock_timeout`, and an UPDATE that has been sent is executed when its row is
free. Farms may stop anywhere, errors need not happen, and no fairness is
assumed of buyers, PayOS or GHN. A run of the event job goes on, and a slot that
is free fires again (the scheduler, every 30 seconds); failures are bounded by
`MaxFaults`, so what a run depends on answers in the end. An event
whose callback throws every time is not such a failure: the run may meet one (`Poison`), and
the queue is then excused, which is what the code deserves.
No fairness is assumed of the chain.

Each property is also run against a changed model (operators marked `MUTANT`:
a dropped guard, a connection released twice, a lock not taken, a lost
update) that must violate it.

## 4. What is proved

The theorems hold for all values of the constants, under the named ASSUMEs of the modules (sets
disjoint from their null value, `PoolSize` positive, finite `Batches` and `Farmers`, `Order` a
function into the positive naturals, and so on).

| Module | Theorems |
|---|---|
| `CheckoutProofs` | `TypeCorrect`, `LocksReleased`, `PoolBalanced`, `OversoldByRepeat`, `LedgerImplemented` |
| `OrderFulfilmentProofs` | `TypeCorrect`, `CausedStatus`, `JustifiedCalls`, `SettledByReceipt`, `ChargedOnce`, `CollectedUnlessSiblingReceived`, `ShipmentStays` |
| `SeasonProgressProofs` | `TypeCorrect`, `PhasesInOrder`, `SeasonsEnd`, `StartsLast`, `WorkLogged`, `SoldWhenGrown` |
| `EventSyncProofs` | `TypeCorrect`, `NoneSkipped`, `HandledOnce`, `QueueImplemented` |
| `LogVerificationProofs` | `TypeCorrect`, `DropsStay`, `CopiesAreReviewed`, `CreditIsKept`, `NoneForgotten`, `RecordImplemented` |
| `AccountsAnswersProofs` | `AccountsAreProven`, `FarmersOwnOneFarm`, `StatusJustified`, `GenuineToOne`, `OneIsPrimary`, `OneSeasonIsOpen`, `AnswersAreKept` |
| `ServicesProofs` | `AssignedAsAsked`, `FailuresAreContained`, `WalksAreComplete`, `TypeCorrect` |
| `FiniteSums` | lemmas: `SubsetInduction`, `SumIsIn`, `SumOfOneMore` |

So every invariant and every action property of a passing run is a theorem. Each rests on one
inductive invariant of its module or scene, established by one lemma per action or, in
`LogVerificationProofs`, one lemma per conjunct with a step for every action.

- **Checkout.** `TypeOK` alone is not inductive: that a release never takes `free` above the pool
  needs the count of the connected handlers (`ConnectionsAccounted`). That stock goes below zero
  only through a repeated line needs more: a batch has taken only what lines before `at[b]` name
  (`AtALine`, `TakenWasNamed`), nothing before it begins (`NothingTakenBefore`), and until COMMIT it
  keeps the lock on whatever it took and finds it on the shelf, unless the cart names the product
  twice (`TakenIsLocked`); farm UPDATEs wait for that lock, so they cannot break this. And a farm's
  stale copy has negative stock only if the row had it before (`CopiesWereSeen`). For the ledger
  three more parts say what a batch is about to write: the lines behind it are of rows it has
  locked, and those are as it found them (`LinesAreHeld`); unless one was refused, `take` is the sum
  of what they ask for (`TakenAddsUp`); and it writes only at the end of the cart (`WalksTheCart`).
  A COMMIT is then a `Buy`, an UPDATE of a farm a `Manage`, and every other step a stutter.
- **OrderFulfilment.** A status is justified by history, but a handler writes what it has *read*; so
  the invariant justifies every pending record as well (`CallsJustified`, which is what makes
  `StatusHasCause` inductive), and adds that only PayOS payments have links, that codes given out
  have a history (`CodesHaveHistory`), that delivery rows name shipments of their order
  (`DeliveriesAreCarried`), and that a received order never waits for its farm again
  (`ReceivedWereConfirmed`).
- **SeasonProgress.** The `Growth` lemma states that rows, logs and the histories only ever grow;
  every property is then preserved by the steps that do not write what it talks about, and pending
  records are justified as above (`CallsJustified`, with `StatusHasRows`, `LogsHaveRows` and
  `SeasonsGivenWereDone` about the rows they read).
- **EventSync.** `NothingSkipped` is not inductive: a run stores a cursor from what it read long
  before. The invariant therefore says of each run in flight that the blocks before its first one
  are done with (`RunsStartInTime`), that it has all the events of its blocks or none
  (`EventsAreComplete`), that it stores only what was handled (`HandledBeforeStore`), and that its
  blocks exist, so no event is ever added to them (`BlocksExist`). `OneAtATime` describes the job
  while nothing has gone wrong. `QueueImplemented` is the safety part of the refinement: a `Store`
  that moves the cursor on is an `Acknowledge`, one that sets it back a `Requeue` that gives nothing
  up.
- **LogVerification.** That no other handler can undo a verdict rests on there being one: a log is
  evaluated by one handler and is skipped or requested, never both (`EvaluatedOnce`), and of all the
  handlers of its event the contract lets one through (`JudgedOnce`). A log deactivated early has no
  handler that read it before (`DroppedForGood`); whatever was skipped has left its hash where later
  searches find it (`CopiesFound`); a log without its score when `finishStep` read the step is late
  (`LateOrScored`, `CreditOrCause`); and a judged log that is still PENDING is about to be saved, or
  failed (`JudgedIsSaved`).

The services are proved scene by scene. For each there is an invariant of its module
(`RegisteringIInv` for the instance `Registering`, and so on) that holds initially and is kept by
each step of the module; `RegisteringSteps` says that in its scene a step of `Services` is one of
the module, so `RegisteringInvariant` has the invariant for all behaviours of `Services`. A property
of the run is then the conjunction over its scenes. What makes the single properties inductive (the
invariants bear the name of their scene in front, as `OnboardingOneFarm`):

- **Registration.** Who was sent a code is counted by handlers as well as by rows: what a handler
  has read is at most what was sent less what is overlapped (`RegisteringCodesCounted`), and rows keep
  their ids. A request that a row has let through knows the contact of that row and, but for overlaps, is alone with
  it (`RegisteringUsesKnown`); a row once spent is gone, and no handler in flight is going to
  save it back (`RegisteringSpentGone`), so it lets nobody in again. The APPROVED row of an *address* was accepted by
  Twilio (`RegisteringApprovedWasProven`), also while `Cleanup` deletes it under a handler; of numbers there is nothing to show.
- **FarmOnboarding.** That a farmer has *one* farm is not inductive: the role is given when an
  identity is saved, long after the check. It rests on every user's having one farm at most
  (`OneFarm`: the unique owner in the table, not the check that precedes the transaction), on an
  identified farm for every farmer (`FarmersIdentified`), and on handlers' being about farms that
  are there (`AboutFarms`). Of decisions it is shown that only the saves of stale copies, which
  `overruled` names, and new certificates change what they decided.
- **QrCodes.** While no two handlers have worked on a code, what they have read is the row as it is
  (`CopiesAreFresh`, `OneAtWork`), so the row counts the scans (`CountsAgree`).
- **AddressBook.** `OnePrimary` is not inductive: in the middle of a request there may be no primary
  address. The invariant says of each undisturbed user (`Orderly`) that one handler at most is at
  work, that its record fits what it will write (`Fits`: whoever is to insert or set a primary
  address has found or made none), and that rows change hands only to nobody (`RowsStay`). The
  requests of one user then leave one primary address whatever those of others do meanwhile: nothing
  but the `user` in each WHERE is needed for that.
- **Plots.** `validateAddSeason` looks at the *last* season only; that no earlier one is open is an
  invariant of its own (`OnlyLastOpen`), which rests on ids given out in order and on one handler
  that creates (`CreatesAlone`, `CreatesAfterLast`).
- **GhnLocations.** A job writes what it looked up long before, under a parent whose row may have
  been reset since: its record keeps to GHN's children of a right code of that parent
  (`JobsAreRight`).
- **GhnRequests.** What GHN has booked agrees with what it answered before the service makes
  anything of the answer.
- **PayosLinks.** A code in a row, or on its way there, was made up for that payment at some time
  (`CodesMadeUp`); a code ends with the digits of its id, so those of ids of one length differ
  (`LinkingCodeEnds`), and a webhook finds its own payment, or one of an id of another length.
- **ProcessTracking.** A log the contract has let through is saved by one handler only, and what is
  hashed is what is saved (`LogJudgedOnce`), as `unactiveLog` keeps the row lock until it commits; what a handler that
  ends a step has read is the row but for its score, and its score too unless a verdict or `unactiveLog` has written it since
  (`TrackingStepRescored`).
- **OrderAmounts.** The fee and the lines of an order add up to its total, totals to the payment,
  and what a handler quotes agrees with the rows it locked (`OrdersAddUp`, `BillsAddUp`,
  `QuotesHold`); the numbers stay within the columns.
- **Assignments.** Runs of the job overlap and each covers the requests from its cursor on
  (`RunsCover`); seeded profiles stay as they are, and one registration of a user is first
  (`RegistersFirst`, `OneRow`).
- **FileStorage.** The files of a call are those it has still to move and those it has moved, apart
  (`MovesApart`), and where they are is what their call has seen (`MovesSeen`, `SendsSeen`).
- **FtesScores.** Every farm of a run is still to do, at work, or has a result (`NoFarmLost`); what
  was read of it, and what was stored, is what its steps and the chain say, unless `touched` names
  the farm (`ReadIsNow`).
- **PictureChecks.** The answers of the web are all there or all dropped (`AllOrNone`), every copy
  that was looked for was compared (`CopiesCompared`), and a score other than 0 is of pictures none
  of whose tests failed (`ScoreIsOfTests`): sums over the annotated pictures, by induction.
- **Listings.** A list `InOneOrder` that nobody changes has one answer (`ListingOneAnswer`: two
  enumerations of one finite set by one strict order are the same sequence), so page after page the
  rows shown are its beginning.
- **Reviews.** By cursor the rows shown, and the rows still due behind the cursor, are together all
  that were there and stayed (`ShownSoFar`, `DueAhead`); that needs no rest, as the cursor is a
  place in the order and not a count.

What is assumed of the constants is `ServicesAssumption`, the conjunction of the ASSUMEs of the
modules. Beyond null values that are no data, it says: the limits of codes and of pages are
positive, those of scans and seasons may be 0; places have three levels (province, district, ward);
order codes are `Width` digits of a time that has as many and of ids that have no more; tables of
reviews, listed rows, pictures, orders and the lines of an order are finite, and keys and ratings
numbers; seeded profiles are of different users, as the migration has them; fees are natural
numbers. Prices may be negative or anything else an `int` holds, as nothing in the code forbids it.

Two remarks on form. Operators that a module of an INSTANCE takes from a library
(`Registering!Cardinality`, `Judging!SumFunction`) are other symbols to the prover than those of the
library; the lemmas named `...Counts`, `...Sums` and `...Orders` say that they mean the same. And
the induction theorems of the library that take an operator cannot be used here; `FiniteSums` has
induction over sets instead, from the principle that a well-founded order has minimal elements,
which is enough for sums over finite sets and for the enumerations above. The models were written so
that this is possible: sums are `SumFunction`s and never folds over sequences in a given order, the
answers of the database are all sequences of a set that keep its order (`Answers` in `Listings` and
`Reviews`), and `Level` of a place is spelt out.

Checked by TLC only: `EveryBatchAnswered` and the liveness part of `ImplementsQueue`, as fairness
and ENABLED are out of the prover's reach, and the four comments the code contradicts (section 5),
which no theorem can hold of.

## 5. Where code and comments disagree

- `cod_by_method`: the comment at `order.service.ts:984` lets the payment
  *method* decide whether the courier collects; line 987 looks at the *status* of
  the payment, which the receipt of a sibling order has completed. The second order of
  a cash-on-delivery batch then ships uncollected.
  Theorem `CollectedUnlessSiblingReceived` says that this is the only way.
- `paid_orders_ship`: the comment at `order.service.ts:986` provides for booking
  an order already paid through PayOS; the guard at 966 accepts only
  PENDING_CONFIRMATION, which the successful callback takes the order out of.
- `ended_by_last_step`: the comments at `season.service.ts:273` and `:357` say that
  the first step starts a season and the last one ends it; two requests that add
  the first step at once end it, through the fall-through at 452-461.
  Theorem `SeasonsEnd` says that this takes two steps and two requests that had both read the
  season as PENDING, or an `updateSeason` that saved a PENDING back.

- `market_scores`: the comment at `transparency.service.ts:165` takes the market dimension from the average
  review rating, and the next lines leave a dimension without data out. `average_rating` of a
  product is 0 by default and no statement of the repository writes it, so every farm that sells has a market
  score of 0, reviewed or not.

Smaller things that the models follow and no run is spent on: the penalty of a step with one bound of days that it keeps
is 0, where the comment says 1; a criterion that fails makes the score of the pictures 0, where the comment at
`image-verification.service.ts:421` speaks of weights; `registerNotificationChannel` fails
when there is a default channel (`user_preference_id` is NOT NULL and never set); two webhooks
of PayOS at once can take COMPLETED back (`undone`); and what section 2 says of single services.

## 6. Not modelled, and what is left

- **Audit log**: rows that no decision reads.
- **Notification templates and pushes**: text that leaves the system. Its lists are in `Listings`.
- **Single statements**: `createProduct`, categories, crops, plots' measurements, profiles and avatars of users and
  farms, `approveReview` (nothing reads the flag).
- **Searches and statistics** that only read: product search, farm statistics, review overview, order lists
  (their pages are in `Listings`).
- **Azure and Pinata**: one forwarded call each. **New addresses, the import of old ones**: files copied to tables at the start.
- **`verifySeasonStep`**: always answers 500 (above). **updateQr**: see QrCodes.
- **Contracts, PayOS, GHN, Twilio, FPT, Google Vision, PostgreSQL, TypeORM**: environment, as far as their answers and errors show in the code.
- Much of the source is commented out, and a fifth of the rest is generated ABIs, DTOs and module wiring.

Left for later: that the overlaps which properties excuse do occur in each scene
(a violation each, of the property without its excuse); the stock of
cancelled and failed orders, should the code come to give it back; and one model in which
`SeasonProgress` and `LogVerification` share their logs, which today meet only in the environment of each other.
