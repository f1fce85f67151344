# AguaFress: a verification project

TLA+ models, TLC runs and TLAPS proofs for AguaFress: the NestJS services of
`src/MicroServices` behind a gateway, one PostgreSQL database per service (MongoDB
for the activity log), Redis for BullMQ queues and streams, Nest's TCP transport
between services; and the Angular frontend of `src/packages/frontend`, whose
facades keep state of their own while requests, timers and other tabs race.

The core is the purchase: a cliente fills a cart, sends an asynchronous
`orders.create` command, and the resulting order moves through its states.
Around it stand the delivery command, the other services, the gateway, and the
pages of a cliente. What follows first is the inventory.

## 1. Inventory

| Part | State it keeps | Operations that change it | Talks to |
|---|---|---|---|
| gateway | rate-limit windows in memory | guards, dispatch over TCP with a second attempt, enqueue of `orders.create` and `deliveries.update_status` | every service (TCP), Redis (BullMQ) |
| orders-service, command | `ORDER_COMMAND_JOB` | registerPending, transitionStatus, the attempts of the worker | Redis, its database |
| orders-service, orders | `ORDER`, `ORDER_HISTORY`, `PEDIDO_COUNTER` | checkout, status_update, confirm, cancel | usuario-service, products-service |
| orders-service, cart | `CART`, `CART_ITEM` | items_add, items_update, items_delete; the checkout deletes the cart | products-service (price, stock) |
| entregas-service | `DELIVERY`, `DELIVERY_COMMAND_JOB` | update_status through a queue, events on a Redis stream | Redis, usuario-service |
| notifications-service | activity log (MongoDB), consumer group | poll: recover pending, read new, write, ack; create over TCP | Redis |
| usuario-service | users with refresh hash, vendedores, clientes, cartera, links, QR codes, audit log | register, login, refresh, logout, change estado, invite, deactivate, join, reassign | its database, mail |
| products-service | products, categorias, marcas | create, update, remove; create, deactivate, reactivate | its database |
| frontend, session | session in localStorage, a copy in every tab | login, restore, refresh, validate, logout, storage events | gateway |
| frontend, pages of a cliente | selected vendedor, tracking ids, cards, polls, cart, catalog, list, detail | reads, edits, searches, polls and their answers | gateway |
| frontend, lists of the admin | the page shown | turn a page, retry | gateway |

What makes each part right, and what makes it hard:

- **orders.create command.** One order per command, told truthfully, however
  often the job is delivered. Hard: BullMQ delivers at least once and may run one
  job on two workers; a process can die between any two steps; the tracking row
  is moved by compare-and-set from a status *derived from the attempt number*;
  the COMPLETED update runs outside the `try` it seems to be in.
- **Order lifecycle.** Moves only along `ORDER_TRANSITIONS`, only by the seller or,
  while PENDIENTE, by the owner; the history tells the estado. Hard: checks are
  made on a read that a TCP call to another service separates from the write.
- **Cart.** One open cart per (cliente, vendedor), ordered at most once, within
  the stock. Hard: every handler reads, asks another service, and then writes.
- **entregas-service.** A command moves its delivery once and announces it
  once. Hard: an unconditional update after a read; RETRYING recorded and the job
  completed; publish after commit.
- **notifications-service.** Every event is logged once. Hard: redelivery to
  another instance, a record that cannot be stored, ack after write.
- **usuario-service.** A vendedor is first approved; one deactivation of an
  invitation succeeds. Hard: check on a read, then an unconditional update.
- **products-service.** A final price goes with its factors. Hard: it is
  computed from a row that another update may change.
- **gateway.** What a client is told is true. Hard: the second attempt on a
  timeout, while the first is still executed.
- **frontend session.** Tabs agree, and none waits for ever. Hard: refreshes,
  validations and storage events overtake each other; the refresh token rotates.
- **frontend pages.** Nobody sees or edits what belongs to the user before; the
  screen shows what was asked last, and comes to rest. Hard: answers in any order, sessions
  replaced by another tab at any moment.
- **lists.** A walk through the pages shows the whole scope and nothing else.
  Hard: rows and count are two queries, and rows are created between them.

`PROJECT.json` lists under "hazards" each of these at its line, with the
properties that cover it or why none does.

## 2. Modules

| Module | Models | Checked by | Proved in |
|---|---|---|---|
| `CommandOutcome` | abstract: what a command promises its cliente | property of `order_command` | `OrderCommandProofs` |
| `OrderCommand` | queue, workers, tracking row, checkout, faults | `MCOrderCommand`, five configurations | `OrderCommandProofs` |
| `OrderTrail` | abstract: one allowed step at a time | property of `backend` | `OrderLifecycleProofs` |
| `OrderLifecycle` | requests on placed orders | `MCBackend` | `OrderLifecycleProofs` |
| `Cart` | the carts of one cliente with one vendedor | `MCBackend`; itself, for `cart_stock` | `CartProofs` |
| `Deliveries` | the `deliveries.update_status` command: queue, tracking row, delivery, events | `MCBackend`; `MCDeliveries`, two configurations | `DeliveriesProofs` |
| `Gateway` | guards, resolution, provider validation, attempts, enqueue | `MCServices` | `ServicesProofs` |
| `Usuarios` | vendedores, invitations, clientes, cartera | `MCServices` | `ServicesProofs` |
| `Catalog` | products, categorias, marcas | `MCServices` | `ServicesProofs` |
| `ActivityLog` | the consumer group and the log | `MCServices` | `ServicesProofs` |
| `Lecturas` | the reads of every service, page by page | `MCServices` | `LecturasProofs` |
| `Sesion` | the session in the tabs, and its refresh token on the server | `MCServices`; `MCSesion`, two configurations | `FrontendProofs` |
| `Identity` | who is signed in, as the pages of one tab see it | with the next three | — |
| `Pedidos` | submission, tracking ids, polls and cards of asynchronous orders | `MCServices` | `FrontendProofs` |
| `CartScreen` | home and cart page | `MCServices` | `FrontendProofs` |
| `Consultas` | catalog, list of orders, order detail | `MCServices` | `FrontendProofs` |

### OrderCommand

State: `job` is the BullMQ job of each command in Redis (state, payload,
`attemptsMade`, stalls, lock); `row` its `ORDER_COMMAND_JOB` row; `run` what each
worker slot does, with the attempt it holds; `cart` the id of each cliente's active
cart; `orders` the ORDER rows; `counter` the vendedor's `PEDIDO_COUNTER`. A command
stands for a (cliente, vendedor, idempotency key): the gateway derives job id and
tracking id from these three, so a command has one of each.

An attempt of `OrderCreateJobProcessor.process` is a walk of `run[w].pc`:

| pc | Code | Action |
|---|---|---|
| register | `registerPending`, only if `attemptsMade` is 0 | `Register` |
| claim | compare-and-set PENDING or RETRYING → PROCESSING | `Claim` |
| checkout | parse the body, find the active cart | `Checkout` |
| validate | ask products-service for each item | `Validate` |
| commit | counter, order, items, history, delete of the cart | `Commit` |
| complete | compare-and-set PROCESSING → COMPLETED | `Complete` |
| rejected, failed | `handleFailure` with a terminal or a retryable error | `HandleFailure` |
| returned, threw, unrecoverable | BullMQ books the result | `Settle` |

A statement that awaits the database is one step; between steps every other
slot runs. The faults are separate actions, enabled by the constant `Faults`:

| Fault | Action | What happens |
|---|---|---|
| crash | `Crash` | the process dies; the job stays active until it is found stalled |
| stall | `FalseStall` | the lock expires while the worker still runs: two run one job |
| db | `DbError` | a query fails and changes nothing |
| reread | `RereadError` | an update happens and the read that follows it fails |
| ack | `CommitAckLost` | the checkout commits, and the worker sees an error |
| redis | `RedisLoss` | all jobs are gone (the Redis service has no volume) |

Outside `src/`, hence external: how BullMQ (5.x) takes, locks, retries, stalls and
prunes jobs. In the model `attemptsMade` counts attempts that ended (a stalled
attempt does not count), only the owner of a lock may book a result, `add()` under
an existing id changes nothing, a job that stalled more than `MaxStalls` times is
failed. Some 5.x releases refuse a custom job id with more than two colons, and
`buildOrdersCreateJobId` builds one with three; the model assumes that `add()`
accepts it, as the gateway's own tests (with a mocked queue) do.

Abstractions: one vendedor; a cart is its id (its contents are in `Cart`); carts
do not expire here, a cliente without a cart standing for both cases; money,
addresses and items are not kept; back-off is a nondeterministic delay; a payload is
a model value, two payloads being equal when their hashes are; the answer of
products-service is chosen freely.

### OrderLifecycle

`estado` and `history` are the rows, `req` the requests in flight: `RequestStatus`
reads the order, `Authorise` is the answer of usuario-service followed by
`assertOrderTransition` on the estado *that was read*, `Write` the transaction with
its compare-and-set and its history row, `WriteMissed` its failure.
`RequestCancel` checks at once, as `cancelOwnOrder` does. `confirm` is
`RequestStatus` with CONFIRMADO. `VENCIDO` is in the table of transitions and no code
moves an order to it, so no state of the model has it. The author of a history row
(`by`) is not a column: it is kept for the properties.

### Cart

`cart` holds CART with CART_ITEM rows, `op` the requests in flight with what each has
read. The read-ask-write structure of the handlers is kept step by step:
`BeginAdd`–`Locate`–(`Create`)–`Add`, `BeginUpdate`–`Price`–`Replace`,
`BeginDelete`–`Delete`, `BeginCheckout`–`Validate`–`PlaceOrder`. `Tick` lets carts
expire, `SetStock` lets the vendedor change the stock. The database runs at its
default isolation, so the checkout keeps what it read but writes onto what is
there.

### Deliveries

`job`, `row` and `run` are as in `OrderCommand`, `delivery` is the delivery's estado,
`stream` the Redis stream of the events. An attempt of
`DeliveryStatusUpdateProcessor.process` is `Register` – `Begin` – `Read` –
`WriteEstado` – `Announce` – `PublishChanged` – `Finish`, or `Fail` from the catch block, and
`Settle` by BullMQ. Three things differ from orders.create, and the model keeps them:
the tracking row is registered by *every* attempt, so that its unique keys admit only the
first; tracking row and delivery are updated by id alone (`transitionStatus`
ignores the status it is told to expect); the catch block returns, so that
a failure recorded as RETRYING completes the job and nothing retries it. The module
therefore has no liveness property: a crash or such a failure leaves a
row that nobody moves on. Of the failure the documents say otherwise: retries, backoff and a
dead letter (`SPEC.md:136`, `readme.md:105`, the comments of `delivery-failure-classifier.ts`,
the retry re-entry in the tests of the tracking service). `RetryingIsRetried` states what they
say, and `deliveries_retry` shows what happens instead. `TypeOK` makes no use of it: it
allows the row every status and count that `classifyDeliveryJobFailure` can give.

`moves` counts the writes of each command, for the properties only. Abstractions:
the fields of the events beyond type and command are not kept; an estado outside
the enum, which the gateway does not refuse, fails the insert of the row and is not
enumerated; nothing in the repository creates `DELIVERY` rows, so the model starts
with them, and their `vendedor_id` is taken to be the id that the gateway sends
(the `sub` of the token). The reads of the service resolve the VENDEDOR profile first, so
a row found by them may be refused by the command; which id the column holds is decided
by no code.

### Gateway

`request` is the handler of each HTTP request, `command` what it sent: one entry per
attempt, "unsent", "sent", "done" or "refused". `Admit` is the four guards in
their order, `Receive` the handler up to the provider check, `Validate` that check,
then `Enqueue`, or `Send` and `TcpTimeout` of `sendWithRetry`. `Execute` is the
service, which executes whatever reaches it, however late. `Mappings` are the
combinations of flags that `ACTION_REGISTRY` has. The windows of the rate limits are
left open: a request they count may be throttled.

### Usuarios and Catalog

Handlers are split where another handler may run between their check and their
write, and `handler` (`call`) holds what was read. Writes whose check cannot become
false (an account that exists, a vendedor that exists) are one step. In `Usuarios`
an email stands for the account registered under it, and QR codes and links are
both invitations; a link may register several clientes when their registrations
overlap, because nothing is compared again after the first look, and no property denies
it. In `Catalog` a final price is the pair of numbers it was computed from,
and `torn` records the products of which two updates overlapped: the transaction of an
update runs at READ COMMITTED and locks nothing it reads.

### ActivityLog

`kind` is what each entry of the stream holds, `group` its state in the consumer
group, `worker` the poll of each instance or a TCP request (its batch is a set of entries,
taken lowest first, as the stream delivers them), `rows` how many logs have each
dedupeKey. `Recover`, `ReadNew`, `Find`, `Create`, `Ack` are `pollOnce`, an entry at
a time; `Refuse` is a record that `create()` refuses, which takes the rest of its
batch down; `Die` any other failure, each of which ends the process (a poll that
rejects is an unhandled rejection) until it is restarted. Redis streams are external:
an entry that was delivered stays pending until it is acknowledged and may be claimed
after a minute. The `event` field that the parser looks for is not among the fields that
entregas-service publishes (`delivery-event-publisher.redis.ts:16`): such entries
are "malformed" ones of the model, never logged and never acknowledged.

### Lecturas

One reader, and one table that stands for any of the families of rows: `Rows` in the order
in which they are created, of which `created` exist. Lists are sorted newest first (those of
entregas-service oldest first), so the place of a row in a scope (`Place`) is the number of
newer (older) rows that the scope selects. A request
is `Resolve` (role and scope), then for a list `FindMany` and `CountRows` in any order,
or in sequence where the code has `$transaction([...])`, then `ListAnswered`; `FindOne` and
`UpdateRow` for one row. The page buttons of the list page (`NextPage`,
`PreviousPage`, `RetryPage`) make it a walk. Meanwhile rows are created, related to
vendedores and withdrawn. `must` and `seen` record what the walk should show and has
shown; `shifted` and `outdated` the two disturbances against which two queries and an
offset can do nothing.

### Sesion

`stored` is localStorage, `tab[t].session` a tab's own copy; writing tells the other
tabs by `event`, delivered some time later by `StorageEvent`, which reads what is
stored *then*. A restore goes through the phases refresh – verified – renewed –
profile: `Verify` and `Rotate` are the comparison and the later update of
`refresh_token_hash` in usuario-service, `Refreshed`, `RefreshFailed` and
`ProfileAnswered` what the frontend does with the answers, each guarded by whether
the session is still the one it was asked for. A reload, a storage event or
a 401 may come at any point. A refresh token stands for its principal and its login.

### Identity, Pedidos, CartScreen, Consultas

`Identity` has what the pages read of the session: `user`, `ready`, and the open
`page`. Its operators are conjuncts of the pages' own actions, which say what they
do about each: `ReplacedBy` (another tab installed a session), `Restored`,
`SignedOut`. A facade's request counter (`requestId`, `mutationToken`) is modelled by what it
decides: an answer that the counter makes stale is dropped when the counter
moves. `Pedidos` takes what the server reports from a job that moves as
`CommandOutcome` allows; that the tracking row of `OrderCommand` moves in just this way is
proved there (`ReportsProgress`). `CartScreen` keeps versions of a cart where the code has carts, one
for each cliente and vendedor, and `acked` the newest one an edit was answered with. The selected
vendedor is in localStorage under a key of the user and is read again by every load and every
edit, so another tab changes it under an open page (`SelectElsewhere`): a load then brings the
other vendedor's cart, also while an edit is in flight, and an edit of the cart still shown sends
the cliente home (`SameVendedor`). `Consultas` remembers with each answer
what was asked. The pages are Angular components: what they subscribe to ends
with them (`takeUntilDestroyed`), so `Leave`, `LeavePage` and `ClosePage` drop it.

### MCBackend, MCDeliveries

`Cart`, `OrderLifecycle` and `Deliveries` share no variable. `MCBackend` checks them side by side:
the variable `part` names the one that moves in a behaviour, so that the state space is the sum,
not the product. The slots of the three are the same model values, so that one permutation
renames all of them. `MCDeliveries` has the constants of `Deliveries` and is extended by `MCBackend`.

### MCServices, MCSesion

The nine modules from `Gateway` on share nothing but `Identity`, which each page
uses for itself. `MCServices` checks them side by side in the same way. The theorems of
`PartsProofs` are about this same composition. `MCSesion` adds to `Sesion` a history variable, for `session_reload`, and
states what the comments of `AuthService` say of a restored session.

## 3. Runs

| Run | Expect | What it shows |
|---|---|---|
| `order_command` | pass | faults crash, stall, db, reread: one order, the registered body, a truthful and final row, and the abstract command implemented |
| `order_command_books` | pass | faults crash, db, ack, redis: exclusive claim, one order per cart, order numbers without gaps |
| `order_command_live` | pass | without faults every waiting command is settled |
| `order_command_lost` | violation | one database error before the claim: never settled |
| `order_command_redis` | violation | after a Redis loss a refused payload is executed |
| `backend` | pass | carts, placed orders, and deliveries under the faults crash, stall and error, see below |
| `cart_stock` | violation | two adds at a time exceed a constant stock |
| `deliveries_race` | violation | without faults, a delivered delivery goes back to en_camino |
| `deliveries_retry` | violation | one failed query: the row says RETRYING, the job is completed, nothing retries it |
| `services` | pass | the other services, the gateway and the frontend, whose session and selection other tabs change, see below |
| `session_overwrite` | violation | a refresh answered between a logout in another tab and its storage event stores the session again |
| `session_reload` | violation | login, reload, reload: the second refresh is refused, because the service rotated the refresh token and the frontend kept the old one |

The properties of `backend`:

| Property | Part | Says |
|---|---|---|
| `OneOpenCart` | Cart | at most one active cart that is not expired |
| `OrderedOnce` | Cart | a cart becomes one order at most |
| `UpdateNeverResurrects` | Cart | an update brings no deleted item back |
| `AddNeverLowers` | Cart | an add does not undo another one |
| `HistoryTellsEstado` | OrderLifecycle | the last history row is the estado |
| `ConfirmedBeatsCliente` | OrderLifecycle | a cliente's cancel never lands on a confirmed order |
| `ImplementsOrderTrail` | OrderLifecycle | racing requests implement one allowed step at a time |
| `ActsOnce` | Deliveries | a command moves and announces its delivery at most once |
| `TruthfulReport` | Deliveries | COMPLETED and FAILED rows say what happened |

The properties of `services`:

| Property | Part | Says |
|---|---|---|
| `TabsAgree` | Sesion | a tab with no event to deliver holds what the browser stores |
| `ReadySettles` | Sesion | no tab waits for ever for a restore |
| `OwnOrdersOnly` | Pedidos | a user stores, sees and polls only own orders |
| `TrackedUntilSettled` | Pedidos | an accepted order is followed until its end is known |
| `OwnCartOnly` | CartScreen | the cart on the screen is that of who is signed in, and an edit whose answer will be shown is one of that cart |
| `ScreenCatchesUp` | CartScreen | a screen at rest is not older than an edit of its cart that was answered |
| `ScreenSettles` | CartScreen | no lock and no spinner stays |
| `ShownAsAsked` | Consultas | what is shown is what was asked last, by who is signed in |
| `NobodyWaits` | Consultas | no superseded request leaves a spinner |
| `ApprovedFirst` | Usuarios | pendiente is left for activo only, and for good |
| `DeactivatedOnce` | Usuarios | one deactivation of an invitation succeeds and is audited |
| `FinalPriceIsCurrent` | Catalog | the final price goes with price and percentage, unless updates overlapped |
| `LoggedOnce` | ActivityLog | one log per key, none missing for an acknowledged event |
| `LogCatchesUp` | ActivityLog | every event is logged in the end, unless some entry is refused |
| `AnswersAreTrue` | Gateway | what a client is told stays true |
| `WalkShowsTheScope` | Lecturas | a walk shows the scope, all of it and nothing else |

Bounds and why they are enough. *order_command*: two commands of one cliente, so
that they compete for one cart; two slots, the least that let one job run twice;
two attempts, so that there is a first, a last and a retry; one tolerated stall;
two carts, so that a second order would have something to order; two bodies, the
registered one and another; two faults per behaviour, which gives every pair of
faults. `order_command_books` swaps the faults that break the other properties
for those that only threaten the books. *backend*, orders: one order (orders share
nothing), three requests: two that race and one that has already moved the order; the
users are the owner, another cliente, the seller's user, another seller's user
and a super-admin; carts: one product (the rows of two products share nothing but
the cart), two handlers, two carts, stock and quantities up to 2, a cart that
expires after one tick of two; deliveries: one delivery, two commands of any estado by its
vendedor or another one, two slots, and two faults while only one command was sent, one fault with
two (commands share the delivery and the slots, and the properties are about each of them); *deliveries_race* has a third command,
for two that race need one that completes the delivery in between. *services*: two tabs, and three token pairs, so that a session is replaced while an
older one is restored; two users who share a browser, and two vendedores; two orders to follow,
with three polls each and one 404 of grace; two versions of each cart of two users and
two vendedores, of whom the second user has one, so that an edit or a
foreign change overtakes a read; two pages and two search texts; two requests in flight at
a time in `Usuarios` and `Catalog`, which is what a race needs; two instances and two
entries with one death in `ActivityLog`; one request in `Gateway` (requests share nothing);
three rows on pages of one in `Lecturas`, so that a list has a middle page. *deliveries_retry*: one command and one slot, so that only the
failure can be the reason. *session_reload*: one tab and
no late refresh, so that nothing but the sequence itself can be; *session_overwrite*: two tabs.

State counts: `backend` 1.1 million, `services` 435 thousand distinct states.

Symmetry is used for model values without identity in
safety runs only, never with a liveness property.

Deadlock is not checked: when
the bounds are used up and all work is done the system rightly rests.

Fairness (`FairSpec` of `OrderCommand`, used by the two liveness runs): a worker
slot that can go on does (the event loop runs every handler on, every awaited call
ends: the TCP calls have timeouts and a lost connection fails the query), a waiting
job is taken while a slot is free, and BullMQ's periodic check gives a stalled job
away. Nothing is assumed of clientes or of faults.

In `services`: requests of the frontend are answered in the end, if only by the
gateway's timeout; the browser delivers storage events and fires timers; a page whose
user is gone is left, because the router navigates away; `setInterval` polls again, a poll
runs on, and time passes for pending entries. Each is a weak fairness condition on the step
that the code's event loop takes by itself; nothing is assumed of users, of other tabs,
or of faults.

The disagreements between code and documentation that the violation runs show
are under "findings" in `PROJECT.json`.

What the passing properties leave out, because the code does not guard it and no document promises it:
`TabsAgree` compares a tab with what is stored once its events are delivered, and says nothing of the
time before (`session_overwrite` does) nor of a pair of tokens that a second refresh
has revoked; `FinalPriceIsCurrent` excludes overlapping updates of a product, `WalkShowsTheScope`
walks whose pages were shifted, and `AnswersAreTrue` is about successes, not about the refusal of
a retry whose first attempt took effect. A late answer that the provider is gone clears the
selection that another tab has just made (`LoseProvider` of `CartScreen`), and no
property denies it.

## 4. Proofs

Eight modules hold the theorems. They are for any sets of commands, clientes, workers, orders,
users, carts, deliveries, tabs or requests and for any limits; only two sets are taken to be
finite, `Handlers` of `Cart` and `Vendors` of `Lecturas`, because there the argument counts. The
assumptions are those on the constants, named in the module that declares them. Each proof
follows one scheme: an inductive invariant, a lemma for each action or kind of action,
and the theorem from both. Every safety invariant and every action property that a passing run
checks is a theorem.

*OrderCommand.* `Typed` proves `TypeInv`, that is `TypeOK` with `WellFormed` (a
queued job has a body and attempts left, a busy slot has a command and an attempt
left); the type of `attempts` needs it, for `made + 1` stays in range only
while attempts are left. `Exclusive` proves `ClaimIsExclusive`, inductive given
`TypeInv`: it says that a slot past the claim sees PROCESSING *and* is the only
one, and neither half is inductive alone. To avoid one case per action in every
later proof, the lemma `KindsOfStep` shows once that each step is `Quiet`,
`Registering`, `Claiming(w)`, `Reporting(w)` or `Placing(w)`, and the later
proofs go by these kinds.

`OneOrder` and `Truthful` rest on the inductive `OrderInv`: if a command has an
order, then its row is PROCESSING with no slot about to order or to report a
failure, or it is COMPLETED (`OrderedRow`); a slot at "complete" has its order
(`CompleteHasOrder`); a COMPLETED row has the order it points at
(`CompletedHasOrder`). `AtMostOneOrder` alone is not inductive: it does not exclude a
second slot about to commit. `OutcomeRefinement` maps each kind of step to
a step of `CommandOutcome` or to a stutter, under the same invariant.

The one assumption these three make beyond those on the constants is `"ack" \notin Faults`: the
commit of the checkout is acknowledged to the worker. It is needed: with that fault
a placed order is recorded as RETRYING or DEAD_LETTER, and if the cliente has
filled another cart the retry orders that one too. The theorems that follow do without it.

`CompletedReported` needs `ReturnedIsReported`: only the transition to COMPLETED lets an attempt
return, and a COMPLETED row stays. `CartOnce` and `GapFree` hold with every fault, also when a
command orders twice: a step is a sale or none (`NoSale`, `Sale`), a sale takes the next number
and an active cart, and `CartsApart` says that the ids of carts are never used again, so that an
ordered cart is nobody's active cart any more. `SettledFinal` and `ReportsProgress` follow from
the kinds of steps alone; the second is what `Pedidos` takes the server to do, and with
`ShownAsEnded` it links what a card of the orders page says to the row of the command.

`BodyRegistered` assumes `"redis" \notin Faults` instead: until its row is COMPLETED, a command has
one body in the row, in the job and in every attempt (`OneBody`), because the job keeps its id
taken. A Redis loss frees the id, and `order_command_redis` shows what comes of it.

*OrderLifecycle.* The invariant behind the five theorems says that the history
ends where the estado is and that its length is bounded by how far the estado can
have come, and that a request about to write holds an allowed move from the estado
it read, made by someone who may. `TrailRefinement` and `TerminalFinal` (a delivered or cancelled
order never moves again, stated here only) follow from the compare-and-set, and so does
`ConfirmedWins`: a cliente's cancel is written onto PENDIENTE only, hence right behind the first row.

*Cart.* `OneOpenCart` alone is not inductive: a cart that was ordered must not be found again.
`OrderedIsGone` adds that its row is gone and its place was used, and `OpType` that a request
that is about to write names a cart. A request holds a cart it read some time ago, so the
proof of each write goes by what a write to a cart that has since expired or gone does:
nothing opens. `NoResurrection` follows from `replaceItemQuantity` being an `updateMany`,
`AddsOnlyAdd` from the increment of `addItem`. `WithinRacingAdds` proves the types, and with them
the limit of a quantity: adds are checked against the stock one by one and written later, so n
handlers can exceed it, by n - 1 quantities at most. The invariant (`QuantityFits`) looks at the
adds that still have to write: one of them was checked last, and since then the cart has grown
by the writes of the others only. It counts handlers, who are therefore finite.

*Deliveries.* `CmdInv` says that a command has at most one `Owner`, the slot whose insert of
the tracking row succeeded, that the row is PENDING or PROCESSING while it works, and how far the
move and its events have come (`Progress`). Crashes take the owner away, and no other slot
becomes one, since the row stays. That is why `ActsOnce` and `TruthfulReport` hold under
every fault, and also why such commands are left behind.

*Usuarios.* `HandlerInv` is what a request in flight has read and nothing takes back: a
vendedor that left pendiente does not return to it, so an old check of a transition out of
another estado can do no harm there. `OffInv`: an invitation has one successful deactivation,
recorded or about to be.

*Catalog.* `Checked`: owners of rows never change, and the row an update has read is changed
under it only by an update that overlaps, and then the product is `torn`.
`OwnCatalogOnly` is proved and not model-checked separately.

*ActivityLog.* `LoggedOnce` needs to know what a poll has in its hands: `BatchInv` says that an
entry it holds was published and that an entry it is done with has its log, `GroupInv` that
each key has one log at most. Two polls may hold the same entry, claimed by one from the other:
the insert under the dedupeKey decides, and the loser finds the log.

*Gateway.* `Consistent` relates a request to the commands it sent: none before it was admitted and
validated, one for each attempt, one only if it is not retried.

*Sesion.* `TabsAgree` is inductive beside the types: whoever stores something new raises the
event of every other tab, and a delivered event copies what is stored at that moment.

*Pedidos.* `Followed` says of each id, as long as somebody is signed in: a card or a poll belongs to
that user and to the open page; a card, or an answer still on its way, that tells how an order
ended says what the server still says. From it come `OwnOrders`, `FollowedToTheEnd` (only an
answer "ordered" and a terminal card make the store forget an id) and `ShownAsEnded`, which no
run checks. `PollsBounded` holds because a poll that waits for an answer has an attempt left.

*CartScreen.* The first half of `OwnCart` is by `OfTheUser`. The second half and `CatchesUp` are by
`NotBehind`, which adds to the screen what is in flight: an edit that is still fresh has no read
beside it and is one of the cart shown, because a load takes `fresh` from it whatever vendedor the
load is for; a read that was served is not older than the newest answered edit of that cart; and the
answer of an edit that is not fresh starts another read (`settleMutation`).

*Consultas.* One invariant for each page: the request in flight is for what was asked last, and
what was asked changes only together with what is dropped.

*Lecturas.* The walk is shown complete by places: new rows come first, so a row moves towards later
pages or, in entregas-service, not at all; `PagesSeen` says that the rows that must be shown
and whose place is before the page were seen, `Steady` that the scope of a walk is the same on
every page, `Rightful` that a scope selects only what its reader may see, also after further
relations. Vendedores and clientes are assumed disjoint, because an account has one rol; the
vendedores of a cliente are counted (one is the scope, several are refused unless one is named), so
they are finite. The proof found that two definitions of the model used
CASE with guards that overlap for the super admin, where the code returns early; they are
now IF, and TLC's state count did not change.

*The parts together.* `PartsProofs` proves the types and the eleven invariants of all these
parts, and the two action properties, of the specification `ServicesSpec` that TLC checks. The
three pages share `Identity`; the invariant adds that a page which is not the
part of the behaviour holds and shows nothing, whoever signs in.

Only model-checked: all liveness (`CommandSettles`, `ReadySettles`, `ScreenSettles`,
`NobodyWaits`, `LogCatchesUp`), which is out of the prover's reach with the fairness it
rests on. The seven violations are TLC's as well.

## 5. Not modelled

- Uploads, health probes and the OpenAPI document of the gateway, mail, seeds, migrations:
  files and generated text, no state that two actors share.
- The windows of the rate limits: `Gateway` lets any request they count be throttled,
  which is more than they do.
- DTO validation, mappers, totals, taxes and formats: data that no property tells
  apart. `Malformed` and "rejected" stand for what they refuse.
- Plain fields of profiles, of the super admin and of products (name, image, stock as stored),
  reset tokens, the dashboard of the super admin, audit rows that no handler reads: no other
  handler's behaviour depends on them.
- The synchronous TCP handler of `orders.create` runs the same checkout without a tracking row;
  the gateway's POST handler never dispatches to it, but always enqueues.
- Templates, forms, routes and styles of the frontend, and the forms and lists of the vendedor
  and the admin beyond the paged list, which add no state of their own.
- `VENCIDO`: declared, and no code moves an order to it. Stock: checked and never
  decremented by an order; there is no promise to check.

Next would be an abstract specification of the delivery command with a refinement proof, a module
that composes `Pedidos` with `OrderCommand` (today linked by `ReportsProgress` and
`ShownAsEnded`), and reset tokens.
