# TLA+ models of the operations platform

The repository is a team-chat application with an operations platform in it: a
FastAPI backend (`src/backend/app`) on PostgreSQL (async SQLAlchemy, READ
COMMITTED, one session per request), socket.io and websocket endpoints, and a
React client.  This directory models the backend's own state machines in TLA+,
model-checks them with TLC and proves properties of them with TLAPS.

    tlc -workers 2 -config wholesale_completed.cfg MCOrderWorkflow.tla
    tlapm StockLedger_proofs.tla

`PROJECT.json` maps every definition to the lines it stands for and lists the
components, runs, mutants, findings, hazards and theorems.

## 1. Inventory

| Component | State | Operations | Interacts with |
|---|---|---|---|
| Workflow engine (`services/task_engine.py`) | `orders.status`, `tasks.status` (the steps of a workflow) | `create_order`, `complete_task` with a guarded `UPDATE ... WHERE status = active`, activation of the successor | calls the order triggers after its first commit; called by automation and by `/api/tasks/{id}/complete` |
| Automation tasks (`automation/service.py`, `order_triggers.py`, `api/automation.py`) | `automation_tasks` (status, claim, role), `task_assignments` | create, claim (with override), assign, reassign, complete an assignment, cancel, delete, force-complete | completes engine steps, closes the order and cascades to its tasks; webhook and notifications |
| Stock of products (`services/inventory.py`, `api/inventory.py`) | `inventory.total_stock`, `total_sold`, `inventory_transactions` | create, restock, adjust, reverse | reversal marks a sale |
| Sales (`services/sales.py`, `api/orders.py`, `services/form_submission.py`) | `sales`, idempotency keys | record a sale, convert an order into sales | stock; then the low-stock trigger |
| Raw materials, processing (`api/raw_materials.py`, `services/processing.py`) | material stock and log, recipes, batches | add, consume, adjust, reverse, process a batch | stock of products |
| Low-stock alerts (`automation/sales_triggers.py`) | automation tasks of type restock | look after a sale or adjustment, create, assign; close after a restock; claim, take over, reassign, assign and close by hand | stock, automation |
| Notifications (`services/notifications.py`, `notification_emitter.py`, `automation/notification_hooks.py`) | rows per recipient | make, emit at once, deferred or early; read, delete | socket.io; called by automation, sales, mentions |
| Messages and threads (`api/messages.py`, `api/channels.py`) | messages, reply counts, reactions, pins | post, reply, edit, delete, page back | realtime, notifications, attachments |
| Channels, unread counts (`api/channels.py`, `services/unread.py`, `api/direct_conversations.py`) | memberships, marks, read pointers | join, add, leave, mark, count | messages |
| Websockets (`api/ws.py`) | connection sets, subscribers, last presence, delayed offline tasks | connect, disconnect, broadcast, ask for a status | |
| Presence, rooms, typing (`realtime/*.py`) | in-memory maps of sockets, users, scopes, rooms, typists | connect, disconnect, join, leave, type, expire | database (team, membership) |
| Accounts and roles (`api/system.py`, `api/admin.py`) | users, system roles, permissions, operational roles | create, register, activate, ban, delete, promote; replace sets; delete roles, with and without the checks | `ensure_not_last_admin` |
| Registration (`api/auth.py`, `main.py` seeding) | users, the default team and channels | register, seed, open channels | channels |
| Forms (`api/forms.py`, `services/form_submission.py`) | form, fields, versions, submissions | edit, restore, submit | sales, orders, materials |
| Attachments (`api/attachments.py`, file endpoints of `api/channels.py`, `storage/`) | rows, a disk, a bucket | upload, delete, download | messages |
| Rate limiter (`core/rate_limiter.py`, `core/middleware.py`) | windows in memory | count, refuse, clean up | every request |
| AI advisory (`ai/*.py`, `api/ai.py`) | insights and recommendations, one table | analyse, recommend, deduplicate, expire, clean up, review | sales, stock, materials (read) |
| Rule engine, operations broadcast, webhook, slash commands, audit log, back-fill, web client, deployment | none of their own, or append-only | | section 7 |

Hard behaviours, and what is correct:

* **Workflow.** `create_order` commits the order and then, commit by commit, its
  root task, the requester's assignment and the role tasks, while people already
  act on what has been committed.  `complete_assignment` reads the steps and the
  assignments several times before its updates, locks one row after another, and
  commits in the middle after a handover.  Double clicks, a step endpoint next to an assignment, admins who
  reassign under a user's hands.  Correct: steps strictly in order; one winner per
  claim; an order that is completed has been shipped; closing leaves nobody with
  work; every call ends, in whatever order it locks; willing people get the order shipped.
* **Stock.** Every request reads, decides, and then makes one guarded `UPDATE`
  that computes on the row.  Correct: the log adds up to the stock, which is never
  negative; one entry per sale; the reversed flags agree with the reversals; a
  repeated conversion sells nothing twice.
* **Materials and batches.** Adjustments compute on what was read (a lost update),
  a batch takes several materials, lock after lock, or none.  Correct: a batch is
  in all its tables or in none, and ends; stock and log part only by stale writes.
* **Check, then act.** Most other requests read, decide and commit later: open
  alerts, memberships, read pointers, thread counts, the last administrator, a
  set of permissions, the channel `general`, duplicates of a recommendation.
  Correct: what goes wrong needs an overlap, and the overlap is the one named.
* **Awaits in memory.** Broadcasts and emissions await every send while sockets
  come and go; a delayed offline task races a reconnection; a user has sockets in
  two scopes.  Correct: who is connected is not declared offline; the last word
  arrives unless it was overtaken; whoever is present or types has a socket.
* **Several stores.** A file and its row, a form's handler and its submission, a
  registration in four commits.  Correct: where they come apart, a crash, a failure
  or a deletion through the other endpoint is the reason.

## 2. Plan

Done, in this order: `OrderWorkflow` with its first proofs; `StockAccount` and
`StockLedger` with theirs; `Production`; `LowStockAlerts` with its proofs;
`Notices`; `Threads` and `Channels`; `ChatSockets` and `Realtime`; `Accounts`,
`RoleDesk`, `Forms`; `RateLimiter`; `Advisory`; `Attachments`, `Onboarding`.

Then the proofs, component by component: every safety and action property of the
passing runs is a theorem (section 6).

Left:

1. `OneClaimWinner`, `WorkFollowsOrder` and, for a restock, `CompletedMeansShipped`
   under interventions, which violate them as they stand (section 6): what holds then
   names the interventions, as the properties called `...Explained` do.
2. `OrderLifecycle`: an abstract order (submitted, under way, shipped, closed)
   that `OrderWorkflow` implements for the restock types.
3. `Production` against `StockAccount`, for the materials without adjustments.

## 3. Modules

| Module | What it is |
|---|---|
| `OrderWorkflow`, `MCOrderWorkflow` | one order, from `create_order` to completion; people and roles for TLC |
| `OrderWorkflow_proofs`, `OrderClosing_proofs` | the types and the order of the steps; who closes an order, and what is left of it |
| `StockAccount` | what a stock record promises: never negative, every change journalled by its own step |
| `StockLedger`, `MCStockLedger`, `StockLedger_proofs` | products, sales, conversions, restocks, adjustments, reversals; two products, an order of one each; the inductive invariant, the implementation of `StockAccount` and the sums, proved |
| `Production`, `MCProduction`, `Production_proofs` | raw materials, recipes and batches; what a batch writes and what a check keeps, proved |
| `Threads`, `Channels`, `ChatSockets`, `Realtime`, composed in `MCChat`; `Chat_proofs` | messages; members and their marks; the websockets; the socket.io server; a part of the proofs for each |
| `Notices`, `LowStockAlerts`, `Attachments`, `Onboarding`, composed in `MCServices`; `Services_proofs` | notifications; the restock tasks of low stocks; files; registrations; a part of the proofs for each |
| `Accounts`, `RoleDesk`, `Forms`, `RateLimiter`, `Advisory`, composed in `MCAdministration`; `Administration_proofs` | administrators; permissions; forms; the limiter; the AI advisory; a part of the proofs for each |
| `Sums_proofs` | what `SumFunction` and `SumFunctionOnSet` of the community modules add up to |

### OrderWorkflow

Orders share no row, so the state is one order.  A variable holds committed rows:

| Variable | Code |
|---|---|
| `order` | `orders.status` |
| `step` | `tasks.status` of the workflow's steps, in order |
| `task`, `asg` | `automation_tasks` and `task_assignments`: the root task and one task per role (`foreman`, `delivery`) |
| `creating` | where `create_order` is |
| `tx[c]` | a `complete_assignment` call: what it read and decided, the row locks it holds, what it has written but not committed |

An action is the code between two points at which another transaction can be
seen.  A handler that is one transaction and reads under the one row lock it writes
under (`claim_task`, most interventions) is one action.

`create_order` is the sequence `CreateOrder`, `CreateRoot`, `AssignRequester`,
`RootInProgress`, `RootReopen`, then for each role `CreateRoleTask`, `OpenRoleTask`
(the write of `open`), `RefreshRoleTask` (somebody may have claimed it by now) and,
if so, `OpenAgain` (order_triggers.py:255 writes `open` a second time), and at the
end `RecomputeWrite`.  That last part recomputes the order's status from the `Task`
objects that its own session has made; nothing expires them, so it sees the first
step active, whatever the rows say, and always writes `in_progress`.

A completion locks its rows one after another and keeps the locks until it commits:

| Action | Statement | Locks |
|---|---|---|
| `CompleteBegin`, `Acknowledge` | the reads of the assignment, the step, the assignment to acknowledge | none |
| `UpdateAck`, `UpdateOwn` | service.py:1129 and 1137, 1212 and 1223 | the acknowledged assignment, the caller's own |
| `EngineUpdate`, `EngineDelivery` | the engine's guarded update of the step and of its successor; the last delivery step closes the root's delivery assignments | the step; those assignments |
| `ChainCommit` | after a handover: `CREATE INDEX` (service.py:1629), a lock on the table, then a commit in the middle | every task |
| `EvaluateRoot` | is the order done? | none |
| `CloseOrder` | the order and its root task | both |
| `CascadeTask` | a role task, in one flush with the assignments of the one before | the task, those assignments |
| `CompleteCommit` | the flush of what is left, and the commit | the last assignments |

`StepBegin` is `/api/tasks/{id}/complete`, which runs `EngineUpdate` alone;
`ForceComplete`, `CloseParent`, `ParentTask`, `ParentRows` are an administrator's
completion of a task without assignments.  `Writes` says which rows a statement
writes, `Acquire` takes one of several free ones, a statement is through (`Through`)
when it has them all, and `DeadlockVictim` is PostgreSQL's abort of one of two
transactions that wait for each other.  A call sees its own uncommitted writes
(`StepsAfter`, `AsgAfter`), the others do not.

Some behaviour of the code is kept although it surprises:

* `EngineComplete` falls back to the first pending step; `complete_task` never
  completes an order, only `complete_assignment` does.
* The template helper makes an assignment for the creator on the root task and
  none on a role task (its reads fail there and are logged).
* After a handover with the delivery task no longer open, pending or claimed the
  code inserts an assignment for user 0; the foreign key refuses it and the call
  ends after its first commit.
* `/api/tasks/{id}/complete` answers 404 after it has committed.
* Assignments of a root task with no role and no steps can be acknowledged by
  nobody but an admin.

Left out: tasks for no order, notifications, events, the client's variant of
completion that names the assignment (it takes the same path but for one log
field), an admin's reassignment in the moment the root task is being set up
(`RootSettled`).  Interventions are atomic: they write one row, or two of which
nobody else can hold the second.  `CREATE INDEX` waits for the tasks of *all* orders;
what another order's call holds it gives back without needing anything of this one,
so it delays a call and adds no cycle.

### StockLedger

| Variable | Code |
|---|---|
| `stock`, `sold` | `inventory.total_stock`, `total_sold` |
| `ledger[p]` | `inventory_transactions` of the item: the change, the sale, the entry it reverses |
| `sales` | `sales`; `seen` is a history field that no action reads |
| `tx[c]` | a request between its reads and its commit |

`Restock` and `Adjust` are one guarded `UPDATE` each.  A sale is `SellBegin`
(form, slash command; no key) or `ConvertBegin`/`ConvertRead` (the conversion of
an order, per item: look for the key, check the stock), then `SellCommit` (the
guarded `UPDATE`, the sale, the flush, the entry, one commit).  A reversal is
`ReverseBegin` and `ReverseCommit`.  `Crash` rolls back what is in flight.
Each item of a conversion is a commit of its own, as in the code.

Left out: prices, channels, reports, `POST /api/sales` (it uses a name it never
assigns, api/sales.py:299, and fails before it reads a row).  What runs after the
commit is in `LowStockAlerts`.  A batch's output of products has the effect of
`Restock`.  An order with the same product twice is converted with the second
line found under the first one's key, as in the code.

`StockAccount` has one action, `Post`: an item changes to another natural
number and the journal gets the difference.  `KeepsAccount` says that the ledger
implements it, with the journal mapped to the changes of the log.

### Production

| Variable | Code |
|---|---|
| `material`, `rawStock`, `rawLog` | `raw_materials`, `current_stock`, `raw_material_transactions` |
| `recipe`, `batches`, `made` | `processing_recipes`, `processing_batches`, the `processing_in` entries of products |
| `rawTx[c]` | a request between its reads and its commit |

A batch is `BatchBegin` (validation, requirements, rounding), one `Deduct` per
material with the row's lock held from there on, and `BatchCommit`;
`DeadlockVictim` is PostgreSQL's abort of a transaction in a cycle of waiting
ones.  `AdjustRaw`, `SubmitRawForm` and `ReverseRaw` read and compute;
`WriteCommit` writes the value computed, whatever the stock is by then.
`CreateMaterial` and `LogCreation` are two commits, as in the code.  Left out:
names and units.  `Required` rounds down exactly, where processing.py:208 applies
`int()` to a product of floats, which may be one less; no property depends on it.

### LowStockAlerts

`level` is the stock, `alerts` the restock tasks, `mover[c]` a request after
its first commit.  A sale is `SaleRead`, `SaleUpdate`, `SaleRefresh` (the crossing is
judged from the stock read before and the stock read after).  `Adjust` and `Restock`
commit, and `AdjustRefresh`, `RestockRefresh` read the stock anew, whatever it is by then:
an adjustment, upwards too, that finds it low looks for an alert.  `LookForAlert`,
`CreateAlert`, `AssignAlert` are `on_low_stock`; `FindAlerts` and `CloseAlert` are
`on_inventory_restocked`, one commit per task.  `Matches` is what the code's
`LIKE` finds: a product's own tasks and those of products whose id begins with its
id.

What people do to the tasks is one action per operation: `ClaimAlert`, which leaves the
status `claimed` that neither lookup asks for (sales_triggers.py:105, 222);
`OverrideClaim`, an administrator's, in any status, a closed one included;
`ReassignAlert`; `CloseByHand` (cancel, delete, complete without assignments);
`AssignByHand` and `AssignCommit`, which write `in_progress` over what the task has
become since it was read as pending.  `seen`, `overlooked` and `reopened` are history.

### Threads and Channels

`Threads`: a request takes its time and reads its parent when it begins
(`PostBegin`, `EditBegin`, ...), and commits what it computed (`PostCommit`,
`ChangeCommit`, `ReactCommit`); a reader takes `FirstPage` and then `NextPage`
below the cursor's activity, which a request that began earlier and commits later
sets back (`Active`, its field `back`): what lies between is never shown, and
`PagesShowAll` says that nothing else is missed.  `Channels`: rows of `channel_members`, which no
constraint makes unique, marks and pointers; joining, leaving, saying, marking are
a read and a commit each; `ListMembers`, `CountUnread`, `TellCount` are the
unread counts sent after a message.  `seen`, `back`, `knew`, `saw` and `flew` are
history that no action reads: what the request had found, and what was in flight, when
it began.  Left out: search, the editing of a channel's names.

### ChatSockets and Realtime

`ChatSockets` is `api/ws.py`: the connection maps, `presence_subscribers`,
`_last_presence`, `_pending_offline_tasks`, and each `broadcast_presence` under
way, which sends (`Deliver`) one subscriber at a time.  `HandlerDies` is what a
message or a typing event does to `/ws/chat` (`RedisClient` has neither of the
methods that they call).  `Realtime` is the socket.io server: connecting and
joining await the database between a read and its use (`Authenticate`/`Connect`,
`JoinAsked`/`JoinDone`), a disconnect clears its maps before it awaits
(`Disconnect`/`PresenceGone`), typing entries expire when the next one starts.

### Notices

`job[e]` is the telling of an event: made for its recipients, emitted while it
walks `authenticated_users` with an await at each send, committed at once, after
the emission (mentions) or before it in one go (`complete_assignment`).  A socket
that comes or goes changes the dictionary and ends the walk (`Emit`); `cut`
remembers it.  Texts, links and filters are left out.

### Attachments and Onboarding

`Attachments`: two stores, the rows, uploads that write a file and commit a row
later (`ChannelUpload`/`Attaching`, `FileWritten`, `RowCommitted`), deletions
that remove the file from *their* endpoint's store and then the row.
`Onboarding`: the seeding's two commits and the four of a registration
(`AccountMade`, `GeneralMade`, `MemberMade`, `ReaderMade`), in an environment with or
without the role that lets members read.  The history variables (`failed`,
`missed`, `cutShort`, `puzzled`, ...) name the reasons that the properties allow.

### Accounts, RoleDesk, Forms

`Accounts`: a request reads an account, counts the administrators where the code
counts them (`Others`), and commits the columns it changed (`Merged`).  `NewAccount` is
`CreateUser`, which takes flag and role as they are asked for, also where they do not
agree or two system roles come of it (system.py:580-602), and `Register`.
`RoleDesk`: a set is read, deleted (`Clear`) and inserted at the commit
(`Replace`).  `DeleteRole` has the checks of the deletion of roles, `HardDeleteRole`
(system.py:303) none but that no row of `user_roles` refers to the role; the second takes
`system_admin` too, which is a finding (section 5).  The two modules share no variable:
a role that is gone only takes requests away from `Accounts`, since no account has it, and
an assignment that races with the deletion, which PostgreSQL's foreign key decides, is left
out.
`Forms`: an edit loads the form (`Edits`), and its commit writes rows
and a version made from the loaded collection (`Snapshot`); a submission is
flushed (`SubmitBegin`), committed with the handler's work where the handler
commits (`HandlerCommits`), and answered (`SubmitAnswer`) as processed or, where
something fails after that commit and is caught (task_engine.py:376,
services/inventory.py:189, form_submission.py:79), as failed although the work is
done; where the session has failed the commit of the answer raises
(`SubmitFails`, forms.py:1269) and the submission stays pending with its work done.
`cut` remembers those and the ones that a stop cut off.

### RateLimiter and Advisory

`RateLimiter`: a counter and a start per key; a key is a user or address with the
segment of the path after `/api`, the limit depends on the whole path and on the role.
`served` and `told` are history.  A clean-up removes what is older than
`CLEANUP_INTERVAL`, which is longer than every window (`RateLimiterAssumption`); were it
not, a window still running would start anew.  Only the store in memory is modelled: the code
awaits a synchronous Redis client, which raises, and lets the request pass.
`Advisory`: a job is a chain of transactions (clear and analyse, load insights,
deduplicate, save, expire); a review is a fetch and an update by id.  What an
analyzer computes is abstracted to the facts about a shop that decide what it
reports (`Shops`); sales are falling, steady, changed (by a tenth) or rising (enough for
a recommendation).  The look-up for duplicates reads at most `MaxCandidates` rows of the
type, 50 in the code, in no order (recommender.py:466): `Deduplicate` is sure to meet a
duplicate only where fewer others are there (`SeenFor`), and may miss it else.

## 4. Runs

| Run | Instance | Shows |
|---|---|---|
| `wholesale_completed` | foreman, courier, two calls, step endpoint | `TypeOK`, `StepsInOrder`, `StepsAdvance`; under server fairness alone `CallsEnd` |
| `restock_confirmed` | restock order, foreman, courier who is the requester, two calls, full fairness | `CompletedMeansShipped`, `WorkFollowsOrder`, `OrderShips` |
| `creation_race` | retail order, two couriers acting while it is created, a crash | `OneClaimWinner`, `ReopenedOnlyByCreation`, `DeliveryClosesRetail` |
| `interventions` | retail order, courier and admin, two interventions, two calls | `WorkStaysDone` |
| `stock_ledger` | two products, an order of both, two requests | `TypeOK`, `LedgerBalances`, `EachSalePosted`, `ReversedMeansReversal`, `RetrySellsOnce`, `KeepsAccount` |
| `warehouse` | two materials, one product, two recipes, two requests, a crash | `BatchWhole`, `DriftByStaleWrites`, `CheckedTakesLeaveStock`; `BatchEnds` under server fairness |
| `chat` | `Threads`, `Channels`, `ChatSockets`, `Realtime` | `ThreadCountLosesOverlaps`, `PagesShowAll`, `ReadStateExplained`, `LastWordUnlessOvertaken`, `OfflineOnlyWithoutConnection`, `SocketsTracked` |
| `services` | `Notices`, `LowStockAlerts`, `Attachments`, `Onboarding` | `NoticesExplained`, `AlertsExplained`, `FileGapsExplained`, `RegistrationExplained` |
| `administration` | `Accounts`, `RoleDesk`, `Forms`, `RateLimiter`, `Advisory` | `AccountsExplained`, `ReplacedAsAsked`, `FormsKept`, `LimitsKept`, `AdviceExplained` |
| `wholesale_closed_early` | violation of `CompletedMeansShipped` | the root task of a wholesale order has no assignment, so the first completion closes the order |
| `double_reversal` | violation of `ReversedOnce` | two overlapping reversals of an entry |
| `attachment_urls` | violation of `MessageUrlLeadsThere` | the URL in a message spells the day otherwise than the store |

**Explained.** A property called `...Explained`, `...Overlaps` or `...ByChurn`
does not say that nothing goes wrong; the code has no lock and no constraint
there.  It says that what goes wrong has one of the causes that it names, and
so that no other path of the code leads there.  The causes are recorded by
history variables or fields, which no guard reads.

**Composition.** The modules of `chat`, `services` and `administration` share no
variable: what one needs of another (a role, a membership, a message) is an input.
A behaviour of a composite steps the component that `focus` names; interleaving
components that do not see each other would multiply their states and show
nothing more.  The `VIEW` leaves out the components that are not in focus, which
are as they were at the start; the type invariant is that of the one in focus.
The other properties are checked in every state, and hold for a component at its
start trivially.  Components that do share state (engine and automation, sales and
stock, materials and batches) are one module each.

**Bounds.** `Calls` is the number of calls in flight: two is the least at which
two handlers race, and every race found involves two; so it is with `Requests`,
`Posters`, `Slots`, `Casts`, `Movers`, `Registrations`, `AdminRequests`,
`RoleRequests`, `FormRequests` and `Jobs`.  One person per role is enough where
the property is about steps (a double click is the same person twice); two couriers
where it is about claims.  `MaxOps = 2` lets an intervention follow another in the
middle of a completion.  `ActDuringCreation` is on only in `creation_race`, where
the interleavings with `create_order` are the question.  `MaxEntries` bounds a
product's log: four entries of flour are its initial stock, a sale, its reversal
and one more; two of oil, its initial stock and one more.  With
`Quantities = {1, 2}` the stock runs out and guards fail.

In `warehouse`, `MaxRawEntries = 3` and `Amounts = {2}` with a stock of three let
an adjustment meet a batch and its reversal run the material short; a recipe with
50 % waste takes more than its quantity.  In `chat`, an old message, up to
three new ones and pages of one give a reader several pages, while two requests post,
edit or delete; `MaxClock = 4` leaves the three times it takes to set the old message back
behind one that was posted meanwhile; the founder's row and two more (`MaxRows = 3`) are
a duplicate; with three messages (`MaxSaid`), the first two old, a pointer goes
back from the third or the second, and a message of one request is swallowed by the mark
of another (each of the three was seen to happen in the run); one user with
two endpoints and one subscriber besides suffices to leave by one endpoint and
return by the other; two sockets of a user with a team joined in between give two
scopes.  In `services`, one event with three people, who have two sockets, one and none,
lets a socket come or go in every walk; three channels (`MaxGenerals`) are the seed's,
an administrator's and a registration's.  For the alerts, two tasks (`MaxAlerts`) are a
duplicate, which an overlap, a claim and a reopening each bring about;
`rice1` and `rice10` are ids of which one begins the other.  In
`administration`, two people and three requests let two administrators demote each
other; three edits suffice for two that overlap and one more; the rate limits are
scaled down by 100 (`Scale`), with windows of four ticks, so that nine ticks hold
two windows and a clean-up; two runs of the advisory, a week and a month of one
tick and a review cover a duplicate, an expiry and a clean-up; two products and a
look-up of one row (`MaxCandidates = 1`) are one row too many.

**Symmetry** is used on calls and users that no constant distinguishes, and only
in runs without liveness; of the composites, `chat` uses it on the requests in
flight and `services` on those of the alerts.

**Deadlock.** The order runs and the composites say `CHECK_DEADLOCK FALSE`: an
order that is closed with nothing in flight stops, and so does a component whose
bounds are used up.  `StockLedger` is checked for deadlock and has none, which
there only says that a crash is always possible.

**Fairness.** `ServerFairness`: the event loop schedules `create_order` and the
calls in flight, and PostgreSQL queues the waiters of a row, so a coroutine or a call that
again and again could take its lock gets it (strong fairness on `Creation` and on
`Completing`), and looks for cycles among them: `DeadlockVictim` is a step of
`Completing`, and without it two completions that lock in different orders wait for
ever, which is the mutant of `CallsEnd` (`WaitsUnseen`).  Between two calls every cycle
has two members, and `DeadlockVictim` looks for no longer ones.
`PeopleFairness`, only for `OrderShips`: whoever may claim a
free role task does so in the end, and whoever has an assignment tries again;
strong fairness there because a completion is possible only while a call slot
(`Calls`) is free.  `CallsEnd` needs no people.  `ProdFairness` is the server's
part alone, with the deadlock detector in it: without `DeadlockVictim` two batches
that lock in different orders would wait for ever, which is the mutant of
`BatchEnds`.

Each property of a passing run has a mutant: a definition with a plausible bug
in it (`EngineCompleteRole`, `ClaimableByStatus`, `StillThereUnchecked`,
`OthersWithHim`, ...; each stands before the definition it varies) for which TLC
finds the property violated under the same configuration.

## 5. Known divergences

Where a comment or docstring promises more than the code does, the promise stands
as a definition of its own in the module, after the properties.  Three have runs
(section 4) and are findings; the others are violated as well, in instances of the sizes
above, and are listed here.

| Definition | The text | What the code does |
|---|---|---|
| `OpenMeansUnclaimed` (`OrderWorkflow`) | service.py:401, an open task can be claimed | `create_task` writes `open` from a stale copy over a claim made meanwhile |
| `ShippedMeansCompleted` (`OrderWorkflow`) | tests/test_order_workflow_regression.py:217, task_engine.py:408 | steps completed by `/api/tasks` leave the order open |
| `ConvertedOnce` (`StockLedger`) | orders.py:547 "Idempotent - calling twice with the same order returns existing sales" | the key holds the user's id: a second user sells the order again |
| `ConvertedAsAWhole` (`StockLedger`) | orders.py:546 "Convert an order into one or more sales atomically" | a conversion that lacks stock for its second item keeps the first sale |
| `SeenAsConnected` (`ChatSockets`) | ws.py:685 "Subscribe to receive online/offline status updates for all users." | whoever subscribes while somebody's offline task waits is sent a list without them; their return is not broadcast, `online` being the last word |
| `JoinedIsReached` (`Realtime`) | socket.py:197 "If this is a DM, require membership and route to a DM room" | `join_channel` joins the room of the channel's id, messages of a direct channel go to another |
| `AllParticipantsTold` (`Notices`) | notification_hooks.py:6 "notifications are broadcast to ALL order participants" | a socket that comes or goes ends the telling |
| `RestockClosesItsOwn` (`LowStockAlerts`) | sales_triggers.py:217 "Find and close any pending low-stock tasks for this product" | the `LIKE` also finds the tasks of product 10 for product 1 |
| `LastVersionIsForm` (`Forms`) | forms.py:276 "Create a version snapshot of the current form state." | the snapshot walks the fields loaded before the edit |
| `LastAdminStays` (`Accounts`) | system.py:18 "Last-admin protection across role changes" | unguarded endpoints and overlapping demotions leave no administrator, and the one seeded by `main.py` has the flag without the role, so that a change of its role is not counted |
| `SystemRoleStays` (`RoleDesk`) | models.py:710 "System roles cannot be deleted and have minimum permissions." | the hard deletion of a role (system.py:303) looks at neither its flag nor its name, so one request takes `system_admin` away, and `create_role` keeps that name reserved |
| `AdviceOnce` (`Advisory`) | recommender.py:497 "Returns only new, non-duplicate recommendations." | two insights of one material in one run make two |
| `SlidingWindow` (`RateLimiter`) | rate_limiter.py:45 "In-memory rate limiter using sliding window algorithm." | the window is fixed: twice the limit passes across its boundary |
| `EveryoneReadsGeneral` (`Onboarding`) | auth.py, `register`: "so they have a readable channel after first login" | with two channels `general` every registration raises after the account is committed |

## 6. Proofs

Every invariant and every action property that a passing run checks is a theorem,
for all values of the constants that satisfy the assumptions of the modules (which TLC
evaluates on every run).  Where a theorem says less than its run's specification, the
hypothesis is in its statement and discussed below.  Each part of a proof module states
an inductive invariant, has one lemma per action or group of actions, and combines them.

**`OrderWorkflow_proofs`**, for every set of people, roles, order type, calls and
bounds:

* `TypeCorrect`: `Spec => []TypeOK`, one lemma per group of actions.
* `StepsAlwaysInOrder`: `Spec => []StepsInOrder`.  The property alone is not
  inductive: a call that has won the guarded update has not committed yet, and
  its commit is right only if its step is still the active one.  The invariant
  `IInv` adds that (`WinnersHoldActive`: it holds the step's lock), that no lock is held
  by two calls (`LocksExclusive`), and that nothing is in flight before the order exists.
  A commit then turns the active step to done and the next one to active; every other
  action leaves the steps alone.  Most of a completion's actions move one record of `tx`
  and leave the rest (`QuietMoves`, `Moves`), so that the proofs follow the records.

**`OrderClosing_proofs`**, on top of it:

* `NoStepIsSkipped` (`StepsAdvance`) follows from `IInv`; `AcknowledgedWorkIsKept`
  (`WorkStaysDone`) from the types, action by action; `CompletedIsKept`
  (`ReopenedOnlyByCreation`) from `IInv`.  They hold under all interventions.
* `LastDeliveryCloses` (`DeliveryClosesRetail`) needs that a decision stays right
  between `EvaluateRoot` and the commit (`Decided`), which rests on `TasksOK` (which
  tasks exist at which point of `create_order`).
* `OneWinsTheClaim` (`OneClaimWinner`), for `MaxOps = 0`: a role task has the row of
  its claimer and no other (`OneRow`), although `create_task` writes `open` over a claim.
* `ClosedOrdersLeaveNoWork` (`WorkFollowsOrder`), for `MaxOps = 0` and nobody acting
  during the creation: a completed order has left nobody with work, and a claim has its
  row.  (It does not say that an order whose work is done is completed, which
  `ShippedMeansCompleted` of section 5 denies.)  `WorkOK` adds that a task is open, claimed
  or closed with its order, and follows the cascade lock by lock: of a call that holds the
  order's row every role task is still to be closed, locked with all of its undone rows,
  or closed (`Settled`).
* `CompletedOrdersAreShipped` (`CompletedMeansShipped`), for a retail order under
  all interventions, or with a requester and `MaxOps = 0`.  `ShippedOK` says of
  whoever decided to close (`create_order`'s last part, or a call) that the steps are
  done; with a requester, `RequesterOK` says that the root task always has the
  requester's row and only a confirmation closes it.

The hypotheses are needed.  With one intervention TLC finds each of the three
violated: a manual assignment gives a claimed task a second user, an override leaves a
claim without its row, an administrator who completes the requester's assignment closes
an order that is not shipped.  `WorkFollowsOrder` is violated too when people act during
the creation: an order is completed before `OpenRoleTask` opens a role task again.  A
wholesale order without a requester closes early (`wholesale_closed_early`).

**`StockLedger_proofs`**, for every set of products, users, requests, every order and
every initial stock (from `StockAssumption`):

* `IInv` joins the types, what a request remembers (`RequestsOK`), that no
  stock is negative and no entry empty (`StockOK`), and the three invariants.
  `RequestsOK` is what makes `RetrySellsOnce` inductive: a request that is
  about to sell under a key looked when no sale of that key was there, so all that
  are there now are younger than its look.  `ReversedMeansReversal` needs
  `EachSalePosted` (the sale to mark is that of exactly one entry).
* `PostInv` and `SellInv` do the work for the two kinds of entry; one lemma
  per action applies them.
* `SalesPosted`, `ReversedExactly`, `RetryIsSafe`, `TypeCorrect` follow.
* `LedgerKeepsAccount`: `Spec => Account!Spec`.  `JournalAppend` shows that
  the mapping turns an appended entry into an appended change, `AccountStep` that
  every step is a `Post` or a stutter.
* `LedgerAddsUp` (`LedgerBalances`): the stock is the sum of its log, what is sold
  the sum of its sales.

**`Production_proofs`**, for every set of materials, goods and recipes
(from `ProductionAssumption`):

* `ProdInv` joins the types and `Held`: what a batch has taken is locked, no two
  batches hold the same material, and it is still enough.
  `ProdTypeCorrect` and `ChecksLeaveStock` (`CheckedTakesLeaveStock`) follow.
* `BatchesAreRecorded`: a batch has exactly one entry with its amount in the log of each
  of its materials and of its product, and none elsewhere.  `RecordedInv`
  adds that the recipes of a batch stay, so that its materials are not deleted.
  `BatchesAreWhole` (`BatchWhole`), which adds up entries as the reports do, follows
  from it and the sums.
* `OnlyStaleWrites` (`DriftByStaleWrites`) compares the change of a stock with
  that of the sum of its log, request by request.

**`Services_proofs`**:

* Alerts: `SecondAlertExplained` alone is not inductive: a second alert may be closed
  and come back.  `SeenWereClosed` states it of second alerts in any status, and
  `RequestOK` says of a request that is about to create one that the alerts it saw are
  still closed, were claimed when it looked or have been reopened.  That stays true because
  of `Keeps`: no step reopens an alert without marking it.  `AlertsTypeCorrect` and
  `AlertsAreExplained` follow; the second also has that only a stale assignment or an
  administrator's override reopens an alert (`OnlySo`).
* Notices: `JobOK` says how far each telling is and whom it has reached
  (`NoticesAreExplained`).  Files: `FileInv` says of every upload, row and deletion which
  of the two stores has the file (`FileGapsAreExplained`).  Registrations: `OnboardInv`
  says of each registration what it found, and of an account that nobody is registering
  that it reads a channel or has a reason not to (`RegistrationIsExplained`).
* `ServicesTypeCorrect`: the types of the composite.

**`Chat_proofs`**:

* Threads: `CountsOK` bounds each count by the replies that there are *and* by those that a
  request in flight has counted on (`CountsLoseOverlaps`); `ReaderOK` says that what a reader
  has not been shown is below the cursor (`PagesAreComplete`); both rest on times that
  differ.
* Channels: `RowsOK` and `TimesOK`: a row that a request has not seen comes after
  what it has; and of a mark, written or under way, the messages up to its time, committed
  or in flight, are among those that it knew of when it began (`Covered`)
  (`ReadStateIsExplained`).
* Websockets: `WordOK`: a user that is not overtaken has one broadcast under way, with the
  status that is remembered, and whom it does not reach any more has it
  (`LastWordIsKept`); `OfflineIsEarned` follows from who is registered (`ConnectedOK`).
* Socket.io: the two typing indexes agree, and a user without a team has one scope
  (`SocketsAreTracked`).
* `ChatTypeCorrect`: the types of the composite.

**`Administration_proofs`**:

* Accounts: `AskOK` says of a request before its commit what it has counted, and that what
  it writes agrees with the roles if what it read did (`AccountsStayExplained`); who was
  created without agreement is among the exceptions by name (`unsynced`).
* Roles: a set between its deletion and its insertion (`ReplacementsAreExact`).  Forms:
  keys, field numbers, versions and what a submission in flight may still write, and that
  work is left without an answer only where it was cut off (`FormsStayFit`).
* Limiter: `RateInv` bounds the end of a window by what the last refusal said;
  `LimitsInv` counts what was let through in a key's window and in a window's time before
  its start: a window that starts anywhere lies in two such times, so at most twice
  the limit passes (`LimitsAreKept`).
* Advisory: `OncePerRun` (a run says a thing once) and `NothingYet` (before its first
  analysis it has said nothing) carry `SecondAdviceExplained` and
  `SecondInsightOverlaps` (`AdviceStaysExplained`), for every number of rows that a look-up
  reads.
* `AdministrationTypeCorrect`, `AdministrationKeepsPromises`: the types and all the
  promises in the behaviours of the composite.

**`Sums_proofs`.**  An induction over finite sets would take an operator as its parameter,
which the provers cannot instantiate.  Instead the proofs take a smallest counterexample
(`SmallestSet`, from the well-foundedness of strict inclusion): `SumIsFold` shows that
the fold exists and is what `SumFunctionOnSet` chooses, `SumAny` that any element may be
taken first, and from these what one element more, a subset, a cover by two sets and
zeros add up to.

Proving changed the models in three places.  The initial accounts are a set of
possibilities (`InitialAccounts`), in which the seeded administrator's flag and role may
disagree: the invariant had to say from where a disagreement comes.  A recipe's materials have
stock records (`ProductionAssumption`), as the foreign key demands.  `Interval` is not below
`Window`, as in the code.

Only model-checked: liveness (`CallsEnd`, `OrderShips`, `BatchEnds`), which TLAPS
does not reach, and the promises of section 5, which are violated.

## 7. Not modelled

Rule engine, operations broadcast, outbound webhook, slash commands, audit log and
the back-fill keep no state of their own, or append only; `PROJECT.json` gives the
reason for each.  Listings, reports, searches, settings and profiles only read, or
write one row that nothing else depends on.  Tokens and password hashing are no
protocol of several steps.  The Redis limiter and the pub/sub listener never get to
run their course (section 3).  The web client is represented by its requests, in
any order.
