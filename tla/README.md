# A TLA+ model of qing-delivery

qing-delivery is a single-process Rust service that watches the shop of a
second-hand platform, and when an order is paid sends the buyer the goods: a
text, a template of messages, or card keys out of a pool. The platform is
reached over a WebSocket and an HTTP gateway; all state is in one SQLite
database, which one thread owns. This directory holds TLA+ modules translated
from the source, the TLC configurations that check them, and proofs.

Paths below are relative to the repository, `src/...` being its crate.

## 1. The system

### Parts, their state and their operations

| Part | State | Operations | What makes it correct |
|---|---|---|---|
| Delivery coordinator, `application/delivery/service.rs` | rows `deliveries`, `attempts`, `order_execution_guards`, `content_snapshots` | `handle` → `create_initial`, `freeze_snapshot`, `dispatch`, `classify_and_persist`, `confirm_shipment` | content sent at most once; the row tells what happened; no guard is kept; what fails reaches a person |
| Card pools, `application/cards`, `repos/cards.rs` | `card_groups`, `card_entries` | `reserve_one`, `release_by_delivery`, `consume_by_delivery`, administration | a card goes to one order; a frozen card is neither returned nor exchanged |
| Eligibility, `delivery/eligibility.rs`, `domain/rules_ext.rs` | rules, SKUs, items | `verify`, selection of a rule | exactly one rule applies, or a person is asked |
| Boot recovery, `recovery/boot.rs` | reads unfinished attempts | `run` | what a crash interrupted is `unknown`, never sent again |
| Trace and compensation, `recovery/{trace,compensate}.rs` | cursors | scans that call `handle` again | no paid order is forgotten |
| Manual actions, `manual/actions.rs`, `idempotency.rs` | the same rows, `command_receipts` | `resend`, `mark_received`, `terminate`, `manual_confirm` | one request is one action, also against the automatic path |
| Accounts, `accounts/*`, `runtime/supervisor.rs` | `accounts` with switches, status, `control_epoch` | `set_switches`, `observe_status`, sessions, QR authorisation, removal | nothing is sent for a stopped account |
| Event intake, `events.rs`, `orders_sync.rs` | `inbound_events`, `orders`, `order_facts` | `process`, `sync_account` | every signal is applied once, no order goes back |
| Verification, `verification/*` | active sessions, gate, cooldown | `handle_signal`, `run_session` | the gate opens again, one session per account |
| Chat and replies, `chat`, `replies/*` | `conversations`, `messages`, reminders | `send`, `retry`, `apply_evidence`, reply chain, reminders | an uncertain message is not repeated; evidence finds its row |
| Notifications, `notify` | events and attempts | fan-out with retry | each rule is tried for each event |
| Restore, `backup/*` | database file, `restore_reviews` | `restore` | a restored database sends nothing of its own accord |
| Platform adapter and WebSocket, `adapters/xianyu/*` | cookie jar, requests in flight | `send_text`, `confirm_shipment`, token refresh | an answer reaches its request, `Unknown` is said when it may have been sent |
| Administration, `auth.rs`, `settings_sys.rs`, `jobs.rs`, `stats.rs`, `transport/*`, `frontend` | sessions, settings, jobs | HTTP handlers | thin; see section 7 |

### How the parts interact

`supervisor.rs` runs, for each online account, a *dispatch loop* (one event of
the platform after another: payments go to `handle`) and beside it a *recovery
loop* (compensation, then the trace scan, which calls `handle` for every order
not finished). A manual trigger or takeover calls `handle` from an HTTP
handler. So `handle` runs for one order in several tokio tasks at once. They
share nothing but the database: every access is a closure sent to the database
thread (`adapters/sqlite/db.rs`), which runs one closure at a time, and every
`.await` between two closures is a place at which another task, an
administrator, or a crash comes in.

### What is hard about it

* *Interleaving.* `handle` is some fifteen closures long. Its protection is
  layered: the unique `initial` row, the guard row of the order, the
  uniqueness of an unfinished attempt, the optimistic version, the transition
  table. No layer suffices alone, and the manual operations honour only some.
* *The platform is not transactional.* The message leaves, then the result is
  written; a crash or a timeout in between leaves a fact nobody can look up.
* *Recovery.* A restart must tell apart what was certainly not sent from what
  may have been; the result of an attempt is itself written in several closures.
* *Shared stock.* Two orders compete for cards that are reserved before the
  content is bound, and bound before it is sent.
* *Pausing.* A switch turned off must stop what has not been handed over.

* *Reads and writes apart.* Nearly every service reads a row in one closure and
  writes in another: quick replies against their cap, a reply against the record
  that it was given, a refresh of credentials against a new login, a job's end
  against its cancellation.
* *One connection for all.* Events, answers and requests of an account share one
  session with bounded queues; its end has to reach whoever waits.

`PROJECT.json` lists each such hazard at its line, with the properties that
catch it or the reason why none does.

## 2. Plan

| Step | Modules | Composes | Abstract specification | State |
|---|---|---|---|---|
| 1 | `DeliveryStates`, `Delivery`, `MCDelivery` | account switches, cards, boot recovery | `DeliveryPromise`: at most once, verdicts final | done |
| 2 | `DeliveryManual`, `MCDeliveryManual` | `Delivery` | – | done |
| 3 | `DeliveryProofs` | – | type, mutual exclusion, at most once, truth of the rows, write-ahead, refinement | done |
| 4 | `Fulfilment`, `MCFulfilment`: a template's messages with their proofs, and the confirmation (automatic, by hand, at boot) | – | each message at most once and in order | done |
| 5 | `AccountRuntime`, `AccountRuntimeProofs`: the supervisor, an account's task and its session; `WireSession`: pushes and requests on it; `SignedCalls`: signed HTTP calls on a shared jar | – | one connection; the switch has its way; whoever waits can be answered; a call is executed at most once | done |
| 6 | `Intake`: events, state signals, scans | – | an order's state only advances; no listed order is forgotten | done |
| 7 | `Verification`: sessions, gate, cooldown; `Authorization`: QR flows, credentials, removal | – | the gate is open when no session runs; the newest login stays | done |
| 8 | `Chat`, `Replies`: outgoing rows and retries; the chain of answers; reminders | – | a message is answered once; what is said of a row is true | done, but for late evidence, which nothing delivers |
| 9 | `Restore`, `Notify`, `Jobs` (with receipts), `ItemSync`, `Access` | – | a restored database is silent; at most one action per key | done |
| 10 | `Rules`, `Stock`, `Planning`, `Placeholders`: what is configured, against what is delivered | – | a reference definition for the choice of a rule and for rendering | done, but for the parsing of specifications and imports |
| 11 | `FulfilmentProofs`, `DeliveryCardProofs`, `DeliveryManualProofs`, `UpkeepProofs` | `MCUpkeep` | – | done |
| 12 | `EnvironmentProofs`, `ServicesProofs`: an inductive invariant of every module of `MCServices` | `MCServices` | – | done |

Modules that hold, or are used by, a theorem avoid recursive operators;
constants carry named assumptions; each operation is an action of its own.
The small components of steps 6 to 10 share two runs, each by itself: a variable
`part` set in `Init` says which, so that the state spaces add up and do not
multiply.

## 3. The modules

### `DeliveryStates`

The values of the columns and `ContentTransition`, which is
`content_transition` of `domain/delivery/state.rs` as a set of pairs, with the
states from which `prepare_attempt` lets each kind of attempt begin.

### `Delivery`

`handle` and all it calls, for any number of tasks and orders. **Durable
variables** are columns, as functions of the order or the card: `content`,
`review`, `retries`, `snap` (the cards in the bound snapshot) of the initial
row; `open` and `done`, the unfinished and finished states of the attempts;
`guard`; `issue`; `cardState` and `cardOwner`. **Account variables** are
`enabled` and `online`. **Frame variables** are what a task carries from one
closure to the next: `pc`, `ord`, `elig` (the verdict), `held` (reserved cards),
`res` (the result). Two are abstractions of numbers: `fresh` has the tasks whose
copy of `deliveries.version` is still the row's, `current` those whose
copy of `control_epoch` is the account's; comparing for equality is all the
code does with either. `copies` counts what the buyer got, and is outside the
program.

| Action | Code |
|---|---|
| `Load` | `handle` up to the verdict; the verdict may fail for reasons of the order itself |
| `CreateInitial`, `FindInitial`, `Ineligible` | the unique row; what an existing one leads to; the issue |
| `Probe`, `Reserve`, `OutOfStock`, `SourceMissing`, `BindSnapshot` | `freeze_snapshot`, `plan_card_pool`, `open_stock_issue`, `freeze_plaintext` |
| `AcquireGuard`, `ReadVersion`, `PrepareAttempt`, `MarkDispatching`, `Barrier` | `dispatch` up to the pause barrier |
| `Submit`, `Answer` | `send_text`: whether the message reached the buyer, and what the adapter says of it |
| `FinishAttempt`, `RecordContent`, `FreeGuard`, `OpenIssue` | `classify_and_persist`, closure by closure |
| `SetSwitches`, `ObserveOffline`, `ObserveOnline` | the account |
| `Crash`, `BootRecover`, `BootDone` | the end of the process; `BootRecovery::run`, one transaction per attempt |

`Submit` and `Answer` are two steps because the adapter's word and the fact
differ: after `Submit` the message is out or not, and only a result
*consistent* with that may follow; `unknown` is consistent with both. This is
the contract of the port (`application/ports/platform.rs`); that the adapter
keeps it is assumed.

### `DeliveryManual`

`resend`, `mark_received` and `terminate`, each split at its closures, with
`release`, beside any number of callers of `handle`. A manual operation reads
its preconditions in one closure (`Begin...`) and writes in later ones with
plain updates that look at nothing (`Overwrite`); the module keeps that.

### `Fulfilment`

One delivery in the direction `Delivery` leaves out: its content has parts,
and after the content comes the confirmation. `Delivery` shows that executions
of one order exclude each other, so here they come one after the other, beside
any number of administrators. `Template` is the sequence of the
messages by digest; `proofs` is the table `delivery_proofs`, `known` the digests
an execution read from it at its start, `next` its place in the loop.
`got` has what the buyer received, in order, `shipped` counts the confirmations
the platform took. `same` has the requests whose copy of `deliveries.version`
is still the row's.

| Action | Code |
|---|---|
| `Prepare`, `Mark`, `ReadProofs` | the start of `dispatch`; the barrier may cancel; the proofs stored by earlier executions |
| `Skip`, `Send`, `Answer`, `InsertProof`, `AllSent` | the loop of `dispatch_messages` |
| `FinishAttempt`, `RecordContent` | `classify_and_persist`; with `auto_confirm_enabled` it goes on to `finish_accepted` |
| `ConfirmPrepare`, `ConfirmPending`, `ConfirmDispatching`, `ConfirmCall`, `ConfirmAnswer`, `ConfirmFinish`, `ConfirmRecord` | `confirm_shipment` of the service; an illegal move of the confirmation is an error that returns |
| `BeginConfirm`, `ManualPrepare`, `ManualCall`, `ManualAnswer`, `ManualFinish`, `ManualRecord` | `confirm_shipment` by hand; no transition table, but a version |
| `Crash`, `BootRecover`, `BootDone` | as in `Delivery`, for every kind of attempt |

### `AccountRuntime`

One account, from the switch to the socket; accounts share nothing but the read
of the credentials. `enabled` and `status` are columns; `sup`, `wanted` and
`active` are the supervisor, what it read and its map; `pc`, `ws` and `stop`, per
task, the place in `run_account`, the session with its end, and the watch
channel; `attached` the adapter's entry; `inbox` the channel of events. A watch
channel has a value and, per receiver, whether it was seen; since a `false`
is ignored by whoever sees it, three values do: `go`, `told` (a stop the session has
not seen), `seen`. `run_account` reads the value only.

| Action | Code |
|---|---|
| `SetRun`, `AttachLogin` | `set_switches`; the attach of a confirmed QR login |
| `ReadSwitch`, `ReadFails`, `Tick` (`Sent`, `Kept`, `Spawn`), `Quit` | `account_supervisor_loop`: a tick reads through `load_enabled_accounts`, then acts without another await |
| `Attach`, `Unreadable`, `Hello`, `Top`, `Token`, `Greet`, `Await`, `Limited`, `Expired`, `Retry`, `Final`, `Detach` | `run_account` with `connect_ws`, report by report |
| `Dial`, `Registered`, `Lost`, `NoticeStop` | `run_registered_session` |
| `Observe` | the status write of `dispatch_loop` |
| `Restart` | the end of the process and `startup_cleanup` |

A tick sends `false` and then, if the account is not wanted, `true`; a reader
between the two sees what it would have seen before the tick, so the two are
one. The credential itself is left out: the platform may accept or refuse any.

### `DeliveryPromise`

What the automatic path promises. `received` and `verdict` per order: the
content arrives at most once and only while the verdict is open; "delivered"
is said only of what has arrived; a verdict is final. `Delivery` implements it
with `received <- copies` and a verdict read off `content`.

### `Intake`

One account's orders: `status`, `paid` and `initial` are what the tables say of each,
`heard` remembers the signals since the row exists, `sold` is the platform's list of
the last day, `dispatch` the payment between its gate check and `handle`, `scan`
the place of `recovery_loop`. `Handled(o, n)` is `handle` cut off after its n-th
write that matters here; the rest of it is `Delivery`.

| Action | Code |
|---|---|
| `PaymentSignal`, `Defer`, `Dispatch`, `StateSignal` | `dispatch_loop`, `events.rs`: state signals advance by rank, or are dropped for an unknown order |
| `Compensate`, `TraceSold`, `TraceFails`, `TraceHandle`, `TraceHandleFails`, `RecordCoverage` | `recovery_loop`: a failing order ends the scan, and its coverage row with it |
| `Buy`, `Forget`, `TurnGate`, `Crash` | the platform's list, the verification, the process |

### `Verification`, `Authorization`

`Verification`: the entry of the map `active` is not tied to the task that made it,
so a task taken for dead writes to, and removes, that of its successor. `doubled`
says that this has happened, which the code can only rule out by its time-outs.

| Action | Code |
|---|---|
| `SignalAllowed`, `SignalMerged`, `Register` | `handle_signal`: cooldown, then the lock |
| `RunSession`, `BeginAttempt`, `DeadlinePassed`, `Solved`, `SolveFailed`, `SaveAndRotate`, `FinishSucceeded`, `FinishLost`, `FinishFailed`, `GiveUp`, `OpenVerificationIssue` | `run_session` with its rows, the credential and the issue |
| `Panic`, `ClearActive`, `Age`, `CoolDown`, `ProbeAndClose` | `catch_unwind`, the end of a session, the clock, the probe |

`Authorization`: QR flows (`CreateDriven`, `CreateRefused`, `Observe`, `Cancel`), the
loop that polls, confirms, completes and saves (`Poll...`, `Drive...`), refreshes of
the profile (`AskRefresh`, `RefreshLoad`, `RefreshFetched`, `RefreshSave`), the running
account (`SetRunning`, `SupervisorTick`, `WriteStatus`) and its removal (`RemoveAccount`).
A credential carries the login it stems from beside its generation.

### The services beside the delivery

Each module is one part of `MCServices`; its header names the source.

| Module | State | Actions |
|---|---|---|
| `Jobs` | one job with its version and `cancel_requested`, its runner; a receipt and the requests that carry its key | start, account by account, cancellation seen or not, the compare-and-set of the end; `Begin`, `Execute`, `Complete` of a receipt; the end of the process |
| `ItemSync` | the shop by position, the rows, the run's page and what it has seen | `ItemSyncService` page by page, and the loop that the HTTP handler runs in its stead; items go on and off sale between pages |
| `Chat` | messages of a buyer, unread count, outgoing rows and what they say; the quick replies | ingest, answer, send, retry, mark read, delete, crash; count and insert of a quick reply |
| `Replies` | the round of one message; the record of default replies; one order's reminders | keyword, AI, default with every outcome of a send; load, send, advance |
| `Notify` | channels, bindings, the event on its way with the candidates it was loaded with | changes of channels and bindings; load, send, record, issue, one channel after another |
| `Rules` | rules with sources and variants, the pools and templates there are | create, update, switch, delete; deletion of a pool or template with its flags; `SelectRule` |
| `Stock` | pools with name, version and lines; requests between read and write | create, update, append, drop |
| `Planning` | a template's variables, the bindings, one pool, one planning | edits of all of these between load, plan and bind |
| `Placeholders` | a text that grows sign by sign | none but the growth: `Parsed` and `Rendered` are evaluated at each text |
| `Restore` | the stage of `restore_archive`, rows and reviews, what buyers have, what the administrator was answered | each statement, a cut after each, the start, decisions cut off after any of their statements and asked for again, deliveries before and after |
| `WireSession` | the three queues, the pending table, the sessions, callers | register, read, pass on, handle; request, answer, time-out; end of a session |
| `SignedCalls` | the cookies `_m_h5_tk` by domain, the token the platform goes by, the calls in flight | sign, answer, lose, absorb, classify, give up, try again, prime; the platform changes its token, a cookie expires |
| `Access` | the password by number, tickets, failed logins, requests between two closures | login, initialize, logout, expiry, change with or without its second statement, `init-admin` |

### The proof modules, and those for TLC

`DeliveryProofs`, `DeliveryCardProofs`, `DeliveryManualProofs`, `FulfilmentProofs`,
`AccountRuntimeProofs`, `UpkeepProofs`, `EnvironmentProofs` and `ServicesProofs`
hold the proofs (section 5). `MCDelivery`, `MCDeliveryManual`
and `MCFulfilment` give symmetry sets and the template; `MCUpkeep` and
`MCServices` put the parts into one run.

## 4. The runs

| Run | Instance | Shows |
|---|---|---|
| `delivery_race` | 1 order, 2 tasks, 2 cards, 2 crashes with recovery, 1 change of the account | every safety property of the automatic path, the inductive invariant, the promise |
| `delivery_cards` | 2 orders, 2 tasks, 2 cards of which each order takes one, 1 crash | frozen cards stay with their order, used ones were accepted, no card goes to two buyers, while no delivery exhausts its retries |
| `delivery_live` | 1 order, 2 tasks, 1 change of the account, no crash, fairness | the guard comes back; what needs a person becomes an issue |
| `delivery_required` | a refusal | *violated*: a delivery left to a person is dispatched again |
| `delivery_shared` | 2 orders, 1 card, retries that run out | *violated*: one card is sent to two buyers |
| `delivery_wired` | a crash, and a restart as `serve` does it | *violated*: an attempt nobody executes stays unfinished |
| `manual_safety` | 1 task, 2 requests of any operation, 1 crash with recovery | the automatic path still delivers at most once, whatever was sent is on record, resends exclude each other |
| `manual_race` | 2 tasks, 2 requests, no crash | *violated*: a task sends after a resend was accepted |
| `fulfilment` | a template of 3 messages of which two are equal, 2 requests, every result of the platform, 2 crashes | messages arrive once and in order, the proofs are what the buyer has, an accepted delivery is whole, a confirmation that may have been taken is on record |
| `account_runtime` | 2 task identities, a channel of 2, 1 restart; the switch moves, reads fail and sessions end without bound | one task and connection, its entry stays, no `online` without a task; a switch left on or off has its way |
| `upkeep` | *verification*: 2 sessions, 1 caller, 1 retry; *intake*: 2 orders, 2 kinds of signal; crashes without bound | `VerificationSafe`, `IntakeSafe`; the gate opens again; a listed order is given its delivery |
| `services` | 17 parts of 14 modules, with 2 of what can conflict | what each service promises (below) under every interleaving of its requests, tasks and crashes |

Three more configurations each show a disagreement of section 6 in a few states, with
`tlc -config <file>`: `RuntimeExpired.cfg` on `AccountRuntime` (`ExpiredWaits` violated: an
expired authorisation is reconnected without a login), `IntakeShut.cfg` on `Intake`
(`ShutStopsDelivery`: the scan delivers while a verification holds the gate) and
`RestoreCut.cfg` on `Restore` (`DecisionIsWhole`: a decision is answered as taken with its
delivery unchanged).

In `services`, `BooksAreTrue` has jobs, item synchronisation, stock, plannings and the
flags of rules, `MessagesSafe` chat, replies and notifications, `CatalogSafe` the choice
of a rule and the rendering of a text, `EnvironmentSafe` restore, wire session, signed
calls and administrator. Each is a conjunction of
the invariants that the modules state with the reason beside them. Some name
an excuse, and the excuse is then what the code really allows: a message
recorded as `failed` may have arrived if the session ended with its frame on the
way (`cut`), concurrent requests may pass a cap by one less than their number.

**Bounds.** *Two tasks*: every conflict in `handle` is between one caller and
one other, since the layers compare with a single row; the proofs cover any
number. *One order* where no property relates orders, as nothing but cards and
the account is shared. *Two crashes*: the second may hit the recovery of the
first. *One change of the account* before or after any step; a second only
makes a stale epoch staler. *MaxRetries = 1* (30 s apart and three in the
code): one retry within the budget and one beyond it. `RetryCap` bounds
`retry_count`, which calls of `handle` after exhaustion would raise for ever.
Copies are counted up to two.
In `delivery_cards` the outcome `not_submitted` is left out, since with it
`CardOneOrder` fails as `delivery_shared` shows; with it in, the property
would only repeat that finding. *Two equal messages* of three, because the
proofs are found by digest. In `account_runtime` a second
identity is enough to meet any task that the supervisor would start beside a live one,
and a channel of 2 fills up (it has 1024 places). In `upkeep` a second session is what replaces the one taken for dead, and the
second order is the one behind an order that fails. In `services` *two* accounts,
requests, channels, rules, pools, clerks and browsers are the two that meet; with
one item a page, three items on at most two pages let the pages run out, and an item
move up over the end of a page;
a text of 6 signs holds a whole placeholder with a sign before or after it, or its
pieces in any order; queues of one place are full at once; of two tokens and two
domains one can be stale, or shadow the other. `TokenRetryMax` is 3, where the code has 5:
a call during which the platform keeps its token, and with no cookie under another
domain, is refused once or twice, and gives up in neither case. What `GivesUpForCause`
says is stated for fewer calls at once than a call has attempts (`FewCalls`), since each
of the others may clear the jar in front of it once, and nothing in the code keeps them
few; the run has two calls, and the proof any number. *The parts run alone*
because their modules share no variable: what one service may do to the rows of
another (a deleted conversation, a status, a switch) is an action of the module that
reads it. The composition that matters, `handle` with its callers, has runs of
its own. Deadlock is checked everywhere but in `fulfilment`, `upkeep` and `services`: a
task of `Delivery` can always begin, but a delivery whose result is unknown rests
until a person decides, and there may be no one left to act; of the services, a part
whose messages or requests are all used up rests.

**Fairness.** `FairSpec` has weak fairness of every task's `Step`: tokio polls a
task that can go on, the database thread answers each closure, `send_text` has
a deadline of 15 s. Payments, administrators, the network's return and crashes
are not fair. In `account_runtime` the ticks, the dispatch loop, every task and session
are weakly fair: timers fire, a dial and the request for a token end in a
time-out at the latest. `ReadSwitch` is strongly fair: the database does not fail
at every tick for ever. The answer to a registration is not fair, for there is
no time-out on it. `StopIsHonoured` and `StartIsHonoured` suppose that the
switch stays where it is and the service is not being stopped; `StartIsHonoured` also
that no authorisation expires any more, because what the documents want then is the
contrary (`ExpiredWaits`, section 6).
In `upkeep` every session step is weakly fair: a spawned task goes on and every
wait in it has a time-out. So is the scan; the list of sold orders as a whole and
the snapshot of each order are strongly fair, since the platform answers again and
again. `SoldIsHandled` excludes an order whose snapshot is always refused, because
such an order stops every scan before the ones behind it (section 6), and supposes that
the gate stays open in the end: a delivery through a closed one, which the scan makes
too, is a finding (`ShutStopsDelivery`), not something to rely on.
The liveness run of `Delivery` has no crash and no unclassified error, because
the code gives no guard back in either case (findings below); under those
two it would fail for a known reason.

## 5. The proofs

`DeliveryProofs` proves, for all sets of orders, tasks and cards, any bounds and
either way of restarting, from the assumptions on the constants in `Delivery`:

| Theorem | Statement |
|---|---|
| `TypeCorrect` | `Spec => []TypeOK` |
| `Inductive` | `Spec => []IInv` |
| `GuardExcludes` | `Spec => []MutualExclusion` |
| `AtMostOnce` | `Spec => []AtMostOneCopy` |
| `RowsTellTheTruth` | `Spec => []ContentIsTrue` |
| `WrittenAhead` | `Spec => []RecordedBeforeSent` |
| `Implements` | `Spec => KeepsPromise`, the refinement of `DeliveryPromise` |

`AtMostOneCopy` is not inductive: a state in which a task is about to submit
and the buyer has the content already satisfies it and the next step does not.
`IInv` adds what each line of `dispatch` may rely on. `MutualExclusion`
makes the facts about one task stable under the steps of the others:
`StillAlone` derives that any other task at work is at work on another order.
`AttemptIsOpen` carries the write-ahead record, `StageIsTrue` ties the row and
the task's result to what the buyer has, from 'dispatching' to the stored
result, and `Located` says that recovery meets no running task, which is
why it may classify on the row alone. A crash preserves `IInv` because
nothing in it about a row without a task asks for more than `ContentIsTrue`,
`RecordedBeforeSent` and `NothingOutYet`. For the refinement, `SameVerdicts`
shows that a row that is not dispatched keeps its verdict, and `PromiseStep`
goes through the actions: `Submit` is `Deliver`, `RecordContent` is `Assert` or
`Doubt`, `BootRecover` is `Doubt` or a stutter, the others stutter.

`AccountRuntimeProofs` proves, for all sets of tasks and any bounds,
`RuntimeTypeCorrect`, `ConnectsOnce` (`OneConnection`), `KeepsItsEntry`
(`EntryStays`) and `OnlineIsKept` (`OnlineHasTask`) from one inductive invariant
`RInv`. `OnlyActive`, that the supervisor's map has whatever task runs, is what
makes the four one: a step of a task then leaves all others finished
(`OthersRest`), so no other detaches, and the last report is its own. `SaidSo`
strengthens `OnlineHasTask` by the task's order of leave: it reports before it
detaches.

`AttemptsAreAttended` (`NoOrphanAttempt`, also in `DeliveryProofs`) supposes
`Recovers`: the recovery at every start, and no unclassified error. Each
of the two excluded cases really leaves an orphan (section 6). `AttendedInv` says
that a task which executes the attempt is still at it, and that the row cannot
have moved between `prepare_attempt` and 'dispatching', so that the task is not
turned away there with its attempt open.

`DeliveryCardProofs`. `UsedWereAccepted` (`UsedOnlyIfAccepted`) is unconditional: what
ended as accepted stays on record, and only the acceptance consumes.
`FrozenCardsStay` (`FrozenCardsHeld`) and `CardsAreNotShared` (`CardOneOrder`) suppose
`NeverExhausted`: no result of `send_text` spends a retry. With one, the cards go
back (`delivery_shared`). `CardInv` adds that a task about to bind still has its cards
and that a row without a snapshot was never accepted: an acceptance would have
consumed them under it.

`DeliveryManualProofs` proves `ManualTypeCorrect` (`ManualTypeOK`), `OneResendAtATime`
(`OneResend`) and `EveryMessageIsRecorded` (`ResentIsRecorded`). Mutual exclusion by the
guard, proved for the automatic path, fails beside `mark_received` (`manual_race`),
so nothing here may rest on it. `MInv` rests on the attempts: of each kind one may be
unfinished, and whoever executes it is alone with it (`TaskInv`, `RequestInv`).
`SentIsOnRecord` then says where the record of a message is: in an end that is
accepted or unknown, or in an open attempt whose executor, if there still is one, has
submitted and not learnt that nothing went out (`PledgedByTask`, `PledgedByRequest`).
`AtMostOnceBesideManual` (`AtMostOneCopy`) rests on `OnceInv`, again without the guard: a
row that was dispatched is `Settled`, and neither a task nor the request's plain update
nor recovery makes it dispatchable again; of the tasks between `prepare_attempt` and
the row's write at most one is at each order, by the attempts and the row.

`FulfilmentProofs`, for any template, number of requests and crashes, and all results
of the platform: `FulfilmentTypeCorrect`, `ProofsAreTheMessages` (`ProofsAreComplete`),
`AcceptedIsWhole` (`AcceptedIsComplete`), `ConfirmationIsTrue` (`ConfirmedIsTrue`),
`ShipmentIsRecorded` (`ShippedIsRecorded`). `FInv` has three parts: `PlaceInv`, where an
execution is; `MessagesInv`, that what the buyer has is what is proved, but for the
one message that is on its way, and that all before `next` is proved;
`ConfirmationInv`, that of each kind of attempt one is in flight, and the pledge of an
open one as above. The messages and the confirmation disturb each other nowhere,
which the lemmas use: a step of the one needs the other's part only as unchanged.
`MessagesComeInOrder` (`SentInOrder`) adds `OrderInv`: there is a place of the template up to
which the buyer has every message and past which he has none, and an execution sends
only what follows it, since what precedes its own message is proved to have arrived.

`UpkeepProofs` proves `UpkeepTypeCorrect` (`UpkeepTypeOK`), `IntakeIsSafe` and
`VerificationIsSafe`. *Intake*, for any orders and signals: `IntInv` adds to the three
properties that a signal of an unknown order is not remembered. `HandledIsFine`
covers `handle` cut off after each write, so that every caller of it, event or
scan, is one use of that lemma. *Verification*, for any sessions, callers and budget:
`VInv` is the type, `GateInv` and `Recorded(s)`. `QuietIsOpen` is not inductive:
`GateInv` says instead that a closed gate has a session that will still open it, and an
entry one that will still remove it, which holds also when a session taken for dead
opens the gate of its successor.

`EnvironmentProofs` has the invariants of what the services stand on.

* *Login* (`AuthorizationIsSafe`), for any flows, refreshes at once and any distance of
  two logins: `CredInv` says that a credential's generation lies in the span of its
  login (`InSpan`), so that of a refresh from an older login the stored generation is
  always the greater and the save is refused (`OlderRefused`). It rests on `Span`:
  between two logins there are fewer refreshes than milliseconds. `GoneInv` says that
  an account removed with nothing in flight finds nothing that could bring it back.
* *Restore*: `StageInv` orders the stages: nothing is served before the restore is over,
  the credential epoch moves once the rows are written, and something is sent again only
  if the restore was cut off before that. `ReviewInv` says that once the reviews are
  written, every unfinished delivery the backup knew has one, and that none is undone.
* *Connection*: every entry of a session is at one place of its way (`WayInv`), and what
  lies in the queues, read in the order of the way, goes up by one (`LinedUp`). A step
  moves an entry over one cut of the way, so each lemma is about two queues. `OwnInv`
  says that a queue holds entries of its own session only, and none of one that has
  ended. `WaitersAreKnown` and `AnsweredHasArrived` are inductive with it.
* *Signed calls*: `CallInv` ties what the platform did to where the call is. For
  `GivesUpForCause`, `CalmInv` counts: of a call during which the platform keeps its
  token, the attempts certain to be refused (`Certain`) and the calls that may still
  clear the jar (`Clearing`) are together no more than there are calls. `ClearedInv` says
  that whoever gave up was not such a call, and left nothing stale in the jar.
  Both are invariants where `FewCalls` holds, which is the premise of `GivesUpForCause` itself.
* *Administrator*: `LimitInv` counts in the same way the browsers that have passed the
  limit before their failure is on record.

`ServicesProofs` has those of the services, and puts all of them together.

* *Jobs*: `RowInv` (what the job's row says against its runner), `RunnerInv`, `ReceiptInv`
  (one request holds the receipt of its key, and the others find it).
* *Items*: `PassedInv` says of a run that nothing came between that it has seen all it
  passed, and calls itself complete only behind the last item.
* *Chat*: `SaidInv` says that who has been answered is known by his row, `OutInv` what a
  row can say by where its send is, `AgainInv` that what is said again had failed,
  `QuickInv` counts quick replies together with the requests that are past the check.
* *Replies*: `RoundInv` says that while the round of stages goes on, all it sent has
  failed as far as it heard, `OnceInv` relates default replies sent to their record, and
  `ReminderInv` says that the scan holds the row as it is and that a resting row is not due.
* *Notices*: `EventInv` says which channels an event has gone out to by where the fan-out
  is: one whose row is due, and is not being sent to, has heard nothing of it.
* *Stock*: `ReadInv` says that a clerk's copy is the row of the version it read.
  `PlanningSafe` is inductive as it stands, with the types.
* *Rules* and *texts* are computations over a sequence, and say what a computation
  gives for every input. No induction theorem of the library can be used here, but
  induction does not need one: the least element of a non-empty set of numbers
  (`LeastElement`, from the library's `NatLessThanWellFounded`) gives it, with the set of
  all counterexamples. `CanBeOrdered` takes it over the size of a set of rules,
  `FromTheEnd` from the last sign of a text to the first. So `DefinedFromTheEnd` proves
  that the scans of `parse_body` and `render_indexed` have a result for every text,
  `ScansAgree` that the two agree from each sign on, and `BackAlone` and `FrontAlone` that
  a text is rendered as its parts are. `ChosenIsBest` rests on `OneOfScope`, that the
  checks at saving leave one enabled rule to a scope and priority, whatever the
  order of requests.

`ServicesInv` is the conjunction of all these invariants, each without a condition on
`part`: the variables of a part that does not run stay as they are (`StepsAlone`), so each
component's own step lemma gives its conjunct. From it follow `ServicesTypeCorrect`
(`ServicesTypeOK`), `MessagesAreSafe` (`MessagesSafe`), `BooksAreKept` (`BooksAreTrue`),
`CatalogIsSafe` (`CatalogSafe`) and `EnvironmentIsSafe` (`EnvironmentSafe`), without a
hypothesis on the constants but the modules' own assumptions.

*Model-checked only*: liveness (`GuardComesBack`, `FailureSurfaces`, `StopIsHonoured`,
`StartIsHonoured`, `GateReopens`, `SoldIsHandled`), which is out of the prover's reach.
Every safety property of a passing run is stated by a theorem.

## 6. What the checks found

Seven disagreements of the code with what it, or its documents, say, each with a
counterexample: a run for the first four, a configuration beside the runs for the next
three. Six more were seen while modelling and need none.

1. **`BootRecovery` is not run by `serve`** (`NoOrphanAttempt`). The only caller
   is a test. After a crash the attempt stays `dispatching` and the guard active, so
   the order can be neither delivered nor resent, and no issue tells anybody.
2. **Exhausted deliveries give back cards their snapshot still holds**
   (`CardOneOrder`). Two buyers may receive one card.
3. **`review_state = required` does not stop the automatic path**
   (`RequiredIsManual`). The trace scan dispatches the delivery again.
4. **`mark_received` ends a guard that someone holds** (`DecidedStopsAutomatic`).
5. **An expired authorisation is connected again** (`ExpiredWaits`). The task ends with
   `auth_expired`, and the next tick, which asks the switch only (supervisor.rs:370),
   starts another with the same credentials; meanwhile `offline` overwrites the state.
   The comment at `run_account` (adapter.rs:916) and the data model (001, line 56) have
   the account wait for a new login.
6. **The trace scan delivers through a closed gate** (`ShutStopsDelivery`). Only the
   dispatch loop asks the gate; spec 003 (FR-003) has a verification pause every new
   delivery of the account.
7. **A decision on a review is not atomic** (`DecisionIsWhole`). `decide` is four
   statements without a transaction, though its comment (restore_api.rs:181) and the data
   model (001, line 126) say one. Cut off after the first, the review is decided and the
   delivery as it was; asked for again, it is answered with OK and the decision that the
   second request names, and writes nothing. `DecidedIsKept` says what is left: a decision
   that reached the delivery stays.
8. **`not_sent` of a default reply cannot be logged**: the table's CHECK refuses it
   (replies/mod.rs:332).
9. **The reviews of a restored database cannot be listed**: the query orders by a
   column that the table does not have (restore_api.rs:84).
10. **After a restore no automatic delivery is made again**: `restore_epoch` is
   never set back (service.rs:281).
11. **The bindings of a template are not validated at saving**, as the data model says
   they are (rules.rs:290); such a delivery ends as invalid without an issue.
12. **The program marks no item off sale**: it does not run `ItemSyncService`
   (catalog_api.rs:621).
13. **Cookies are ordered by the shortest domain first**, against the comment
   (cookies.rs:147).  The signature takes the first token in the jar, whatever its
   domain or age, so the two may differ: the call is then refused until
   it gives up and clears both (`GivesUpForCause`).  With as many calls at once as
   attempts a call may also give up although nothing changed: each of the others clears
   the jar in front of it once (three calls and three attempts show it; the code has five).

Seen while reading, without a run of its own:

* two callers that freeze one order both reserve cards; the loser's stay
  reserved until the delivery ends, and are then consumed with it;
* the barrier is read before the hand-off: a pause may fall between the two;
* `next_retry_at` is written, and nothing reads it;
* a guard that is `unknown` may be taken by `acquire_guard`; what keeps an unknown
  delivery from being sent again is the content state alone;
* a crash between `finish_attempt` and `set_content_state` leaves a row
  `dispatching` that recovery, which looks for open attempts, never visits;
* an unclassified error of `send_text`, or any error of `send_manual`, leaves the
  attempt and the guard as after a crash, without a crash;
* an accepted resend does not consume the cards it sent;
* the automatic confirmation answers `not_submitted` with the move dispatching →
  pending, which `confirmation_transition` refuses: `confirm_shipment` ends
  in an error and the confirmation stays `dispatching` (service.rs:1666);
* a confirmation by hand records its result under the version it read at its
  start, and loses it if the row has changed since (actions.rs:882); it looks at
  no state of the confirmation, so it may repeat one that was accepted and
  overwrite it with `rejected`; an error of the adapter leaves its attempt
  `dispatching`;
* recovery takes an interrupted `manual_confirm` for a message: the issue says
  so, the confirmation keeps its state;
* a manual resend of a template sends the stored array as one text
  (actions.rs:285), and an exhausted template returns its cards even if earlier
  messages with cards were sent;
* two equal messages in a template have one digest: after a failure between the
  two the retry skips the second;
* `online` is reported, and the back-off reset, as soon as a token was issued
  (adapter.rs:961), before the socket is dialled and registered, though the
  specification makes registration the condition; a refused registration is thus
  retried every few seconds. When a session is lost nothing is reported, and
  the row stays `online` through the back-off;
* `paused` is overwritten by the `offline` of a task that ends after it;
* every tick sends to every task, which ends its back-off early;
* one credential that cannot be opened stops the tasks of all accounts
  (supervisor.rs:484, 492);
* a stop during registration is taken for success (real.rs:211); the next
  tick's stop rescues it, but there is none when the service stops;
* a QR login of a connected account replaces its entry without the handle
  (adapter.rs:127): messages fail until the session is next replaced;
* *verification and intake*: the cooldown is checked before the lock is taken; the
  synchronisation of orders does not ask the gate either; the order that the scan
  cannot read ends it for all behind it, for as long as it is listed;
  no adapter emits `AuthorizationChanged`, so what the dispatch loop does on it
  never happens; every caller signals without a URL; the live sink waits with `block_on`
  inside the runtime (main.rs:680), where tokio panics: each session that gets as far is
  ended by `catch_unwind`, without a credential and without an issue (`Verification` has
  both outcomes, since the sink is a port);
  a state signal of an order not known yet is dropped;
* *compensation* (compensate.rs) looks for paid orders without an initial delivery,
  which `PaidHasTask` shows there never are;
* *authorisation*: a refresh in flight when its account is removed stores its
  cookies again, and a late status report takes the account out of 'deleted'; an
  account added again keeps 'deleted' until such a report;
* *jobs*: `finish` uses the version of the job's creation, so a cancelled item
  synchronisation stays queued for ever, as does an order synchronisation whose list of accounts
  could not be read; a job that a crash interrupted stays as it was; a receipt that
  a crash left 'pending' answers every repetition as a replay (actions.rs:168);
* *chat and replies*: `Err(PlatformError)` is taken for "not sent", also when the
  session ended or 30 s passed with the frame written, so a keyword answer
  may be followed by the AI's; a failed row may be retried any number of times; a crash leaves
  'sending'; the cap of quick replies has the window its comment denies;
  `hidden_at` is never reset; a deleted conversation forgets which messages it had;
* *reminders*: after an unknown result `next_due_at` may be empty, which means due; a
  crash between the acceptance and `advance` repeats the reminder; an error there ends
  the round for the orders behind;
* *notifications*: `put_bindings` is not one transaction, though it says so
  (repos/notify.rs:226); when the last bound channel is deleted the account's events
  go to all channels; an e-mail recorded as `not_sent` may have arrived;
* *rules and cards*: a refused deletion flags the rules that use the pool, though
  nothing became of it, but not those whose variants do; pools bound by
  templates are neither protected nor flagged (spec 007, FR-016); deleting a pool
  deletes its reserved and used entries; a variable bound twice, or not asked for
  any more, takes cards that the buyer is never told;
* *restore*: neither the switch of directories nor the statements after it are atomic,
  though the comments say so; cut off after the copy, the directory starts like any
  other; nothing reads `execution_policy = manual_only`;
* *wire session*: the session waits at a full queue, and reads nothing, while the
  dispatch loop that would empty it waits for an answer on the same session, until the
  request times out; entries of requests
  that timed out stay in the table; a timed-out command still queued is written later;
  a push is acknowledged before it is passed on;
* *administrator*: a login whose password was verified before a change writes its
  session after it; two changes at once both apply; a change stores the new password and ends
  the other sessions in two statements (auth.rs:188), and if the second fails they stay
  valid under the old one; `init-admin` says it is done when
  revoking failed; the anonymous token that the comment calls consumed is not.

## 7. What is not modelled

* The HTTP layer but for the handlers named above, and the management interface:
  parsing and formatting around the services.
* Statistics: sums over committed rows. Settings: rows written in one statement.
* The driver of the browser, whose results are inputs of `Verification`; the client of
  the card suppliers, whose failure is a missing card in `Delivery`.
* The computation of a signature and the coding of frames in the platform adapter:
  computations on strings, whose failures are results of `send_text` and ends of a session
  (which token a call signs with, and what becomes of it, is in `SignedCalls`).
* Migrations, encryption, key storage, the data directory and the instance lock (calls
  of the operating system), Windows integration, the mock platform, logging.
* `compensate.rs` and the other code that nothing calls, except where a
  property shows that it would have nothing to do.

Within the modules: a text is what it asks for, except in `Placeholders`; a snapshot is the
set of its cards; the verdict of the eligibility rules on an order, what a
keyword matches, what a model answers, the parts of a specification and the
lines of an import are inputs. The parts of `MCServices` are not composed
with each other.

The map covers about 31 % of the implementation's lines. What remains is for the most
part the list above, and rows, queries and conversions around the control that
the modules keep.
