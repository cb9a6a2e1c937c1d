# ExpenseOps: models, model checking and proofs

ExpenseOps imports bank transactions from Plaid, asks the household what they
were, and posts the shared ones to Splitwise. It reads receipts and promotions
from Gmail, learns from them what the household buys, and is used through a
dashboard, a Telegram chat and an agent. What is hard to get right in it and hard
to test lies between these parts: work handed from requests to background workers,
money posted to a provider whose answers may be lost, feeds read page by page by
runs that overlap and die, a split kept in a chat, receipts that several workers
and the user decide at once, and an agent that answers once and acts only on a
confirmed proposal. These are modelled in TLA+, checked with TLC on small
instances, and the properties that matter most are proved with TLAPS for every
value of the constants.

1. [The system and its components](#1-the-system-and-its-components)
2. [Modules](#2-modules)
3. [How the models correspond to the code](#3-how-the-models-correspond-to-the-code)
4. [Runs and bounds](#4-runs-and-bounds)
5. [Fairness](#5-fairness)
6. [Proofs](#6-proofs)
7. [Where the code and its documentation disagree](#7-where-the-code-and-its-documentation-disagree)
8. [What is not covered](#8-what-is-not-covered)
9. [Plan](#9-plan)

Everything is run from this directory:

    tlc -workers 2 -config MCOutbox.cfg MCOutbox.tla
    tlapm LeaseProofs.tla

## 1. The system and its components

A web process serves the dashboard, the Telegram webhook, the Plaid webhook and
the agent. An outbox worker and a few scheduled jobs run beside it. They share a
PostgreSQL database and nothing else: every interaction below goes through rows,
commits and leases.

| Component | State | Operations | Hard behaviour | What makes it correct |
|---|---|---|---|---|
| Transactional outbox and worker (`services/outbox_service.py`, `jobs/outbox.py`) | `OutboxEvent` rows: state, lease token and expiry, attempt count, due time, payload | enqueue, claim a batch, complete, fail with retry or dead letter, replay dead letters | several workers, leases that run out under a slow batch, crashes, replays racing late answers | nothing accepted is lost; success vouches for a run since the last replay; a late worker disturbs no one |
| Financial operation journal (`services/transaction_service.py`, `services/splitwise_service.py`, the `splitwise.execute_operation` handler) | one `ExpenseTransaction`, its `FinancialOperation` rows by action and generation, the expenses at Splitwise | post, draft, personal, undo, remove, amend, retry; look up, call, complete, fail, recover | lost answers, stale sessions, two executors, worker crashes between call and commit | at most one live expense per transaction; no expense without a journal entry; nothing forgotten before it is deleted |
| Agent action proposals (`agent/service.py`, `agent/actions.py`, `agent/action_tools.py`) | `AgentActionProposal` rows; the transaction and operation they speak of | prepare, confirm, claim, execute, settle, cancel, archive, expire, refresh | concurrent confirmations, edits between preview and execution, a worker that finishes later | one actor, never without consent, a verdict that is true and told once |
| Agent turns and their tool calls (`agent/runtime.py`, `agent/service.py`, `agent/gateway.py`) | conversation, messages, `AgentRun` and `AgentToolCall` rows | take a turn, start a run, run tools in threads, complete, fail or cancel the run | a deadline or a lost client in the middle of a call, threads that go on, the same message sent twice | one answer, evidence that is in the ledger, no call open in a run that ended |
| Scheduled job leases (`services/job_lease_service.py`, `jobs/*`) | one lease row per workspace and job | acquire, release | acquisition that is not committed, rollback inside the job, no renewal | one run at a time, recovery after expiry |
| Gmail synchronisation (`services/gmail_receipt_service.py`, `services/gmail_promotion_ingestion_service.py`) | checkpoint row, stored messages | list, page, fetch, store, advance | mail that arrives while pages are read, faults between messages, overlapping runs | nothing falls behind the checkpoint, every message is read |
| Plaid sync and review notifications (`services/plaid_service.py`, `api/plaid_routes.py`, `services/notification_service.py`, the import half of `transaction_service.py`) | item cursor, webhook events, imported rows, notification marks | sync pages, upsert, replace, remove, notify | two syncs from one cursor, a sync that dies between pages, a message sent and not recorded | no page lost, no replaced row back, everybody told, nobody told twice |
| Share arithmetic (`services/share_calculator.py`) | none | equal, exact and weighted shares | remainders | shares add up to the amount |
| Telegram interaction (`api/telegram_routes.py`, `services/telegram_*.py`) | update records, one pending split per chat, in the database and in each worker's memory | claim, queue, handle, retry; choose, show, confirm, cancel | concurrent updates of one chat, redelivery, old buttons | what is posted is what was shown; every update handled; a failure does not block the chat |
| Receipts (`services/receipt_*.py`, `services/acquisition_service.py`, `services/autonomous_classification_service.py`) | receipts, lines, purchases (`HouseholdItemAcquisition`), items | ingest, parse, classify, confirm, ignore, restore, match, unmatch, reject, finalize, undo | two deliveries of one artifact, a job deciding what the user decides | one receipt per artifact; an ignored one teaches nothing; a purchase belongs to the item its line is matched to |
| Classification taxonomy (`services/classification_taxonomy_service.py`, the transaction half of `autonomous_classification_service.py`) | concepts, subcategories, merchant aliases, the classification columns of a transaction and its ledger of decisions | decide, correct, repair, merge, rename | rows a session read before it waited for its locks, corrections beside decisions | columns and ledger agree; a correction stands; what is merged away is left by all that pointed to it |
| Household, places, insights, promotions, review inbox, AI memory | domain rows | batch jobs and read models | mostly sequential | domain rules |
| Accounts, tenancy, data lifecycle, process shell, schema, clients | sessions, policies, migrations | authentication, isolation, retention, start-up | none that the above does not have | isolation by workspace |

How they meet:

- A request that posts, undoes or amends does not call Splitwise in production.
  It commits the transaction, the operation and an outbox event together; the
  worker that claims the event executes the operation.
- The agent does the same through the same functions, and tags the operation with
  the proposal's id (`correlation_id`). It learns the outcome only by reading the
  operation back, when the conversation is loaded.
- Telegram updates, review messages and Plaid syncs are further event types of the
  same outbox. Plaid's webhook starts a sync, and the sync may undo, remove or amend
  what was posted; the transactions it finds are announced in the chat, and the chat
  posts them through the functions the dashboard uses.
- Gmail's runs hold job leases, and hand each receipt to the ingestion that also
  serves uploads and the chat. The ingestion records purchases; the finalizer, the
  user and an undo change them.

PROJECT.json lists every component with its sources, and under "hazards" the 40
places where this code can go wrong in a way a test would hardly reach, each with
the properties that watch it or the reason none does yet.

## 2. Modules

| Module | What it is |
|---|---|
| `AtLeastOnce` | the abstract queue: a job stays open until it has run or is given up, and success is final |
| `Outbox` | outbox rows and workers; `Promise` is the refinement mapping to `AtLeastOnce` |
| `SplitwiseJournal` | one bank transaction, its operations, their events, and Splitwise |
| `AgentProposal` | proposals, confirm requests, the transaction and the operation they act on |
| `AgentTurn` | one conversation: requests, runs, tool calls, their threads, and the proposals they prepare |
| `GmailSync` | a mailbox, the two checkpoints, and the runs of jobs and requests under the job lease |
| `PlaidSync` | a feed of updates, an item's cursor, its rows, webhook events and review messages |
| `ShareCalculator` | equal, exact and weighted shares as functions |
| `TelegramSplit` | a chat, its updates, the workers that handle them and the split they edit; uses `ShareCalculator` |
| `Receipts` | an artifact, its receipt and line, the purchases and items they teach |
| `Taxonomy` | concepts and subcategories, their merges, a merchant's alias, its transactions and their ledger |
| `LeaseProofs` | the theorems of `Outbox` and of `GmailSync`, the two components whose processes exclude each other by a lease |
| `SplitwiseJournalProofs`, `AgentProposalProofs`, `AgentTurnProofs`, `PlaidSyncProofs`, `TelegramSplitProofs`, `ReceiptsProofs`, `TaxonomyProofs` | the theorems of the module each is named after; those of `ShareCalculator` are in `TelegramSplitProofs` |
| `MC*` | instances for TLC: symmetry sets and the values of structured constants. `MCJournalRequests`, `MCJournalWorkers` and `MCProposal` each run two instances of their module side by side, told apart by one variable |

`LeaseProofs` extends two state machines at once; the names of `Outbox` that both would
use begin with `OB` (`OBInit`, `OBNext`, `OBSpec`, `OBFairSpec`, `OBTypeOK`).

The modules overlap on purpose and each takes from its neighbour only what its
properties need:

- `Outbox` has the full life of an event and leaves open what a handler does. The
  other modules keep of it that a queued event is handed out until it has been
  handled, possibly twice.
- `SplitwiseJournal` has the full life of an operation, with the check and the write
  of an event's settlement in one step; their separation is `Outbox`'s subject.
- `AgentProposal` has the full life of a proposal. A run of the outbox worker is one
  step there (`Drive`), and so is anything the owner does by hand. How a proposal
  comes about is `AgentTurn`'s subject.
- `Receipts` has the purchases a receipt teaches; the taxonomy its lines are classified
  under is left to `Taxonomy`, which has transactions only.
- `PlaidSync` and `TelegramSplit` reduce a post, a deletion or an amendment at
  Splitwise to its outcome.

## 3. How the models correspond to the code

The "map" of PROJECT.json names the lines behind every definition. The choices
that shape the models:

**Commits are steps.** A process's work between two commits is one step, because
only commits are visible to others. A step that reads rows without a lock and
writes them in a later commit is two, and what it read is kept in its session.

### Outbox

- Time is two flags per row: `due` (`available_at <= now`) and `leaseLive`
  (`lease_expires_at > now`). `BecomesDue` and `LeaseExpires` are time passing.
- `Claim` is one `claim_outbox_batch(limit=1)` and its commit. A worker claims up
  to `MaxEvents` rows before it handles the first, and renews no lease.
- `attempt_count` is only ever compared with `max_attempts`, so it saturates.
- `complete_outbox_event` and `fail_outbox_event` select the row by token
  (`FindLeased`) and update it by primary key (`CompleteEvent`, `FailEvent`). The select
  takes no lock. `LateWrites` says whether a row whose lease has run out may be
  claimed in that instant.
- Completing a `telegram.process_update` event scrubs its payload (`payload`); a
  handler without it raises.
- `handled` is a history variable, reset by a replay.

### SplitwiseJournal

- A process's session holds what it loaded (`tx`, `seen`) and what it has assigned
  and not flushed (`mine`). `Flushed` is the ORM's unit of work: a flush writes the
  columns whose value differs from what was loaded and leaves the others to
  whoever wrote them last.
- `Entry` is the head of `_execute_splitwise_create`, `_update` and `_delete`: done
  already, look at Splitwise first, or go ahead. It decides by the loaded row.
- `Acquire` is the compare-and-swap of `_acquire_operation_lease`, on the row as it
  is. It commits the attempt before the call.
- `Call` is the provider: it applies the call or not, and answers or not
  (`ambiguous`). With `LateErrors` an HTTP error may be reported for a call that
  was applied. `Look` may also fail to answer.
- `Succeed` and `FailCall` write over whatever the rows hold by then.
  `_fail_financial_operation` compares neither state nor lease token.
- Payloads are the amount they post; marker search is exact.
- `Production` is `settings.is_production_mode`: requests queue, workers execute.
  Otherwise requests execute.

### AgentProposal

- The preview freezes the row's status and `updated_at`, and every change moves
  `updated_at`: `fresh` is the set of proposals whose preview still fits.
- `Confirm`, `Claim`, the execution, and the recording of its outcome are separate
  commits of one request. Whoever loses the claim goes on as a follower through
  the same code, with `claimed` false.
- `ExecutePersonal` and `Post` hold the row lock from the look to the commit.
- `MarkFails` is a database error around `mark_personal`, before or after its
  commit; `Recover` is the exception handler, which trusts the row.
- `Refresh` is a page load that settles an executing proposal by the operation
  recorded for it.

### AgentTurn

- One conversation. A coroutine per request and a thread per tool call, each with a
  session of its own; a step is a commit or the work between two awaits.
- `Cut` is the deadline of 30 seconds or the client that goes away: reads are shielded
  and waited for, the thread of a proposal is not. `CutAgain` is a second
  cancellation, or the SDK's loop not waiting for its tools.
- `Locked` are the rows that the first statement of `fail_run` or `cancel_run` has
  updated and not committed; what a thread inserts or completes beside it is not
  among them.
- `Die` is the end of the process, with whatever threads are at work, or a failure of
  the session itself. A failure of `complete_run` after its commit takes the path of
  a failed run and is rolled back.

### GmailSync

- A run is a session: it acquires the lease without a commit, loads the checkpoint,
  lists, fetches and stores, and writes at its end the columns whose value differs
  from what it loaded. A rollback inside it takes the lease back; the release in the
  `finally` block commits what is left in the session.
- Mail is a log with history ids; a relabelled message moves to its end. Promotions
  follow history from the checkpoint, receipts walk the list one page per run.
- `MaxTrouble` counts faults, deaths, leases that run out, relabellings and requests
  of the API, which take no lease. The checkpoint row exists; mail that is skipped for
  its content and accounts that are not configured are left out.

### PlaidSync

- The bank's side is a log of updates, a suffix of which a cursor has not seen. A
  sync fetches a page, applies it row by row and saves the cursor after the last
  page; the commits of one upsert are one step. What a page still holds is a set of
  positions in the log (`batch`), taken lowest first (`ComesFirst`), removals after the
  rest; `over` says that the sync has left its pages, `next` what it does then.
- Two transactions may look alike, which counts as told. The announcement reads
  under no lock: refresh, check and claim are three steps.
- In development the announcement is sent by the request itself and nothing is
  retried; in production it is an event of the outbox.

### TelegramSplit and ShareCalculator

- Production, one private chat. `Queue` is the webhook's claim and enqueueing of an
  update; a worker takes it, loads the pending split, changes it in memory and writes
  it back whole. An update is a button or a text; what it holds is chosen when it is
  read. Updates are queued when the run starts, the last excepted, and the chat may
  be in any stage of a split, except that a preview of values that the calculator
  refuses was never sent.
- Amounts are cents. `CustomSplit` is a table of `ShareCalculator`'s results.

### Receipts

- One artifact in several deliveries, one line on its receipt; other receipts exist
  only as the days an item was bought before (`History`). A session reads once, does
  not flush before it queries (`db.py:44`), and writes only the columns it changed.
- `Claim`, `Persist` and the classification are the commits of an ingestion, before
  and after the parser, the first under the lock of the artifact's fingerprint. A
  user's request loads its snapshot and commits later. The finalizer and the repair
  hold their locks from the look to the commit and are atomic.
- Items are locked, so what happens to an item's history is one step.

### Taxonomy

- Every request is one database transaction (READ COMMITTED). Its first half ends
  where it waits for row locks, its second runs under the settings row, which
  serialises it against the others': two steps. What the session read in the first
  half it still believes in the second (`Seen`, the fields `from` and `onto`), since
  `SELECT FOR UPDATE` does not refresh a row the session holds.
- `Resolved` follows a chain of merges for as many steps as there are rows; the code's
  error for a cycle is a chain that does not end there.
- One merchant, so one alias; one parent, activity and eligibility, so the
  subcategory is the dimension in which a concept can disagree with a decision.
  Every decision is of high confidence. What the settings row and the row locks make
  atomic (`apply_decision` past its lock) is one step.
- `outdated` is a history variable: a request was committed that believed in a row that
  had changed.

## 4. Runs and bounds

Twelve runs. Every action and every disjunct of the next-state relations fires in
a passing run, and for each property of a passing run PROJECT.json holds a
mutation of a mapped definition (a dropped guard, an attempt counted too late, a
lookup left out) under which TLC finds it violated.

| Run | Instance | What it shows |
|---|---|---|
| `outbox` | 2 events, 2 workers, 2 attempts, 1 fault, 7 tokens | an event keeps its payload while it may be needed (`PayloadKept`); a live lease changes hands only by its holder (`LiveLeaseRespected`); `AtLeastOnce` is implemented (`PromiseKept`); everything is settled (`EventuallySettled`) |
| `journal_requests` | in production: 2 requests and a worker, every request but an amendment, 3 made, 1 crash, late errors; outside it: 2 requests, amendments, 4 made, 2 amounts, 1 crash | `OneExpensePerOperation`: an operation queued for the worker leaves at most one live expense; `WrittenAhead`; `OneExecutes`: no two processes execute one operation |
| `journal_duplicates` | in production, 1 request at a time, 1 worker that lives, no late errors; 4 requests made, 3 ids | the first disagreement of section 7 |
| `journal_workers` | 1 request at a time, 2 workers that live, 6 requests made, 3 generations, late errors; and 1 request, 1 worker that may die, 3 requests made | `PostedIsBacked`: posted means Splitwise still holds it; `ForgottenOnlyWhenDeleted`: an expense is let go only after its deletion; `SettledThoughDying`: what was queued is settled wherever the worker dies (`QueuedIsSettled` of the second instance) |
| `proposal` | 2 proposals, 2 confirm requests; 1 edit, 1 crash, 1 fault, 1 generation; and 3 edits within one generation | `OneActor`, `ConsentFirst`, `VerdictIsFinal`; `OwnWorkIsCredited`: the agent takes no credit for the owner's work; `FailsWhenUndone`: it fails only if nothing was done or is under way; `ConfirmedIsSettled` unless a request dies |
| `agent_turn` | 2 requests of 1 message, 2 calls each, 1 trouble | `OneAnswer`: one request answers and everyone gets its answer; `EvidenceIsRecorded`: the evidence counted is what the ledger holds; `CallsEndWithTheRun`; `TurnEnds` |
| `gmail` | 2 scheduled runs and a request, 3 messages, 1 per page, 1 trouble | `OneRun` while leases last; `NothingIsSkipped`: no promotion falls behind the checkpoint; `MailIsRead` |
| `plaid` | a worker and a sync request, 2 transactions, up to 3 updates, both modes, 1 trouble | `RowsKeepUp`: no update is passed over; `ReplacedIsGone`; `ProcessedIsRead`: a webhook event is done only when a later sync is; `ToldOnce`; `UpdatesAreRead`, `SettledIsTold` |
| `telegram` | 2 updates of 11 kinds from any stage of a split, 2 workers, 1 trouble | `PostsWhatIsShown`, `SharesAddUp`, `NeverStuck`, `TapsAreHandled` |
| `receipts` | 2 deliveries, 2 workers, 3 requests, 2 items, 1 trouble | `OneParsed`; `IgnoredIsUnlearned`; `PurchasesAreBacked`: a purchase belongs to the item its line is matched to |
| `taxonomy` | 2 names, 2 subcategories, 2 transactions, 2 processes, 3 requests | `LedgerAgrees`: the columns show the latest entry of the ledger; `MergedIsLeft`: nothing points to a row merged away, as long as nothing was committed from outdated copies; `CorrectionsStand` |
| `taxonomy_merges` | the same | the second disagreement of section 7 |

Why the bounds are enough:

- *Outbox.* Two workers are what it takes for one to take over the other's claim;
  two events what it takes to make a lease run out behind another event. Two
  attempts separate retry from dead letter. Seven tokens are one more than the
  rows and the batches can remember together, so a fresh one is always at hand.
  `MaxFaults` = 1 is enough for an overrun or a crash with any number of replays
  (they are not bounded).
- *Journal.* Every hazard involves one operation seen by two or three processes:
  the request that queued it, a competitor, and a worker. Three requests reach
  post, timeout, retry and post, undo, post again. Two ids in `journal_requests` are
  enough for one operation to have two expenses alive, which is what it asks about;
  `journal_workers` has one per generation. The bounds do not show that a
  *transaction* has one expense, and it does not: `journal_duplicates` finds two with a
  fourth request and a third id. `MaxTries` = 2 has a retry and a dead letter, and
  `replay` revives it.
- *Proposals.* Two confirm requests are a winner and a follower; two proposals
  are a pair competing for one row, of either tool. Three edits reach a state the
  proposal has seen before with another `updated_at`. `OwnWorkIsCredited` and
  `FailsWhenUndone` speak of undisturbed runs (`Undisturbed`: no database error, one
  generation); section 7 has what happens in the others.
- Leases do not run out under a process that is executing (`MaxOverruns` = 0 in
  the journal's runs): the lease is 60 s and a provider call times out after 20.
- *Agent turns.* Two requests are the turn and its repetition; two calls a read and a
  proposal, or two of a kind. `MaxTrouble` counts deaths, broken threads, second
  cancellations and failures after a commit; deadlines, clients that go and
  failures of the model are not bounded. Three calls (1.1 million states), two
  messages and two troubles were also run once, with the same result.
- *Gmail, Plaid.* Two runs are a race and one its recovery. Three messages on pages
  of one put an arrival before, among and after the pages read. `MaxFeed` counts
  the updates, of which the last may be a pair that replaces a pending row.
- *Telegram.* Two updates are an action and one that overlaps, repeats or outlives
  it, since the chat may start in any stage. Two friends and an odd amount of cents
  leave a remainder.
- *Taxonomy.* Two names with a concept of their own in each of two subcategories are
  six concepts; three requests are a merge, a decision that waits for it and one more.
- *Receipts.* Three requests reach a match, an ignore and a restore. Two users who
  make two requests at the same time were also run once (1.3 million states).
- One `MaxTrouble` in each of these bounds all that may go wrong: each hazard needs
  one thing to go wrong at the worst moment.
- `CHECK_DEADLOCK FALSE` is set everywhere since bounded instances come to an end.

## 5. Fairness

- *Outbox.* `run_forever` keeps taking steps (weak fairness of each worker) and
  time passes (weak fairness of `BecomesDue`, `LeaseExpires`). Rows are claimed in
  order of `available_at`, so a due row is not passed over for ever: strong
  fairness of the claim of each event. Crashes and overruns are finitely many.
- *Journal.* A request or worker that does not die finishes what it is doing;
  workers poll for ever; leases nobody works under run out. No fairness for the
  provider's answers: each may be ambiguous until attempts run out.
- *Proposals.* Confirm requests run to their end, the worker drives what is live
  (this is `QueuedIsSettled` one module below), and the conversation is loaded
  again. A request that dies after the claim leaves its proposal executing; the
  documentation accepts it (`docs/CONTROLLED_AGENT_ACTIONS.md:182`), and the
  property excepts it. The run has no manual re-posts, because a retry may be stuck
  (section 7).
- *Agent turns.* Coroutines and threads go on (weak fairness of each one's steps).
  Nothing is asked of the model's answers. `TurnEnds` excepts a request that died and
  a conversation archived under the turn.
- *Gmail.* A run that has begun goes on; the scheduler keeps starting runs, and not
  every start falls into another's lease (strong fairness of a job's `Begin`).
- *Plaid.* Plaid calls its webhook, the outbox gives out what is due, and processes
  go on. Nothing starts a sync that nobody asked for.
- *Telegram.* Telegram repeats what was not acknowledged, the outbox gives out what
  is queued, and workers go on.

## 6. Proofs

Eight proof modules. Nothing is assumed but the named assumptions on constants
(`OutboxConstants`, `JournalConstants`, `ProposalConstants`, `TurnConstants`,
`SyncConstants`, `TelegramConstants`, `RowsAreFinite` and their likes, each in the module
that declares the constants), which TLC evaluates in every run, and what is stated below.
`TelegramConstants` asks for a finite set of friends that is not empty; `NoneIsNoTap` and
`NoneIsNoSplit` say that the value that stands for nothing is neither an update nor a
pending split.

| Module | Theorem | Property of a run |
|---|---|---|
| `LeaseProofs` | `PayloadSafe`, `LeaseRespected`, `ImplementsPromise` | `PayloadKept`, `LiveLeaseRespected`, `PromiseKept` |
| | `OneRunHolds`, `NothingSkippedHolds` | `OneRun`, `NothingIsSkipped` |
| `SplitwiseJournalProofs` | `JournalledAhead`, `OneExecutesInProduction`, `OneExpenseHolds` | `WrittenAhead`, `OneExecutes` in production, `OneExpensePerOperation` |
| | `PostedStaysBacked`, `ForgottenHolds` | `PostedIsBacked`, `ForgottenOnlyWhenDeleted` |
| `AgentProposalProofs` | `OneActs`, `ConsentHeld`, `VerdictHeld`, `CreditHeld`, `FailuresAreTrue` | `OneActor`, `ConsentFirst`, `VerdictIsFinal`, `OwnWorkIsCredited`, `FailsWhenUndone` |
| `AgentTurnProofs` | `OneAnswerHolds`, `EvidenceHolds`, `CallsEndHolds` | `OneAnswer`, `EvidenceIsRecorded`, `CallsEndWithTheRun` |
| `PlaidSyncProofs` | `RowsHold`, `ReplacedHolds`, `ProcessedHolds`, `ToldOnceHolds` | `RowsKeepUp`, `ReplacedIsGone`, `ProcessedIsRead`, `ToldOnce` |
| `TelegramSplitProofs` | `ShownIsPosted`, `SharesHold`, `NeverStuckHolds` | `PostsWhatIsShown`, `SharesAddUp`, `NeverStuck` |
| | `EqualSharesSound`, `SameWhoeverPays` | none: facts about `ShareCalculator` |
| `ReceiptsProofs` | `ParsedOnce`, `IgnoredStaysUnlearned`, `PurchasesStayBacked` | `OneParsed`, `IgnoredIsUnlearned`, `PurchasesAreBacked` |
| `TaxonomyProofs` | `LedgerHolds`, `MergedStaysLeft`, `CorrectionsHold` | `LedgerAgrees`, `MergedIsLeft`, `CorrectionsStand` |

Each module also proves type correctness (`TypeCorrect`; `EventsTyped` and `MailTyped` in
`LeaseProofs`).

### LeaseProofs: the outbox

`EventsTyped` holds unconditionally. `SucceededHandled`, `PayloadSafe`,
`DeadExhausted`, `SuccessFinal`, `LeaseRespected` and `ImplementsPromise` assume
`~LateWrites`: nobody claims a row between a competitor's select and its commit.
The assumption is needed. With `LateWrites` TLC finds a worker whose lease has run
out writing `retry` over a row another worker has completed.

None of the invariants is inductive alone. The strengthening, `IInv`:

- `UniqueClaims`: no two workers hold the same token. A claim draws a token
  nobody remembers.
- `Window`: a worker that found its row leased still leases it when it writes.
- `Vouched`: a worker about to complete an event under a lease that still stands
  has handled it since the last replay. A replay takes a row out of `in_flight`,
  and the next claim draws a fresh token, so a stale worker is not `Leased`.
- `LeaseShape`, `ClaimedIsQueued`, `ScrubbedIsDone`: what a token, a batch and an
  empty payload say about the row's state.

`ImplementsPromise` shows that each step is a step of `AtLeastOnce` or a stutter.
`HandlerReturns` is `Run`, which is allowed late; `CompleteEvent` is `Succeed`, by
`Vouched`; the burying `FailEvent` is `GiveUp`; a replay reopens its whole set.

### LeaseProofs: Gmail

`OneRunHolds` follows from `HoldsLease`: a lease has one holder, and a job at work whose
lease neither ran out nor went with a rollback of the run (`late`) is that holder.
`NothingSkippedHolds` speaks of promotions whose runs have not overlapped and whose mail
was not relabelled (`Steady`; section 7 has the others). Its invariant `Course` says that messages arrive in the order of the history (`Ordered`), that the
checkpoint has not passed its end (`Within`), that what is not stored lies ahead of the
checkpoint (`Kept`), and, of the one run at work (`Alone`), where it stands between the
checkpoint it loaded and the history it will save (`OnCourse`). A run may die anywhere;
what it would have saved must then not matter, which is why `Kept` speaks of the
checkpoint as it is stored and `OnCourse` of what the run holds.

### SplitwiseJournalProofs

`TypeCorrect` and `JournalledAhead` (`WrittenAhead`) hold for any number of
requests and workers, in production and outside it, with crashes, overrun leases
and late errors. The run `journal_requests` checks them on two instances, in
production without amendments; the theorem has them.

`WrittenAhead` says that an expense bears the mark of an operation whose attempt
was counted. It needs `CallTried` (whoever is about to call has counted the
attempt) and the facts that no counted attempt is ever forgotten:
`TriedExists`, `WorkExists` and `EventExists` say that whoever works on a row, or
will be handed it by an event, finds it inserted, so no insert overwrites a
count. The lemma `FlushedOp` carries the rest: a session that did not change
`tried` does not write it, however stale it is.

Each action has a lemma that gives six facts, one per group of variables
(`TxKept`, `OpsKept`, `EventsKept`, `ExpensesKept`, `ProcsKept`, the budget);
`Preserved` concludes from them once.

`OneExecutesInProduction` needs nothing of the operation's own lease: in production
only workers execute; as long as no lease has run out under its holder, which
`OneExecutes` asks, a worker that is not idle holds its event (`WorkersHold`), and an
event has one holder. Outside production `OneExecutes` rests on the operation's
lease alone, is checked by TLC within the bounds of its run only, and is not proved:
the stale completion of a deletion or an update, and a stale recovery that sets the
generation back, may clear a lease somebody else holds.

`OneExpenseHolds` puts the two together. `OneExpensePerOperation` is not inductive: a
second expense is made by a worker that decided long before not to look. `CreatesFirst`
says what such a worker relies on: from the decision to the call no live expense bears
the mark of its operation. It holds when the decision is made, since an operation that
was never tried has no expense (`WrittenAhead`) and a lookup found none, and nobody can
make one in between, since that would be another worker that holds the same event.
`MarksKept` and `CreateKept` say this of every step; outside production there is nothing
queued to speak of (`Unqueued`). The theorem speaks of one operation. Of the operations
of two generations there can be one expense each (section 7).

`PostedStaysBacked` and `ForgottenHolds` are about a transaction through all its
generations: shown as posted, it has an expense that Splitwise still holds, and the id of
an expense is let go only once Splitwise has deleted it. They assume `Undisturbed`:
production, one request thread, nobody dies, no lease runs out under its holder, and
requests post, draft, mark personal, undo or replay. Nothing is assumed of the number of
workers, of generations and tries, or of what the provider does and answers. Every part
is needed: with two request threads the rollback of a lost insert leaves a session
whose copy of the row is that of an earlier generation, and its recovery writes `posted`
over an undone transaction, which TLC finds in 17 steps; deaths, retries and removals are
in section 7. The run `journal_workers` is an instance of the theorems.

Neither property is inductive: an outcome is written over the rows by a session that
loaded them long before. `BackedInv` says why it is still right. An operation that an event
or a worker may still execute (`Driven`) is one the transaction waits for: the status of the
transaction keeps requests out, so one process at a time works on it (`OneAtWork`). Then
a session is abreast (`AllAbreast`): the rows it loaded are the rows there are, and the expense
it found or made is live, or deleted if that is what it is about to record. `RowsAgree`
says what the journal and the transaction know of each other when nobody works: a
completed create of this generation has left its expense, no deletion of it has completed,
and there are no operations of later generations. TLC checked `BackedInv` as an invariant before it was
proved (208,203 states: one request thread, two workers, three ids, eight requests).

### AgentProposalProofs

`TypeCorrect`, `OneActs`, `ConsentHeld` and `VerdictHeld` hold for any proposals,
requests, edits, crashes and faults. Every step is shown `Lawful`: a status only
moves along the life of a proposal. `VerdictHeld` follows at once. `OneActs` rests
on `ClaimedIsBegun`: the winner's proposal has left `confirmed` for good, so the
compare-and-swap has no second winner, not even after the first has died.

`CreditHeld` and `FailuresAreTrue` say what a verdict is worth while a run is
`Undisturbed` (no database error has happened, the transaction is in its first
generation); both conditions are needed (section 7). `CreditInv` adds three things
to `IInv`: what the place a request has reached says of the proposal, the transaction
and the operation (`PlaceTells`); that what a winner has not yet done nobody has done
in its name (`WinnerIsUndone`); and that the operation tells who started it
(`OperationTells`). `WorldGrows` says what every step leaves of the facts these rest
on, so that a place is followed only through its own request's steps.

### AgentTurnProofs

`TypeCorrect`, `OneAnswerHolds`, `EvidenceHolds` and `CallsEndHolds` hold for any
requests, messages and calls, with any number of deaths, broken threads and second
cancellations. `OneAnswer` alone is far from inductive: whether a late coroutine may
still write depends on what it remembers of a run that others change. The
strengthening, `IInv`:

- `RunOK`: what a run's status says of its answer, its result and what was told;
- `CallOK`: how the row of a call, the thread that works on it and the run agree;
- `RestOK`, `WorkOK`, `OwnOK`: what a coroutine knows, by where it stands: that it won
  the run, that the ledger holds what it counted, what it still has to write;
- `OneWorker`: at most one coroutine works on a message, and none on a run that
  ended.

Each action has a lemma. Three general ones carry them: `OwnStep` (a coroutine changes
what is its own), `RestStep` (it changes the run) and `ThreadStep` (a thread changes one
call).

### PlaidSyncProofs

Four invariants, each proved on top of the ones before:

- `ShapeInv`: the types; the shape of a feed (a removal is a transaction's last update, only
  its first is pending); a row or the copy of it that a session holds is of a transaction
  the feed has spoken of; where in its page a sync is.
- `ReadInv`: a sync that has fetched its last page is past what its event announced, and
  past its pages a saved cursor is. `ProcessedIsRead` alone does not say why an event may be
  marked.
- `ToldInv`: in production the outbox event of a transaction stands for its message, and
  one more message was sent at most for each delivery that lapsed; in development a
  message is claimed before it is sent and the claim has one owner.
- `SteadyInv`: while syncs do not overlap, what was fetched is applied or still in the
  page; the page is taken in order; the row that was read is the one that is there; and
  a row that was replaced stays removed. `RowsKeepUp` speaks of what lies before the saved
  cursor; without the rest nothing is known of the pages of a sync that has not saved.

### TelegramSplitProofs

`TypeCorrect`, `NeverStuckHolds`, `SharesHold` and `ShownIsPosted` hold for any
transactions, friends, amounts and typed values, any number of updates and workers, and
any number of deaths, redeliveries and lost messages.

- `TypeInv` has the shape of a pending split in it: however the buttons of old messages are
  tapped, the friends selected are distinct, and so are those whose values were typed
  (`ToggledSelects`, `TypedIsInput`).
- `NeverStuckHolds`: unless a message was lost, neither the database nor a worker's memory
  has a split that is marked as being submitted (`QuietInv`). The memory has to be in it,
  because a worker writes what it remembers back whole.
- `SharesHold`: the shares are computed from the amount that the worker loaded, and the
  amount of a transaction stays. Sums are functions of the number of terms
  (`Sums`), and facts about them are proved by the least number at which they could go wrong
  (`Least`): the shares of an equal split add up to `n * (total \div n)` plus the cents that are
  left, of which the first shares get one each (`EqualAddsUp`). The others need no
  arithmetic: exact and weighted shares that do not add up are refused.
- `ShownIsPosted`: while a run is `steady` (`ShowInv`) one worker at a time handles updates,
  the split of the database is the one shown last, and a worker that is to confirm has that
  one loaded, while one that is to flush has made of it what its tap says (`Follows`).
  `PostsWhatIsShown` by itself says nothing of what is pending. A preview shows its shares for
  one choice of whether the payer takes part, and the payer may be toggled before the
  confirmation. `SameWhoeverPays` is why that is no exception: shares that add up to the
  amount with the payer's share and with a zero in its place (`SumWithout`) are the same
  shares, and otherwise one of the two choices is refused. TLC checked `ShowInv` first, on the
  instance of the run and on one with two transactions and all the buttons (228,610 states).

### ReceiptsProofs

The invariant `IInv` is a conjunction of four:

- `ReadOnce`: a receipt that is absent or failed was not read and has no purchases, and
  at most one delivery of the artifact was;
- `StoredOnce`: the receipts stored are those that are not absent, each once;
- `BooksHold`: the book of a line (its state, its purchases, the days its items were last
  bought) is `Sound`: at most one purchase is active, and it counts. Unless the receipt was
  written from an old snapshot (`spoilt`) the book is also `Backed` and `Quiet`: a single
  active purchase is of the item the line is matched to, and what an ignored line has left
  the user confirmed;
- `WorkHolds`: a worker that holds the artifact's lock is alone with it and nothing was
  read yet; a request acts only on what it was allowed to load, and what it loaded has not
  gone since.

The lemmas about books (record, void, correct, restore) are about one line and do not
mention processes; the lemmas about actions reduce each to one of them.

### TaxonomyProofs

`LedgerHolds` and `CorrectionsHold` need `Owned`: a decision past its lock still holds
it, so nobody has corrected the transaction meanwhile. `MergedStaysLeft` needs a
reason why chains of merges end. `Left` has it as `Ends`: every row has a root that is
not merged and a rank, the number of merges to its root, at most the number of rows
that are merged. A merge of two rows that are not merged lifts the ranks above the source by
one and adds one merged row (`OneMore`); `RankedResolves` turns a rank into the end of the
recursive function `Chain`, by the least element at which it could go wrong. The rest of
`Left` follows rows and transactions through each request. Both need the request's copies
to be current: that is what `outdated` excludes, and `taxonomy_merges` shows that the code
does not.

### What stays with TLC

- Liveness (`EventuallySettled`, `SettledThoughDying`, `ConfirmedIsSettled`, `TurnEnds`,
  `MailIsRead`, `UpdatesAreRead`, `SettledIsTold`, `TapsAreHandled`): neither fairness nor
  ENABLED is within the prover's reach.
- `OneExecutes` outside production, for the reason given above. With this exception every
  safety property of a passing run is stated by a theorem.
- What the assumptions leave out: `Outbox` with `LateWrites`, and the journal when it is
  disturbed (`PostedIsBacked` does not hold there, section 7).

## 7. Where the code and its documentation disagree

Two have a run that ends in a counterexample; PROJECT.json quotes the lines.

- **A transaction is posted twice** (`journal_duplicates`, `transaction_service.py:1887`).
  The worker creates an expense and its answer is slow. The user retries; the retry finds
  the expense by its marker and completes the operation. The user undoes the expense;
  meanwhile the worker's call ends ambiguous, and `_fail_financial_operation`, which
  compares neither the lease token nor the state, turns the succeeded operation into
  `needs_reconciliation`. The expense is deleted and the user posts again, under the next
  generation. The worker comes back to the first operation, finds its marker on no live
  expense, and creates it a second time, beside the new one. Nobody has died and no lease
  has run out. A mandatory release gate is "No duplicate Splitwise expense under replay,
  timeout, or concurrency" (`docs/BACKEND_LAUNCH_READINESS_AUDIT.md:304`), and
  `docs/LAUNCH_READINESS_TRACEABILITY.md:130` says that a successful create is replayed
  without a second provider call. What does hold is `OneExpensePerOperation`.
- **Two concepts merged into each other** (`taxonomy_merges`,
  `classification_taxonomy_service.py:1308`). `merge_concepts` and `merge_subcategories`
  read both rows before they wait for their locks and do not read them again
  (`_target` and `get_settings` ask for `populate_existing`, these selects do not), so
  that two owners who merge two concepts into each other both find them unmerged. From
  then on every request that meets either concept raises.
  `docs/AUTONOMOUS_UNIVERSAL_CLASSIFICATION.md:123` says that neither can happen.

The others were seen while modelling. Where a property of section 4 makes an exception
for one, TLC finds the violation as soon as the exception is taken out.

The journal:

- A definite rejection settles the outbox event as succeeded. A retry sets the
  operation to pending and enqueues under the same key, which returns the settled row;
  only a dead one is revived. Nothing runs it again, and Recovery does not offer
  pending operations (`transaction_service.py:1821`; `PendingIsDriven` states the
  opposite).
- Error, save as draft, mark personal: the failed operation stays retryable, and the
  retry posts what was decided to be personal (`transaction_service.py:2186`).
- Outside production the search for the marker is decided by the `attempt_count` the
  session loaded, not by the row the lease was won on
  (`transaction_service.py:1423`): a request that waited out another's timeout creates
  a second expense (`docs/LAUNCH_READINESS_TRACEABILITY.md:131`, `:160`).
- The marker is searched among the latest hundred expenses (`splitwise_service.py:315`).
- A removal or a change of amount while the create is queued or under way acts on
  a recorded expense id that is not there yet: the create goes through for a
  removed row, or with the old amount.
- An undo and a removal of the same expense: the one verified last clears whatever
  expense the row has by then (`ForgottenOnlyWhenDeleted` is checked without
  removals).
- A worker that dies after committing a failure, before settling its event, hands
  the operation to a second worker while the user posts again; the late failure is
  written over the newer outcome. Two racing requests can also replay a success
  onto a row that has moved on. `PostedIsBacked` and `ForgottenOnlyWhenDeleted` are
  therefore checked with one request at a time and no crash.
- `mark_shared_draft` checks no status.
- A deletion completed twice, by a late worker and by a retry that found it done, moves
  the generation by two and clears whatever expense the transaction has by then
  (`_complete_splitwise_delete` does not ask whether the operation has succeeded).

Proposals and turns:

- An ambiguous proposal is ambiguous for ever: the worker's next attempt proves the
  outcome, and nothing tells the proposal (`agent/service.py:1964`;
  `docs/CONTROLLED_AGENT_ACTIONS.md:65`, `:106`).
- The operation is read back by the generation the transaction has by then, and
  `correlation_id` is not compared: across an undo and a manual post the proposal
  takes the owner's outcome. `Undisturbed` excepts later generations.
- With a database error around the commit of `mark_personal`, recovery by the
  row's status can take credit for the owner's decision. `Undisturbed` excepts faults.
- Nothing takes over a run whose request died, or that a conversation archived during
  the turn left running; the message sent again is told that its turn is in progress,
  for good (`docs/IN_APP_AGENT.md:131`).
- A proposal may be created for a run that its deadline has already failed. The user
  is told to try again, and the retry finds the same proposal by its fingerprint.
- A call recorded between the sweep of a run's calls and its end, or by a prepare
  that breaks in a run that completes, stays `proposed`. An answer may be stored in a
  conversation archived meanwhile.

Feeds:

- Two overlapping runs of the promotions sync, one of them a request of the API, leave
  a checkpoint with the `complete` of one and the page token of the other, and a
  promotion is lost. A message relabelled after another arrived moves `history_id`
  past the arrival (`docs/LAUNCH_READINESS_REMEDIATION_PLAN.md:35`: no lost messages).
- Of two overlapping syncs of one Plaid item, the one that applies its page last may
  put an older state over a newer one, behind a cursor that has passed it.
- A removal selects a row and commits later without a lock
  (`transaction_service.py:976`); a transaction posted in between ends removed, with a
  live expense (`docs/LAUNCH_READINESS_TRACEABILITY.md:134`).

The chat:

- A webhook request that dies between claiming an update and queueing it: the
  repetition is acknowledged while the claim is fresh, and the update is lost
  (`docs/LAUNCH_READINESS_TRACEABILITY.md:159`). `TapsAreHandled` excepts exactly these.
- A confirmation button is not tied to the preview above it. After the split was
  restarted, or values were refused and the payer toggled, it posts what was not shown
  (`docs/AUTONOMOUS_UNIVERSAL_CLASSIFICATION.md:60`); `PostsWhatIsShown` speaks of a
  preview nothing has replaced.
- A split cancelled in one worker stays in another's memory. Overlapping handlers
  write the split over each other. A failed update is applied again although its
  changes were flushed.
- A refused confirmation whose message is lost leaves the split marked as being
  submitted. An equal split ignores whether the payer takes part.

Receipts:

- Undo keeps the day of the purchase it undoes (`acquisition_service.py:577`): the latest
  purchase is looked up before the void is flushed, and sessions do not flush on their own
  (`db.py:44`), so `HouseholdItem.last_acquired_at` stays at the purchase undone.
  `docs/REPLENISHMENT_LEARNING.md:35` says that undo recomputes it; the test of it
  (`tests/test_classification_taxonomy_service.py:1601`) uses a session that flushes.
  `LastIsLatest` states the opposite; TLC refutes it with one delivery, one worker, one item
  and two requests.
- `line.acquisition` is any of the line's rows. After a void and a replacement, a
  reject finds the void one and the purchase stays.
- The finalizer and a restore learn again what the user rejected or matched, and
  `finalize_decision` sets the classifier's item although the confirmed purchase
  belongs to another.
- An ignore that races the finalizer or a confirmation leaves an ignored receipt with
  a purchase (`telegram_routes.py:937` says that nothing was learned).
- Confirm accepts a failed receipt, which then stands for its fingerprint. A
  successful parse is thrown away when a permanent failure was stored meanwhile.

Receipts and bank transactions, in a model that is not part of this project yet:

- Removing a transaction that a receipt was matched to automatically unlinks the receipt
  and flushes before its status is changed (`reconcile_removed_transaction`), which the
  table's check constraint (`models.py:1466`) refuses: the removal fails, and the sync with
  it, again and again (`docs/LAUNCH_READINESS_REMEDIATION_PLAN.md:379`).
- Duplicates of a receipt are linked before it is checked whether the charge is occupied:
  with three receipts a charge ends up with two
  (`docs/AUTONOMOUS_UNIVERSAL_CLASSIFICATION.md:222`).

## 8. What is not covered

- In `SplitwiseJournal`: the replacement link between a pending and a posted bank
  row, the choice of a status by an import, and the shares inside a payload.
  Marker search looks through all expenses, the code through the latest hundred.
- In `AgentProposal`: receipt, itemized and learning proposals, and execution
  outside production. The version number is 1 whenever it is compared.
- In `AgentTurn`: which tools a text calls and what they say, the page a message
  comes from, a different text under the same id, the switch that turns the agent off,
  streamed events and feedback.
- In `Outbox`: what the handlers do to the outside. A message may be sent twice
  when a worker dies between sending and completing.
- In `GmailSync`: what is extracted from a message, mail skipped for its content, the
  first insertion of a checkpoint.
- In `PlaidSync`: linking and disconnecting items, verification of webhooks, refunds,
  listings, faults of the sandbox.
- In `TelegramSplit`: the path outside production, unlinked senders and groups, the AI
  chat, drafts, receipts by chat, wording and keyboards, undoing and the errors of a
  post.
- In `Receipts`: several lines, creating and disabling items, aliases, reconciling
  with bank transactions, classification corrections, correcting a purchase by its id,
  cadence and quantities.
- In `Taxonomy`: receipt lines and household items under a concept, the renaming of a
  concept, fuzzy names, decisions of less than high confidence, removed transactions, the
  history of alias rows.
- Review sessions (`agent/review_session.py`): requests read `current_index` and
  write the whole session back without a lock.
- One workspace. Isolation of workspaces is the database's row-level policies.
- The components marked `not_modelled` in PROJECT.json, each with its reason: most
  are read models, rankings and forecasts over rows that one request writes.

## 9. Plan

In this order, for whoever goes on:

1. **Proofs about the journal**: the conditions under which a transaction does have one
   expense (no retry beside a call under way), as an abstract ledger; `OneExecutes` outside
   production.
2. **`TelegramSplit`**: groups and drafts, and the chat with the AI.
3. **Receipts and bank transactions**: matching, splitting off duplicates, removals.
4. **`AgentProposal`**: the receipt kinds, and execution outside production.
5. **Review sessions**: two requests of one session.
