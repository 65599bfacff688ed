# Strategy Pack in TLA+

The program is a Solana copy-trading engine: it ingests trades of tracked
wallets, decides whether to follow them, executes orders, and keeps positions,
a portfolio and its safety switches consistent while it does. This directory
holds TLA+ models of the parts that decide about money and positions, the TLC
configurations that check them on small instances, and TLAPS proofs of what
holds for every instance.

Paths are relative to the repository root. `M:n` is line n of file M.

## 1. Inventory

| Component | Code | State it keeps | Operations |
|---|---|---|---|
| Partial-fill retries | `execution/partial_retry.py`, hooks in `execution/live_executor.py`, `execution/models.py` | `_chain_states`: cumulative fill, base fee, start of each chain | `on_partial_fill`, `on_full_fill` |
| Order manager | `execution/order_manager.py`, `order_state_machine.py` | `_positions`: remaining size, status, TTL, brackets | `on_fill`, `on_tick`, `force_close`, `execute_close` |
| Kill switch | `ops/panic.py`, `ops/kill_switch.py` | the flag file, an optional cache | raise, clear, check, `emergency_shutdown` |
| Portfolio | `strategy/state.py`, `state_update.py`, `integration/portfolio_manager.py` | bankroll, P&L, peak, open positions, exposure by token and wallet, cooldown; a checkpoint file | `on_fill` (entry, exit), `reset_daily_pnl`, save, load |
| Idempotency locks | `execution/idempotency.py` | a state file of keys and expiries, a temporary file | `acquire_lock`, `release_lock`, `prune`, `check` |
| Balance reconciliation | `monitoring/state_reconciler.py`, `state_reconciler_worker.py` | local balance, errors, sleep, shutdown flag | check, adjust, alert, sleep, stop |
| RPC client | `ingestion/rpc/client.py`, `batcher.py`, `cache.py` | batch queue, timer, lock, list of pending futures, cached keys | request, flush, timer, retry, next endpoint |
| Realtime runner | `integration/realtime_runner.py`, `ingestion/sources/rpc_source.py`, `integration/portfolio_stub.py` | a cursor per wallet, a paper portfolio | poll, process a trade, book it |
| Paper pipeline, risk engine | `integration/paper_pipeline.py`, `risk_stage.py`, `strategy/risk_engine.py` | three tables of counters, rows, a paper portfolio | one line of input after the other |
| Config hot reload | `config/hot_reload.py`, `runtime_schema.py`, `integration/config_loader.py` | current config, last mtime, watcher thread | load, poll, reload |
| Partial-fill handler | `execution/partial_fill_handler.py` | a record per signal | fill, timeout check, forced close, cancel |
| Reorg guard | `execution/reorg_guard.py` | a status per transaction | track, check |
| RPC health and failover | `ingestion/rpc/failover.py`, `monitor.py` | score and errors per endpoint, active endpoint, checker thread | report, check, switch |
| Queues and limits | `execution/queues.py` | a priority queue, a token bucket | push, bypass, pop |
| Trailing stops, safety guards, routing | `execution/trailing_adjuster.py`, `safety/`, `routing/` | a stop per position | tick |
| Strategy, features, models, decoders | `strategy/`, `features/`, `analysis/`, `ingestion/` | none worth the name | floating-point scoring, parsing |

How they interact: the pipelines turn wallet trades into signals; an
idempotency lock is taken before a signal is executed; the executor sends
orders and hands partial fills to the retry manager, which returns the next
order or stops; a fill registers a position with the order manager and books it
in the portfolio, while the fill handler and the reorg guard follow what
becomes of it; ticks and the kill switch make the order manager emit close
actions, which the executor turns into sells; the reconciler compares the
portfolio's balance with the chain. The paper pipeline reads its limits from the
hot-reloaded configuration at the head of each turn. Apart from the files, the
RPC client's threads and the configuration watcher everything is callbacks and
coroutines of one event loop, so what interleaves is: calls in any order, fills
and ticks with forced closes, an awaited RPC answer with what happens
meanwhile, processes sharing a file, and a process dying between two file
operations.

What makes each modelled component correct, and what is hard about it:

* **Retries.** A chain never buys more than was asked for, whatever the fills
  were; its books are the venue's; a client id is used once; chains end. Hard:
  a chain's state is rebuilt from a snapshot in each order, decay truncates to
  integers, several early returns must each clear the state.
* **Order manager.** A position is closed once and only with an action that
  sells it; what is held at the venue is on the books or has a recorded cause;
  TTLs end positions. Hard: a position leaves the book before the sell is
  executed, several positions fall due in one tick, partial closes go through a
  third status, execution can fail.
* **Kill switch.** A raised flag stops the loop, with at most one action late.
  Hard: the flag is read once per iteration, and a look at it that fails counts
  as no panic.
* **Portfolio.** Equity is conserved, the exposure tables match the positions,
  the peak is a high-water mark, a loss past the limit means cooldown, a
  restart forgets nothing that was acknowledged and saved. Hard: incremental
  tables over long sequences; a checkpoint rewritten in place.
* **Locks.** A key is not granted twice within its TTL; grants survive crashes;
  valid locks are not lost; nothing is blocked beyond a TTL. Hard: read, check,
  write and rename are separate steps, all processes share one temporary
  file name, a failed read passes for a shorter file, and anybody may release
  any key.
* **Reconciliation.** Each change of the balance is explained, the balances
  agree in the end, a shutdown ends the loop. Hard: the answer compared is as
  old as the call, and fills are booked during it.
* **RPC client.** Every request is answered or fails, none is sent twice or
  left in the queue without a timer, no batch is too large, and no caller is
  kept for ever. Hard: threads share one queue, one lock that is held during
  the HTTP call, and one list of futures that each flush walks and clears; a
  timer cannot be cancelled any more once its wait is over.
* **Realtime runner.** No trade is skipped or entered twice, limits hold, and
  the four tables of the paper portfolio describe the same entries. Hard: the
  cursor moves before anything is processed, polls are bounded and may fail.
* **Paper pipeline and configuration.** Counters and rows account for each
  line; admissions stay within each limit although limits change under the
  loop; the configuration only moves to newer valid versions. Hard: six paths
  through the loop, two places that book one trade under names they work out
  differently, a file edited between a look at its mtime and a read.
* **Fill tracking.** Finality is never taken back, the fate of a transaction
  that stays is learned, a record is closed once, none stays pending for ever.
  Hard: height and status are read at different moments of a chain that moves
  on, a slot is compared with a height, and timeouts, forced closes,
  cancellations and late fills compete.

`PROJECT.json` lists every hazard at the line where it bites.

## 2. Modules

| Module | Models | Correspondence |
|---|---|---|
| `FillBudget` | what a retry chain promises | a chain has spent something, has at most one order out, and the two never exceed the size |
| `PartialRetry` | retry manager and venue | `chainStates` is `_chain_states`; `PartialFillStops`, `PartialFillRetries` and `FullFill` are the outcomes of the two hooks, with the early returns in `Stops`; `live`, `reports`, `bought` are the venue |
| `OrderManager` | order manager, state machine, executor | `positions` is `_positions`; one action per method; a whole `on_tick` is one step because nothing in it awaits; `closing` are actions handed to the executor, `held` what the venue holds |
| `KillSwitch` | panic flag and main loop | extends `OrderManager`: the loop checks, lets the manager take one of its steps, and runs the shutdown when the check raises; `LoopCheck(FALSE)` is a check whose look at the flag fails (`os.path.exists` itself turns most errors into the same answer) |
| `Portfolio` | portfolio state, manager, checkpoint | `AfterEntry`, `AfterExit`, `UpdateCooldown` are the pure transitions; each accepted fill is followed by truncate, write, return; `Crash` may come between any two |
| `IdempotencyLock` | lock file | names, inodes and handles; every operation is read, open, write, rename, with the `OSError` handler; `Reads` is what `_read_locks` may return, with its swallowed `OSError` |
| `StateReconciler` | watchdog and worker | `pc` is the place of the loop; request, answer, comparison, alert and sleep are separate steps because the loop awaits between them |
| `RpcClient` | client, batcher, cache | `pc` is the place of a thread in `request`, `flush` and their callers; `holder` is the batcher's lock, kept from `TakeQueue` to `Finish`; `counting` is the `threading.Timer` in its wait, `fired` the timer threads past it; `awaits` is the future a thread is in `get()` of; a request's number stands for its `BatchItem` and its future |
| `RealtimeRunner` | runner, RPC source, portfolio stub | a trade's number stands for its signature; `turn` is the place in `tracked_wallets`, `batch` what is left of a poll, `cursor` is `last_signatures`; the entry decision is left open because it depends on snapshots that change between polls |
| `ConfigReloader` | configuration file, its editors, constructor and watcher | a version number stands for an mtime; stat, read and the second stat are separate steps; one setting, `max_open_positions`, stands for the configuration |
| `PaperPipeline` | main loop, risk stage, `apply_risk_limits` | extends `ConfigReloader`: the limit is read at the head of a turn and used until its end; `tally` is the counters of the run, of each mode and of each tier |
| `FillTracking` | partial-fill handler and reorg guard, against a chain | `fills` and `order` are `_partials`; `tracked` is `_pending_txs`; `check` is a `check_tx_status` between its two RPC requests; `ahead` is by how much slots are ahead of block heights |
| `MC*` | | the constants of the instances TLC checks |
| `*Proofs` | | theorems and their proofs; `FillProofs` is about `PartialRetry` and `FillTracking`, `BooksProofs` about `Portfolio` and `StateReconciler`, each other one about the module it is named after and those that module extends |
| `Sums` | | lemmas about sums over finite sets, which several proofs need |

So that one module can extend two components, `StateReconciler`, `FillTracking`
and `ConfigReloader` give their `Init`, `Next` and the like a prefix (`Sr`,
`Ft`, `Cr`).

Sizes and balances are small integers, a price is one of a few levels, a fee is
the exponent of its multiplier, time is a clock of ticks. Operators that
begin with a comment "Variant" are not part of a specification: each is a
plausible mistake in the operator it precedes, kept to show that a property
would notice it.

Variables marked as histories (`closes`, `lost`, `refused`, `overlapped`,
`missed`, `late`, `booked`, `adjusted`, `issued`, `entries`, `seen`, `overrun`,
`entered`, `highest`, the field `realized`) are read by properties and by guards
that bound the model, never to decide what the code does.

## 3. Runs

| Run | Shows |
|---|---|
| `PartialRetry.cfg` | Two chains of 8 units with three retries, every split of every order into fills, drops and expiries at any time: books, ids, ending, and the refinement of `FillBudget` |
| `KillSwitch.cfg` | Three signals on two mints, two slots, the flag raised and cleared at any moment: closing once, holdings, closing by an action, at most one step after the flag and after each look at it that failed, ending of active positions, stopping of the loop |
| `Portfolio.cfg` | Three signals sharing tokens and wallets, exits with losses and gains, daily resets, failed saves, two crashes: money, tables, peak, cooldown, and what a restart remembers |
| `PortfolioCooldown.cfg` | *violation*: a cooldown may never end |
| `IdempotencyLock.cfg` | Two processes, two keys, a crash, reads and writes that fail: locks when calls follow each other, the blocking bound however they overlap |
| `IdempotencyTwoProcesses.cfg` | *violation*: two overlapping calls both acquire a key |
| `StateReconciler.cfg` | Three trades, two faults, a shutdown: explained balance, convergence, ending |
| `RpcClient.cfg` | Two threads, three requests, two failing endpoints: requests kept in one place until answered, queued ones covered by a timer, bounded batches, every request answered, every caller returning |
| `RealtimeRunner.cfg` | Two wallets, up to three trades each polled two at a time, a failing poll: limits, agreement of the books, no trade skipped unless a poll found too many, each reached in the end |
| `RealtimeRunnerRepeats.cfg` | *violation*: a trade is entered twice |
| `PaperPipeline.cfg` | Three lines out of six kinds under three command lines, while the file is edited twice: counters, admissions, and the configuration in force |
| `FillTracking.cfg` | Three transactions for two signals on a chain of four blocks, one of them unstable, slots equal to heights or one ahead, requests that fail: finality, closing once, timeouts, and fates learned |

### Bounds

* Retries: size 8 with the default decay 0.7 gives attempts of 5, 3 and 2
  units, so that truncation, the clamp to the remaining budget and the 99 %
  stop all decide some case. Two chains suffice because a step touches one
  chain only; they show that chains do not disturb each other.
* Order manager and kill switch: three signals for two slots make a fill be
  refused; two positions on one mint fall due in one tick; sizes of 2 allow a
  real partial close. The two prices cross a take profit and a stop. `MaxTime`
  is 2, one beyond the TTL; a fill whose TTL would lie beyond the clock is not
  taken, so that `ActiveEndsOrStopped` never holds or fails because the clock
  stops. `MaxCloses` bounds the close actions ever created for one signal.
* Portfolio: with a bankroll of 12, limits of 25 % and 50 % accept some entries
  and refuse others depending on what is open; a loss of 2 passes the limit of
  1. Two crashes allow a crash in the recovery of another.
* Locks: a TTL of 1 and a clock of 1 let a lock expire and be taken again.
  Three inodes are enough: when a new one is made, no file has the temporary
  name, and what is in use is the state file and the other process's handle.
  With two keys a failed read may get to none, one or both.
  Processes, keys and inodes are interchangeable (no property of the run is a
  liveness property). The run with overlapping calls has no failing reads
  (`ReadFails`), so that the overlap alone breaks its property.
* Reconciler: the amounts 2 and 3 exceed the threshold of 1 each, and their
  difference does not. The backoff is capped at 3 ticks.
* RPC client: three requests for batches of two make a batch full while a
  request is left for the timer or a flush. Two endpoints and one retry give
  every path through `_execute_batch`; faults need no bound, because a batch
  is over after endpoints times (retries + 1) of them. One key lets a request
  hit what another thread's batch has cached. `HasCallable` is TRUE: without
  one the batcher drops its items silently (`batcher.py:134`). `ShortAnswers`
  is FALSE: a node answers each request of a batch. With the other value of
  either, `InOnePlace`, `RequestsAnswered` and `CallersReturn` fail, because the
  items that got no response (`zip`, `batcher.py:141`) have futures that are
  waited for without a timeout.
* Runner: three trades of one wallet against a poll limit of 2 make a poll find
  too many; the second wallet, with one trade, makes the wallets take turns.
  Trades of 2 against an exposure limit of 5, four positions and mode limits of
  3 and 2 let each limit be the one that refuses. A real trade record has
  placeholders, an empty mint and size 0, for what `rpc_source.py:157` has not
  parsed; they are values of `Mints` and `Sizes` like any other, and the proofs
  cover them.
* Pipeline: the limits 1 and 2 let the configuration fall below what is open;
  the six kinds of line reach every path through the loop, an unknown mode and
  a missing profile included. Two edits let the file change between a look at
  its mtime and the read, and once more after it. The watcher is on (`Hot`).
* Fill tracking: two fills for one signal let a late fill meet a closed record;
  a finality depth of 1, a rooted depth of 2 and four blocks give every verdict,
  before and after a reorganisation. `ahead` is 0 or 1 in a behaviour, and
  does not change in it: slots without a block all lie before the blocks of
  interest. A real gap is large, and the verdict by depth is that many blocks
  late; it comes in the end, because a block's slot stays and heights grow. The
  bounds keep it within the run. `Named` is
  TRUE: status entries carry the `signature` they are looked up by
  (`reorg_guard.py:124`), as the answers of the repository's smoke test do and
  those of a cluster do not. With FALSE the guard never learns anything, and
  `FateLearned` claims nothing.

Deadlock is not checked where the system may rest: all signals handled, all
requests made, the clock or the chain at its bound, the loop or the worker
stopped. It is checked for the locks, whose processes can always call again.

### Fairness

* `PartialRetry`: the venue answers or drops every order, and a report is
  handled, being a synchronous call in the code. `ChainsEnd` exempts a chain of
  which the venue dropped an order, because the code has no handler for that.
* `KillSwitch`: the clock runs, the loop does not stop by itself, and every
  mint ticks (the caller's "On tick (periodic)"): strong fairness, because the
  loop may do something else in any single iteration. Any look at the flag may
  fail, but not all of them (strong fairness of a check that succeeds), or a
  panic would stop nothing: the code fails open. Nothing is assumed of the
  operator: `PanicStops` speaks of a flag that stays up.
* `Portfolio`: time passes, trading days begin, saves proceed, and the caller
  keeps offering fills. `CooldownEnds` fails under all of this.
* `StateReconciler`: the event loop runs the worker, the node answers unless it
  fails, and each trade is booked or missed. Faults are finite in number.
* `RpcClient`: threads and timer threads run, and an HTTP call returns or
  raises. Weak fairness is enough: requests are bounded, so the lock is not
  taken away from a waiting thread for ever. Nobody has to make requests.
* `RealtimeRunner`: `run_loop` keeps running until an exception leaves it.
  Wallets need not trade.
* `PaperPipeline`: the constructor and the watcher thread run. Nothing is
  assumed of the loop or of who edits the file.
* `FillTracking`: blocks are produced, and the caller keeps calling
  `check_timeouts` and `check_all_pending`, which comes to each transaction in
  turn: strong fairness for a transaction's height request, which is not
  enabled while another check is under way. Any request may fail, but not every
  height request about a transaction, nor every status request that the node
  could answer: strong fairness of those that succeed.

## 4. What the model found

Shown by a run:

1. **A cooldown may never end** (`state_update.py:205`): it is only ended when
   a fill is accepted, and while it is on no BUY is. With no position left to
   exit it is permanent.
2. **Two processes may acquire one key** (`idempotency.py:100`): the check and
   the rename are separate steps.
3. **A trade is entered twice** (`realtime_runner.py:105`): the cursor is taken
   from the end of a list that begins with the newest record.

Met while modelling, part of the models as the code has it, without a run of
its own:

* A PARTIAL position is never closed (`order_manager.py:166`, `224`):
  `is_active` does not hold for it, although `PR-E.5.md:18` says TTL, TP or SL
  close it. `ActiveEndsOrStopped` speaks of ACTIVE positions for this reason.
* The emergency shutdown looks for status `"open"` (`kill_switch.py:116`),
  which no position has; that it finds none is a lemma behind `LoopUsesManager`.
* Without `--dry-run` the pipeline imports the kill switch by a name
  `ops/panic.py` does not define and dies at its first line
  (`paper_pipeline.py:898`).
* Without an `alert_callback`, the alert of an adjustment raises
  (`state_reconciler_worker.py:166`) and the check counts as failed.
* A rejection by the runner's risk limits has a reason `assert_reason_known`
  does not know, and the exception ends `run_loop` (`realtime_runner.py:206`).
* A panic flag that cannot be looked at counts as none (`panic.py:61`): as long
  as the looks fail, the loop goes on through a panic.
* A read of the lock file that fails passes for a shorter file
  (`idempotency.py:187`): a held key is granted again, and the write that
  follows drops the valid locks that were not read, with no two calls
  overlapping. The three properties of the locks exempt exactly the keys
  concerned (`missed`). `release_lock` does not ask whose the key is.
* A transaction that vanished from the chain stays PENDING for ever: the guard
  says it is DROPPED past its last valid block height (`reorg_guard.py:36`,
  `157`), and `PR-G.5.md:40` that reorgs are detected, but `detect_reorg` never passes one
  (`reorg_guard.py:396`). A transaction with an error is announced as a reorg
  although its block is not rooted and it may still succeed in another.
  A node's `{"Ok": null}` is not recognised as success, so the depth decides,
  and the depth subtracts a slot from a block height (`reorg_guard.py:190`):
  slots are ahead, so that the verdict is late by the gap.
* A late fill turns a closed record into a completed one, a first fill stays
  pending even if it is the whole order, and an adjustment goes to the callback
  twice, the second time unguarded (`partial_fill_handler.py:277`).
* The pipeline never sets the exposure per token, the day's loss or the
  cooldown that `apply_risk_limits` compares with its limits, never closes a
  position, and counts a SELL as one; runner and risk engine read the limit of
  a mode from two different keys of the configuration.
* After a failed read, and after the first load, the watcher acknowledges
  whatever mtime the file has by then (`hot_reload.py:161`, `54`), so that an
  edit in between is not loaded; `EditsLoaded` exempts it (`missed`).

## 5. Proofs

All proofs are checked by TLAPS for every value of the constants that
satisfies the modules' assumptions: any number of signals, chains, threads,
processes, wallets, endpoints, retries, crashes and clock ticks. Every
type invariant is proved (`TypeCorrect`, `SrTypeCorrect`, `FtTypeCorrect`), and
so is every invariant and every action property of the passing runs.

* **`FillProofs`**, retries — `BudgetProtected`, `ClientIdsUnique`,
  `BooksCorrect`, `FeesNotCompounded`, `BudgetImplemented`. That no chain
  overfills is not inductive: nothing in it says that the snapshot an order
  carries is what the chain really filled. `IInv` adds that a chain has one
  outstanding order (at the venue or reported and not handled), that its
  snapshot plus its fill is the venue's count, that an open chain's books equal
  the snapshot, and that the ids after it are unused. Each kind of step
  preserves it, one lemma per kind. `BudgetImplemented` is the refinement of
  `FillBudget`: under `IInv` every step is one of the abstract budget's or
  leaves it alone. All but `TypeCorrect` assume `~Redelivery`: each fill
  reaches the manager once, which is what the synchronous hooks do. With
  redelivery the manager counts a fill twice and reuses a client id.
* **`OrderManagerProofs`** — `ClosedAtMostOnce` needs `Unclosed`: a held
  position was never closed and its fill was delivered, and an undelivered
  fill's was not either; the second half is where `~Redelivery` is used.
  `CapacityKept` needs that the book is finite, and nothing of delivery.
  `HoldingsAccounted` and `ClosedOnlyByAction` share `TrackInv`: a signal has
  one pending action at most, and what is held is what the position and that
  action amount to. They assume `~Redelivery` and that closes are not a dry
  run, in which the venue would keep what the books have sold.
  `LoopUsesManager` shows that the loop with the kill switch refines the
  manager, so that all of this holds in it too; it rests on `BookInv`, by which
  no position has the status the shutdown looks for. `PanicWithinOneStep`
  follows from `PanicInv`: after a step with the flag up the loop is back at
  the check, and a check that missed the flag begins a new count, as the code
  fails open. It assumes that the switch is enabled.
* **`BooksProofs`**, portfolio — `PeakHolds` and `LossCools` by `SoundInv`: not only
  the state, but the acknowledged one and whatever readable checkpoint a
  restart may load have a peak that is no less than the bankroll, and a
  cooldown if the loss is past the limit. `AckedSurvives` by `SavedInv`: a
  readable checkpoint is the acknowledged state, unless the last save was
  swallowed. `EquityHolds` and `ExposureHolds` by `BookedInv`: the money
  equation and both tables hold, again, of the state, of the acknowledged one
  and of the file, because a restart takes over whichever the file has. An
  entry takes its size from the bankroll and adds it to the positions' sum only
  if its signal has no position yet; that is `OpenedInv`: each position, in memory
  or in the file, is one of a signal that was bought before. The tables
  change at one token and one wallet, and the lemmas on `Sizes` (the sum with or
  without one position) say by how much the positions' sum does.
* **`BooksProofs`**, reconciliation — `BalanceExplained`, from the typing of the
  balances and the balance equation itself, over every step that may come
  between the RPC request and the adjustment.
* **`IdempotencyLockProofs`** — `NoLongBlock` from `Shape` (both files, and
  whatever a handle may still write, hold locks of at most one TTL from now),
  for any interleaving. `GrantedOnceInTurn`, `GrantsPersist` and
  `ValidLocksStay` from `TurnInv`, which says, as long as no two calls
  overlapped, what the one process inside a call has read and that the state
  file has every grant that counts, but for the keys a failed read went past
  (`missed`); `ReadsAreWithin` says that what was read is in the file.
* **`RpcClientProofs`** — `QueueCovered` (`TimerInv`: a timer kept in `_timer`
  has not run yet), `BatchesBounded` (`SizeInv`: the queue is below the batch
  size between two steps), `NothingLost` (`PlaceInv`: threads about to queue
  hold different requests, and the holder of the lock is inside
  `queue_request`, `flush` or the timer). The last assumes `HasCallable` and
  `~ShortAnswers`.
* **`RealtimeRunnerProofs`** — `LimitsHold`, `NothingElseSkips`, over
  `TypeInv`, which bounds the chains and keeps the cursor at or before the
  newest trade. `BooksHold` needs `NothingEnteredAhead`, that no trade was
  entered before it was made; then a new trade changes no sum, and an entry
  changes those of its mint and its mode by one trade, a repeated one included.
* **`PaperPipelineProofs`** — `ConfigForward` over `ReadInv`: what is in force,
  and a valid file in the watcher's hands, is older than the file on disk or is
  that file, and nothing is in force while the first load is under way. Edits
  between the look at the mtime and the read do not break this, because each
  edit has a new version.
  `CountsHold`: with the types, the accounting is inductive. A turn counts one
  set of columns in each table, and `ColumnCounted` says that a column of the
  table of modes still adds up to the run's when both are counted; `Ends` lists
  the sets of columns the paths end with, each of which adds one line to both
  sides of the balance. `AdmissionsHold` over `Books` and `Within`: the
  portfolio's number of positions and its numbers by tier are exactly what was
  let in; its numbers and exposures by mode are at least that, because a trade
  is booked under two names that may be one; the limit in hand is no higher than
  the highest that was in force. So a check against the portfolio is a check
  against what was let in.
* **`FillProofs`**, fill tracking — `FinalityHolds` over `FinalityInv`: the
  height a check holds is no higher than the chain is now, and a block's slot is
  no lower than its height, so that what was deep enough for the check is rooted
  at the answer, for any gap between the two. The assumption
  `RootDepth <= FinalityDepth + 1` is what this needs of the cluster.
  `ClosedForGood` over the types of the records.

* **`Sums`** — the community modules sum a function over a set with a fold that
  takes an element by CHOOSE and recurses on the rest. That this is the sum,
  whatever element is taken first, is `SumByAny`, by induction on the size of
  the set. The library's induction theorems take an operator, which the provers
  cannot instantiate; `NaturalsByStep` states induction for a set of numbers
  instead, and each proof here names the set for which it uses it. The fold's
  recursive function is unfolded likewise: the functions that satisfy its
  equation exist (`TotalsExist`) and agree on the finite sets (`TotalsAgree`).
  `SumWith`, `SumWithout`, `SumChanged`, `SumOfSame` and `SumOfZeros` are what
  the proofs about books and counters cite.

What the proofs assume of the constants is in the named ASSUMEs of the
modules. Those that matter to the sums: `Modes` of the runner and `Tiers` of the
pipeline are finite, and the empty name, which the code uses for a missing mode
or tier, is neither a mode nor a tier. The root depth is bounded
by an ASSUME too. What restricts the environment otherwise (`~Redelivery`,
`HasCallable`, `~ShortAnswers`, no dry run, the switch enabled) is a hypothesis of the theorem,
named above; the proofs about the locks and about fill tracking hold with
`ReadFails`, and with `Named`, either way.

Only model-checked: the liveness properties (`ChainsEnd`,
`ActiveEndsOrStopped`, `PanicStops`, `Converges`, `ShutdownEnds`,
`RequestsAnswered`, `CallersReturn`, `EveryTradeReached`, `EditsLoaded`,
`TimeoutsResolve`, `FateLearned`). They rest on fairness, hence on ENABLED, which
the prover does not reason about. No module uses a RECURSIVE operator.

## 6. What is not modelled

* Floating-point rounding, prices and fees beyond their order; logging,
  formatting, serialisation (except that a checkpoint can be torn), metrics.
* `is_panic_active`'s cache, which the main check never turns on.
* A BUY whose signal id is already open, and a SELL that names another token or
  wallet than its BUY: the portfolio accepts both, and its exposure tables and
  positions would then disagree; nothing says what should happen.
* What the RPC client returns beyond an answer being there: `request_all`
  returns the results of the shared list, without cache hits and with other
  threads' requests; a failed batch makes `get_balance` return the exception;
  a method without a TTL of its own asks the cache for a `default_ttl` it does
  not have (`client.py:167`).
* Endpoint health and failover: the client takes the list of endpoints from it
  and never the active one, so that its switches decide nothing in the request
  path. `RECOVERY_BONUS` (`monitor.py:62`) is not used, and successful health
  checks do not reduce an endpoint's errors: only `report_success` does.
* The signal queue and the token bucket: nothing in the repository imports
  them, so there are no callers whose steps could be interleaved.
* The configuration watcher with a file that does not exist yet, two edits
  with one mtime, and its stop.
* Of the pipeline: argument parsing, input formats, the gates' inside, the
  sizing of positions after the limits, and the simulation after the loop.
  They are functions of one line, or floating-point.
* Of the reorg guard: `rollback_position`, which appends a record of what its
  caller decided, and the adjustment history of the fill handler.
* Threads calling the retry manager without its lock; nothing in the
  repository does.
* Trailing stops, safety guards and routing (per-tick calculations), strategy
  scoring, features, learned models, decoders, exporters, transaction builders,
  vendored code and fixtures: no state, or no logic of the program's own.

## 7. What is left

1. `is_panic_active`'s cache and the order manager's callers, once the
   repository has a loop that uses the kill switch.
2. Portfolio entries guarded by the locks in one module, so that a signal
   retried across a minute boundary (`idempotency.py:57`) reaches the portfolio.
3. Endpoint health, once the client reads the active endpoint.
