# A TLA+ development for hlprivateer

hlprivateer is an autonomous trading desk on Hyperliquid: an agent writes proposals, a
deterministic runtime evaluates them, executes them and protects the positions, operators
command it, and an API and a WebSocket gateway show it to the world. This directory holds
TLA+ models of it, TLC configurations that check them on small instances, and theorems
that TLAPS proves for every instance. Paths below are relative to the repository's root;
`state.ts` is `apps/runtime/src/orchestrator/state.ts`, and "the agent's index.ts" is
`apps/agent-runner/src/index.ts`.

Run a check with `tlc -config desk_core.cfg MCDesk` (the table under *Runs* names the module
of each configuration) and the proofs with `tlapm DeskProofs.tla`, and likewise for the other
modules whose names end in `Proofs`.

## Inventory

| Component | State it keeps | Operations | Interacts with | What is hard | What makes it correct |
|---|---|---|---|---|---|
| Trading loop, `state.ts` | `RuntimeState` (mode, positions, orders), `pendingAgentProposal`, `loopRunning`, error counter, cooldowns | `runCycle` on a timer, on ticks and after commands; `execute`; `handleCommand`; proposal, watchlist and intent consumers; reconcile timer | adapter calls, bus publishes, database | two activities interleave at every await; each call may fail; crash between any two; answers come from a cache | HALT stops trading; a proposal trades once; exposure stays bounded; positions are protected or somebody is told; no mode is a trap |
| Mode state machine, `state-machine.ts`, `db/persistence.ts` | `state.mode`, table `system_state` | `canTransition`, `setMode`, `saveSystemState`, `getSystemState` | called by cycle, commands and boot | racing, failing, interrupted writes | a restart resumes the mode the desk was in |
| Risk policy, `state.ts` | `runtimeRiskPolicy`, the cached account value and its peak | `/risk-policy`, the agent's tuning, `normalizeRiskPolicy`, account refresh | commands, risk engine | patches of two senders between an entry's sizing and its check; restart to the environment's policy | an entry is within a consistent policy |
| Risk engine, `packages/risk-engine` | none | `evaluateRisk` | called once per proposal | checks and waivers interact | monotone in the policy; an exit is always possible; reduce-only reduces |
| Live adapter, `services/oms.ts` | client-order ids, stale-order set, caches | `place`, `cancel`, `placeTpsl`, `queryTriggerOrders`, `reconcile`, `snapshot` | Hyperliquid | lost answers, retries, late landing, partial fills, one of SL/TP failing, a mark set before its cancel | an order trades once; a stale order leaves |
| Simulated adapter, `services/oms.ts` | orders, positions, idempotency map | same interface, `modify` | | latency window, pruning of keys, flips of a position | legal order life cycle, the books balance |
| Hyperliquid client, `packages/hl-client` | token bucket and its queue, response cache, shared fetches | `acquire`, `tryAcquire`, `request`, `postInfo`, `destroy` | HTTP | shared fetches that fail, aborts, 429, destruction | everybody is answered; the cache never goes back |
| Market data, `services/market.ts`, end of `state.ts` | mids, book cache, ticks | `latest`, `refresh`, cached book snapshots | two readers, the client's cache | caches above caches, ticks shared between readers | what passes the staleness check is recent |
| Event bus, `packages/event-bus` | Redis streams, cursor per consumer | `publish`, `consume`, `archiveAuditStream` | everything | handler failure after the cursor moved, tail resolution, archive half done | each event handled once, nothing cut that is not archived |
| API store, `apps/api/src/store.ts`, `db/persistence.ts` | snapshot, audits with a hash chain, rows | bus consumers, hydration, inserts | bus, the *same* database as the runtime | two writers of `system_state`, replay after a restart, chain appended by concurrent transactions | the row is the desk's mode, the chain stays one chain |
| Commands: API, gateway, agent, runtime | tokens, sockets, the stream `hlp.commands` | five doors, `resolveIdentity`, `commandPolicy`, the runtime's own check | bus | a message says less of its sender than the door knew | acknowledged is accepted; only administrators change the desk |
| x402 gate, `apps/api/src/x402.ts`, `index.ts` | challenges, entitlements, quota, usage, bans | handshake, verify, gate, upserts | facilitator, database | replayed proofs, requests interleaving at awaits, writes out of order, restarts | nothing unpaid is served, a quota is never overdrawn |
| WebSocket gateway, `apps/ws-gateway` | sockets, channels, windows, bans | connect, subscribe, command, fan-out, heartbeat, sweep | bus, API | channels outlive the moment they were allowed | raw events stay with operators |
| Agent runner, the agent's `index.ts`, `llm.ts`, `trade-journal.ts` | basket, directive, risk memory, signatures, journal | pipeline, handlers, proposals, model calls | bus, model providers | handlers interrupt minutes of awaiting; publications throw; journal and feed race | a denial wins over the strategist; no proposal twice; pipelines and exits end |
| Plugins, SDK, ERC-8004, web, config, telemetry | signals; thin wrappers; presentation | | | | |

## Plan

1. Core: `RiskEngine`, `RiskEvaluation`, `Orchestrator`, `TradingDesk`, `DeskProperties`,
   `DeskHistory`, `DeskProofs`. *Done.* The client's response cache is part of `Orchestrator`.
2. Order adapters `OmsSim` and `LiveOrders`, exchange client `HlClient`. *Done.*
3. `EventBus`; `StateMirror` (the table two processes write) and `AuditChain`. *Done.*
4. `CommandGate`, `Entitlements`, `WsGateway`. *Done.*
5. Agent runner: `AgentRunner`, `LlmCalls`, `DirectivePlan`. *Done.*
6. `RiskPolicy`, `MarketTicks`. *Done.*
7. Proofs. *Done* for every invariant and every action property that a run checks, and for the
   refinement `ImplementsDesk`; what each theorem assumes is under *Proofs*.
8. Left: what is only model-checked, or excepted by a property (*Only model-checked*, *Not
   modelled*): a position under HALT, which nothing audits; symbols named on both sides of a plan.

Modules to be proved about hold no recursive operator; parameters are constants with named
assumptions; actions are one per stretch of code between two awaits.

## Modules

| Module | Models |
|---|---|
| `RiskEngine` | `evaluateRisk` and every check it makes, as operators on a book `[Symbols -> Int]` |
| `RiskEvaluation`, `MCRiskEvaluation` | the engine evaluated on a bounded set of contexts and policies; its properties |
| `Orchestrator` | the trading loop in live mode, its mode persistence, the client's cache, the exchange |
| `TradingDesk` | abstract specification: a proposal is pending, approved, over; it moves the book only while approved, each leg once; a flatten trades each position of one answer once; what is observed was answered |
| `DeskProperties` | invariants, action properties, liveness, the refinement mapping; claims of the documentation |
| `DeskHistory` | the trading loop with a history variable, and the two properties that need one |
| `MCDesk`, `MCDeskHistory` | the instances of the desk |
| `DeskProofs` | theorems about the desk |
| `EventBus` | one Redis stream: publishers, consumer loops, the archiver |
| `OmsSim` | the simulated order adapter |
| `LiveOrders` | the order calls of the live adapter against a lossy exchange |
| `HlClient` | the rate limiter and the response cache |
| `StateMirror` | the mode in the runtime, in the table two processes write, in the API's snapshot |
| `AuditChain` | the hash chain of audits |
| `CommandGate` | identities, the commands' policy, the five ways a command reaches the desk |
| `WsGateway` | sockets, channels, broadcasts, windows and bans |
| `Entitlements` | the payment gate |
| `RiskPolicy` | the policy while it is traded under |
| `MarketTicks` | the age of prices and books |
| `AgentRunner` | the agent's pipeline, its stream handlers, its journal |
| `LlmCalls` | one call of a model |
| `DirectivePlan` | the arithmetic from a model's plan to a proposal |
| `DeskServices` | all modules from `EventBus` on, except `AuditChain`, side by side: their constants with the assumptions the proofs use, their instances, the properties as the runs name them |
| `MCServices` | the values for TLC |
| `SumProofs` | lemmas about sums over finite sets |
| `RiskProofs` | theorems about the risk engine |
| `StreamProofs` | theorems about `EventBus` and `StateMirror` |
| `AccessProofs` | theorems about `CommandGate`, `WsGateway` and `Entitlements` |
| `MarketProofs` | theorems about `RiskPolicy`, `MarketTicks`, `OmsSim`, `LiveOrders` and `HlClient` |
| `RunnerProofs` | theorems about `AgentRunner` |
| `AgentProofs` | those of `RunnerProofs` carried over to the agent's instances, and theorems about `DirectivePlan` |

### How `Orchestrator` corresponds to the code

Node runs one thing at a time and switches only at an `await`. Two activities can be
suspended at once: the cycle (`loopRunning` admits one) and the consumer of `hlp.commands`
(which awaits `handleCommand` before it takes the next). `pc` and `cpc` name the await each
is suspended at; one action is the code from one await to the next.

| Variable | Code |
|---|---|
| `mode` | `state.mode` |
| `pend`, `newest`, `lost`, `stored` | the suspended `saveSystemState` calls, which of them is the newest, whether it failed, and the state of the row `getSystemState` would return. `getSystemState` orders by `updated_at`, taken when the call is made; a row older than the newest one in the table can no longer be seen, so its value is forgotten (`"obsolete"`) |
| `slot`, `sent` | `pendingAgentProposal`; what the agent has submitted |
| `prop`, `healthy`, `dec`, `prev` | locals of `runCycle`: proposal, `dependenciesHealthy`, `risk.decision`, `previousMode` |
| `act`, `todo`, `keys`, `unguarded` | locals of `execute`: action index, legs under `Promise.allSettled`, the idempotency keys (`proposal:symbol:side:type`), legs whose SL/TP are to be placed |
| `snap`, `csnap` | a snapshot that has been read and not yet assigned |
| `view` | `state.positions` |
| `held`, `copy` | the client's cached answers about the account (`packages/hl-client/src/cache.ts`): whether there are any, and what they say. Every read of the exchange goes through them; they expire at any moment |
| `errs` | `consecutiveCycleErrors`, counted up to the threshold |
| `cleft` | positions `/flatten` has still to close |
| `pos`, `trig` | the exchange: positions, and which of SL and TP stand against each |
| `funded` | whether the account value last fetched reaches `minLiveAccountValueUsd()` |
| `used` | how much of each bound has been used |

The cycle runs `Sync`, `Mark`, `AuditProtection` / `RaiseAlarm`, then one of: `SkipHalted`;
`SAFE_MODE` handling (`EnterSafeMode`, `SafeModeHold`, `SafeModeFlat`, `VerifyProtected`,
`VerifyNaked`, `Repair`, `RecheckProtected`, `RecheckNaked`, `RecoverVerified`);
`AwaitFunding`; `NoCandidate`; or `TakeProposal`, `Evaluate`, `Deny` or `StartExecution`,
`PlaceLeg` per leg, `NextAction`, `ReadFills`, `AssignFills`, `StartProtection`,
`ProtectLeg` per leg, `EndProtection`, `Finish`, `Posture`. `CycleThrows` is the catch block,
`CatchThrows` its own publish failing, `Panic` the threshold. `Halt`, `Resume`, and
`Flatten`, `CancelOrders`, `ClosePosition` per position, `ReadFlattened`, `AssignFlattened`,
`Settle` are the commands. `Crash`, `BootRead`, `BootWarmup`, `BootReady`, `BootDone` are
the process's life. The table holds any mode an earlier process may have stored, or none, in
every run, and the exchange any book of the constant `StartBooks`.

The funding gate (state.ts:1094) is a lasting condition: while nothing is open and `funded` is
false, `AwaitFunding` ends every cycle, before the proposal and before the mode of a flat desk are
looked at. `AccountMoves` changes `funded` at any time and as often as it likes.

Abstractions. Notionals are integers and prices do not move the book. Dust positions count as
no position. The legs of an action form a set (a repeated leg has the same idempotency key and
is not sent twice). An order is immediate-or-cancel and fills any part of itself. A trigger
closes its whole position, and reduce-only triggers do not outlive the position they protect.
The account's value and the ticks are constants here (`RiskPolicy` and `MarketTicks` let them
move), ticks being fresh or not at each evaluation. Reads of the protection
(`queryTriggerOrders`) are instantaneous and act one await later. A failed `setMode` publish is the same as a cycle that throws at its next await. In live mode
`adapter.reconcile` reports only WORKING and PARTIALLY_FILLED orders, so the reconcile timer
never calls `setMode` (`services/oms.ts:600`) and is no activity of the model;
`attemptRiskAutoMitigation` is never called.

`TradingDesk` knows of an operator's `/flatten` and of answers: `Close` trades against one
position of the answer the flatten began with, by its size at most, and strikes it off
(`closing`), so a position traded twice or beyond the snapshot's size is no step of it; and
`seen`, which stands for `state.positions`, is only ever set to one of `answers`, what the exchange
has said and the cache, the cycle (`snap`) or the command (`csnap`) still hold. That an answer is
old, or that a fill came between it and the closing order, the abstract desk permits, because the
code does.

`DeskHistory` says what may be relied on in spite of old answers. Its variable `since` holds the
symbols that traded, or lost an SL or TP order, by somebody else's doing since the exchange gave
the answer behind `state.positions`: since the *cache* took it, not since the cycle read it, and
a `/flatten` that assigns `state.positions` under a cycle brings the past of its own answer with it.
`RecoveryIsProtected` and `ExposureWithinWorstCase` are about all other symbols. No action reads
`since`.

### The services around the desk

Each module below stands by itself; `DeskServices` instantiates them side by side, and its
variable `service` says which one a behaviour is about while the variables of the others rest.
What one service needs of another is an action of its environment: any message, any answer,
any delay the other side's module or code allows.

* **`EventBus`** (`RedisEventBus`). A stream only grows at its end and is cut at its front, so
  it is `first..last`. `Publish` adds an entry and, under a cap, may cut the front (`MAXLEN ~`).
  A consumer's loop is `Subscribe`/`TailUnknown` ("$" resolved once, "0-0" if Redis cannot
  be asked), `Poll`/`PollFails`, `Row` (the cursor moves *before* the handler runs),
  `HandlerReturns`/`HandlerThrows`, `Again` (back-off). `ArchiveStart`, `ArchiveBatch`,
  `ArchiveOne`, `ArchiveThrows`, `ArchiveTrim` are the archive of the audit stream, in batches; an
  archiver that throws abandons it, and nothing is cut.
* **`OmsSim`** (`createSimAdapter`). `Place`, then `Fill` after the latency; `Cancel` and
  `Modify` may come in between; `Prune` forgets idempotency keys. Averages and profits are
  exact fractions. `BooksBalance` relates them to a history variable, the cash that fills moved.
* **`LiveOrders`** (`createLiveAdapter`). `Place` starts by asking the exchange for the client
  order id (`Lookup`, `LookupLost` with `withRetry`), sends, and the request lands (`Land`) when
  it wants to, also after the call has given up; the answer may be lost, or say that the order
  rests. `Reconcile` marks stale orders and starts `CancelLookup`/`CancelSend`; `CancelLost`
  leaves the mark. `Crash` empties the memory.
* **`HlClient`**. `Acquire` in `Ask` takes a token or queues; `Refill` and `StartupOver` drain
  the queue in order. A `read` shares the fetch that is under way (`shares`), `post` is
  `postInfo`, which does not share, `order` is uncached. `TooMany`/`AskAgain` is the second turn
  after 429, `Abort` the signal, `Destroy` the end of the client. Versions of the exchange's
  state (`world`) say how old an answer is. `ReadNeverGoesBack` is stated for reads of the
  transport: `postInfo` shares nothing, and its older answer can replace the newer.
* **`StateMirror`**. `SetMode`, `Publish`, `Cycle`, `RuntimeRestart` are the runtime;
  `ApiStart`, `Connected`, `Hydrate`, `Consume`, `PatchRisk`, `Insert`, `InsertFails`,
  `ApiKilled` the API, which on every start replays `hlp.ui.events` from "0-0" and inserts each
  mode it meets into the table from which the runtime resumes. Of the rows only the newest counts;
  inserts under way are kept in the order of their `updated_at`, and land in any order.
* **`AuditChain`**. `saveAudit` starts a transaction nobody waits for; `Select` reads the newest
  row's link, `InsertAndCommit` adds the row.
* **`CommandGate`**. The doors are `OperatorCommand`, `PatchConfig`, `AgentCommand`,
  `SocketCommand` and `RunnerCommand`; `commandPolicy`, `tierCaps`, `operatorIdentity`,
  `agentIdentity`, `publishedRole` are the code's tables; `runtimeAccepts` is the check of
  `handleCommand`, which sees only the message. `RuntimeAttaches` loses what was
  submitted while the runtime was away, because its consumer starts at "$".
* **`WsGateway`**. `Open`, `Closed`, `SubAdd`, `SubRefused`, `SubRemove`, `BadMessage`, `Command`,
  `UiEvent`, `AuditEvent`, `Heartbeat`, `WindowEnds`, `BanEnds`. A delivery may be dropped for
  a socket that does not keep up.
* **`Entitlements`**. `Handshake`, `Verify`/`VerifyFails`, and the gate in two steps: `Enter`
  up to the await of the entitlement, `Decide` after it. `Upsert` lands writes in any order;
  `ApiRestarts` empties memory.
* **`RiskPolicy`**. `RiskPolicyCommand` (parse, merge, normalise), `AgentCommand`, `ProposeEntry`
  sizes an entry under the policy of that moment and `EvaluateEntry` checks it under the
  policy of the later one; `RefreshAccount` keeps the peak. Three fields of the seven;
  `maxDrawdownPct` stands for the other four, which are checked by the same kind of comparison.
* **`MarketTicks`**. A price *is* the moment it was asked for, so its age can be compared with
  the staleness limit. The cycle and `/flatten` are the two readers; they share the adapter's
  fetch, the two caches, and the adapter's tick object, into which the depth is written.
* **`AgentRunner`**. `pc` names the await of the one pipeline; `OnStateUpdate`, `OnPositions`,
  `OnNoPositions` and `OnRiskDecision` are the handlers that interrupt it; `Load` and `FlushLands`
  the journal. `Environment` is the desk: it takes proposals, denies, changes its mode. The
  instances are `agent` (denials), `faulty` (publications that throw, mode changes) and `boot`
  (two symbols, journal, crash); they are instances of `RunnerProofs`, which extends `AgentRunner`,
  so that its lemmas are theirs too.
* **`LlmCalls`**. `Resolve`, `Answer`, `AttemptFails`, `UsageLimit`, `Hang`, `Timeout`, `FallBack`;
  what the search for a command finds is cached for the process's life, as in the code.
* **`DirectivePlan`** evaluates `normalizeDirectivePlan` and `buildDiscretionaryProposal` on plans
  of up to `MaxLegs` legs, as functions from symbols to legs like the maps of the code. The two
  properties are stated as the code keeps them: two legs of one symbol on *both* sides keep the
  first leg's levels, and a rounded or dropped leg moves the net by up to what it was worth.

## Runs

| Run | Module | Result | Question |
|---|---|---|---|
| `risk_engine` | `MCRiskEvaluation` | holds, 450 thousand states | do the checks undo each other (`TighteningNeverApproves`), what can stop it from closing (`FullClosePassesAccountLimits`), does reduce-only reduce (`ReduceOnlyNeverGrows`) |
| `desk_core` | `MCDesk` | holds, 1.28 million states | types; `DurableMode` and its inductive form; HALT (`NoNewLegsWhileHalted`); `ImplementsDesk` |
| `desk_execution` | `MCDeskHistory` | holds, 2.1 million states | partial execution (`ExposureWithinWorstCase`), recovery (`RecoveryIsProtected`) |
| `desk_liveness` | `MCDesk` | holds, 188 thousand states | `CycleEnds`, `NakedIsNoticed`, `SafeModeEnds`, `FlatLeavesTrade`, `ModeGetsDurable` |
| `services` | `MCServices` | holds, 679 thousand states | sixteen invariants and two action properties, one or two of each service |
| `services_liveness` | `MCServices` | holds, 279 thousand states | `EntryArrives`, `StaleOrderLeaves`, `CallerIsSettled`, `MirrorFollows`, `PipelineEnds`, `ExitIsNotForEver`, `CallEnds` |
| `halt_order` | `MCDesk` | violated | docs/SPEC.md:448, HALT rejects all new orders |
| `halt_lasts` | `MCDesk` | violated | docs/SPEC.md:928, HALT is a forced stop |
| `safe_mode_left` | `MCDesk` | violated | state.ts:912 and 1602, SAFE_MODE is left only protected |
| `entry_guarded` | `MCDesk` | violated | README.md:98, SL and TP are placed at entry |
| `audit_chain` | `AuditChain` | violated | apps/api/src/db/persistence.ts:449, the transaction prevents the chain's race |
| `drawdown_waiver` | `MCRiskEvaluation` | violated | docs/SPEC.md:449, the DRAWDOWN waiver is for reducing exits |

What the properties of the desk and of the risk engine say beyond their names:

| Property | Says |
|---|---|
| `FullClosePassesAccountLimits` | an exit of the whole book is denied *exactly* under HALT, for an external agent, with dead dependencies where the policy fails closed, on missing, stale or thin market data, and when it expects more slippage than `maxSlippage`. The slippage limit is thus the one limit of the policy that can keep the desk from closing (risk-engine index.ts:297); account, drawdown, leverage, exposure and SAFE_MODE cannot |
| `ImplementsDesk` | the trading loop, with the cache and every command, does only what `TradingDesk` permits |
| `ExposureWithinWorstCase` | while legs are placed, a symbol that nobody else moved since the decision's answer stays within its worst case: no leg trades twice or beyond its size |
| `RecoveryIsProtected` | SAFE_MODE ends by itself with no position without SL and TP, but for symbols that moved since the answer |
| `NakedIsNoticed` | a position without SL or TP gets both, is closed, or puts the desk in SAFE_MODE. Under HALT the code audits nothing (state.ts:857), and the property claims nothing there |
| `FlatLeavesTrade` | a flat desk leaves IN_TRADE, or the account value is below the minimum. With the value below it for good, the desk stays in IN_TRADE for good (state.ts:1104); once the value is back, the next cycle takes it to READY |
| `CycleEnds`, `SafeModeEnds`, `ModeGetsDurable` | a cycle gives `loopRunning` back, SAFE_MODE is no trap, a mode reaches the database unless its write failed |

What the services' properties say:

| Property | Says |
|---|---|
| `DeliveredOnce`, `EntryArrives` | a consumer's loop hands each entry to its handler once, through throws, failed polls and cuts, and reaches every one that is still there |
| `ArchivedBeforeCut` | no audit entry is trimmed before the archiver has stored it, also when it throws half-way |
| `BooksBalance`, `CancelledBeforeFillNeverTrades` | the simulator's profit and position account for all cash; an order cancelled in its latency never trades |
| `TradesOncePerKey`, `StaleOrderLeaves` | asking again for a key trades again only if the first request landed after its call gave up; a stale order leaves unless its one cancel failed |
| `ReadNeverGoesBack`, `CallerIsSettled` | a shared read never replaces a newer answer; every caller is answered or refused |
| `RowIsModeWhenCaughtUp`, `MirrorFollows` | once the API has caught up, the row a restart resumes from is the desk's mode; the snapshot does not keep an old mode |
| `AcknowledgedIsAccepted`, `DeskChangedByAdminsOnly` | the door's check and the runtime's agree; changes are administrators' or the desk's own agent's |
| `RawEventsStayInside` | unsanitized events reach operators' sockets only |
| `ServedAsPaidFor` | no request is served unpaid or beyond the quota, whatever order requests, writes and restarts come in |
| `RecoveryOverridesStrategist`, `NoProposalTwice` | a denial in force turns the strategist's answer into an exit; no proposal is handed over twice in a row |
| `PipelineEnds`, `ExitIsNotForEver`, `CallEnds` | the agent's pipeline ends, also one whose publication throws, and model calls end; an exit is not repeated for ever on a flat and ready desk |
| `JournalCoversPositions` | what the desk reports as held has an open trade in the journal, also when the load finishes late |
| `GuardsOnRightSide`, `PlanWithinCaps` | SL and TP of a proposal are on the right side of the mark; a normalised plan is within both caps |
| `EntryWithinLimits` | an entry passes only within a consistent policy, a known account value and its drawdown |
| `CheckedBookIsRecent` | a book that passes the staleness check is no older than the limit, one flight and the client's cache together |

### What the violations show

* `halt_order`: `execute` reads the mode once per leg while it collects an action's legs
  (state.ts:1388) and awaits between that and the order. `/halt` in between does not stop
  legs already collected. What does hold, and is proved, is `NoNewLegsWhileHalted`.
* `halt_lasts`: a flat desk in SAFE_MODE awaits its health checks and then sets READY without
  looking at the mode again (state.ts:1069), and HALT to READY is legal, so a `/halt` during the
  checks is lost. The end of a cycle that executed a proposal does the same when nothing is held
  and the mode is not READY (state.ts:1292); the run shows the shorter way.
* `safe_mode_left`: the end of a cycle that began in READY moves SAFE_MODE, set by failing
  SL/TP placement, to IN_TRADE (state.ts:1290). `NakedIsNoticed` shows that a later audit
  finds the position.
* `entry_guarded`: after the fills `execute` reads the positions through the client
  (state.ts:1508), whose cache may hold for four seconds the book from before the fill. The
  entry's leg is then found without a position and skipped (state.ts:1520), and the execution
  ends without SL and TP and without SAFE_MODE. Again `NakedIsNoticed` is what is left.
* `audit_chain`: `saveAudit` reads the previous hash and inserts in one transaction at
  the database's default isolation, and calls are not serialised: two rows follow the same one.
* `drawdown_waiver`: a proposal labelled EXIT with no position open
  (risk-engine index.ts:264).

### Observed while modelling, and part of the models

These follow from the code, contradict nothing it says of itself, and are built into the
models as they are; the properties above are stated so that they hold with them.

* The error counter is reset at mark-to-market (state.ts:847), so errors after it in a
  cycle do not add up to SAFE_MODE.
* A command whose audit cannot be published is not carried out although its acceptance was
  recorded (state.ts:1943).
* The agent records a proposal's signature before it publishes (the agent's index.ts:4998): one
  whose publication throws is not sent again until something about it changes.
* A provider's command that was not found once is not looked for again (`LlmCalls.Search`).
* `modify` of the simulator changes an order's notional, not the quantity its latency will fill.
* While a restarted API replays the stream, the newest row of `system_state` is an old mode; a
  runtime that restarts in that window resumes it (`StateMirror`).
* A stale order whose one automatic cancel failed stays (services/oms.ts:619), and a request that
  lands after its call gave up can trade a key a second time.
* Actors of one identity share their abuse window: sockets without a token count as one
  actor, and a ban does not close sockets that are open.
* The minimum notional of a leg may be configured as 0 (the agent's config.ts:58); then a symbol
  whose legs cancel out, or a leg of nothing, passes as a LONG of notional 0.
* With the client's cache a snapshot may miss a position that was opened within its four seconds,
  and SAFE_MODE can then end by itself while that position lacks SL or TP. `RecoveryIsProtected`
  excepts it as a symbol that moved since the answer.
* A trigger, or a `/flatten`, that closes a position between two legs of an exit lets the
  remaining leg open one on the other side: the model's orders, like the code's, are not
  reduce-only. `ExposureWithinWorstCase` excepts that symbol.
* A desk whose losses take the account value below the minimum stays in IN_TRADE, flat, until the
  value is back (state.ts:1104).
* A `/risk-policy` patch that lowers `maxLeverage` below the target is refused whole.

### Bounds, and why they are enough

The desk. `MaxFaults` counts failed calls, `MaxCrashes`, `MaxCommands` and `MaxFires`
(exchange-side triggers) their events; each proposal is submitted once. `desk_core` has one
command, any of the three, one fault, one crash, one trigger, an entry and an exit, under a cache:
every race of two writers of the mode (the command's and the cycle's), and every command at
every await of an execution. Every run of the desk starts from any stored mode, so what a second
command would find, a desk already halted or in SAFE_MODE, is there without the first; none has
more than one command. `desk_core` starts from an empty exchange and lets the process crash, so the
books it restarts with are those of its own entries. `desk_execution` has no crash and starts
instead from each book a life may have left (nothing, a position without SL and TP, one with both).
It takes two symbols and a rotation of two actions that fill in part, with the cache, any of the
three commands, one trigger and one fault: enough for a stale answer to meet a fill, a trigger or a
flatten, and for a repair to fail. `desk_liveness` takes one proposal, whose first action has a leg
without take-profit and is skipped, and one of each event but a crash (a process that dies of a
failing publish or write is restarted in it): liveness is about what follows the last of them.
There alone the account value crosses the minimum, unboundedly; elsewhere `Fundings` keeps it
above, and the gate never closes. The error threshold is 2 in `desk_execution`, where a cycle that
throws is a transient error and the next one goes on, and 1 elsewhere, where it puts the desk in
SAFE_MODE: reaching the code's 5 only repeats `CycleThrows`. `MCRiskEvaluation` takes books of two
symbols from {-1, 0, 1, 3} and legs of 1 or 3, so that a leg reduces, closes, or flips a position,
under four policies of which some are comparable and some are not, and of which one does not fail
closed.

The services. `MCServices` names every bound; the choices behind them:

* Bus: three entries, batches of two, one consumer from the tail, two faults: a batch that is full
  and one that is not, a throw in each place of a batch, a restart after it. The cap is 0
  (none) or 1.
* Simulator: two keys, two orders, quantities 1 and 2, prices 1 and 3: a fill adds, reduces,
  closes and flips, at a profit and at a loss, and two orders overlap in their latency. Live: one
  key, asked for three times (first, retry, after a restart), two faults.
* Client: two callers, a bucket of two refills of which a request costs both (so one runs and one
  waits), one failure, abort or destruction, two versions of the exchange's state.
* Mirror: two modes, three announcements, three inserts under way, two restarts or lost writes of
  either process: an old message, the current one and the replay of both.
* Commands: all seven of them, every door, one message, one outage: each message is
  checked by itself. MFA is required and insecure tokens are allowed, the setting with all doors open.
* Gateway: one socket that changes hands between an agent and an operator, a ban after two bad
  messages, one command per window. Payments: one challenge, two requests in the gate at once, a
  quota of two, one restart: the second request is the one that must not overdraw.
* Policy: leverages 1 and 2, drawdowns 40 and 100, two patches, one restart, an account worth 0, 1
  or 2: 0 is the value the drawdown check lets pass.
* Ticks: a mid is kept 3 steps, a book 2, the client's copy 2, the staleness limit is 1, a flight
  1, over 4 steps: every cache can expire in a run. The limit lies below the caches' lifetimes, as
  a policy may set it (its minimum is 300 ms, a book is kept 2.5 s), so that a cached book may
  be stale; with the default's order (the limit no shorter than a book's life) the property holds too.
* Agent: one symbol where a denial meets the pipeline, one undelivered denial at a time; one fault
  and one mode change; two symbols, a fixed basket of one of them and a crash for the journal (a position
  outside the basket). Models: two attempts, two usage limits. Plans: up to two legs of
  notional 1 (below the minimum of 2), 2 (the minimum, which scaling drops) or 16, caps of 0 (none)
  and 9, which one leg of 16 exceeds and two of 2 do not.

`services_liveness` runs the services with liveness properties only. No service of it is the payment
gate, so its single request says nothing there.

Deadlock is checked in every run of the trading loop. `RiskEvaluation` stops after its one
evaluation, and the services stop where their bounds are used up.

### Fairness

`Orchestrator.FairSpec` assumes that the event loop goes on: weak fairness of the boot (the process
manager restarts the runtime), of the cycle's own steps and of `/flatten`'s (a suspended
await returns, the timer fires), and of each database write. Strong fairness is
assumed of `AuditProtection` alone: a cooldown skips the audit in some cycles and elapses
in others (state.ts:859), so a desk that cycles for ever audits again and again. No fairness is
assumed of the agent, the operator, triggers, faults or crashes.

The services assume weak fairness only, of steps that a timer or the event loop takes: a consumer's
loop (not its publishers); the reconcile timer and a cancel that was started (not the
exchange); the refill timer, the end of the client's start-up and the end of a request, which has a
timeout; the runtime's cycle and publication, the API's consumer, connection, hydration and
inserts; the agent's own steps and handlers, its restart by the process manager, and the ageing of a
denial; the steps of a model call, among them its timeout. Each module's `Fairness` states it,
and `DeskServices.MCFairness` repeats it for the service a behaviour is about.

The liveness properties therefore say what the code achieves by itself once faults stop. The bounds
make faults stop; with faults for ever no such property could hold.

## Proofs

Every invariant and every action property that a passing run checks is a theorem, and so is the
refinement of `TradingDesk`. The runs show them on small instances; the theorems hold for every
value of the constants that the assumptions below allow.

| Module | Theorem | States |
|---|---|---|
| `DeskProofs` | `TypeCorrect` | `TypeOK` |
| | `NewestWriteWins`, `ModeIsDurable` | `ModeWillBeDurable`, `DurableMode` |
| | `HaltAdmitsNoLegs` | `NoNewLegsWhileHalted` |
| | `RecoveryProtects` | `RecoveryIsProtected`, of `HSpec` |
| | `DeskIsImplemented` | `ImplementsDesk` |
| | `ExposureIsBounded` | `ExposureWithinWorstCase`, of `HSpec` |
| `RiskProofs` | `TighterNeverApproves`, `FullCloseIsJudgedByItself`, `ReducingNeverGrows` | `TighteningNeverApproves`, `FullClosePassesAccountLimits`, `ReduceOnlyNeverGrows` |
| `StreamProofs` | `EntriesDeliveredOnce`, `AuditsArchivedBeforeCut`, `StoredModeIsTheDesks` | `DeliveredOnce`, `ArchivedBeforeCut`, `RowIsModeWhenCaughtUp` |
| `AccessProofs` | `RawEventsInside`, `RequestsArePaid` | `RawEventsStayInside`, `ServedAsPaidFor` |
| | `AcknowledgedNotRefused`, `AdminsChangeTheDesk` | `AcknowledgedIsAccepted`, `DeskChangedByAdminsOnly` |
| `MarketProofs` | `EntriesWithinLimits`, `CheckedBooksAreRecent` | `EntryWithinLimits`, `CheckedBookIsRecent` |
| | `CancelledNeverTrades`, `BooksAlwaysBalance` | `CancelledBeforeFillNeverTrades`, `BooksBalance` |
| | `KeysTradeOnce`, `ReadsGoForward` | `TradesOncePerKey`, `ReadNeverGoesBack` |
| `RunnerProofs`, `AgentProofs` | `DenialsOverride`, `ProposalsAreNew`, `PositionsAreJournalled` | `RecoveryOverridesStrategist`, `NoProposalTwice`, `JournalCoversPositions` |
| `AgentProofs` | `GuardsAreOnTheirSides`, `PlansAreWithinCaps` | `GuardsOnRightSide`, `PlanWithinCaps` |

### What is assumed

Assumptions about constants stand in the module that declares them, and TLC evaluates them in the
runs.

* `Orchestrator`: the empty slot is no proposal; the error threshold is positive; bounds are
  natural numbers; commands are the three modelled; a proposal has the shape of
  `packages/contracts`, a list of actions that is not empty, each with finitely many legs; the books
  found at the start are books. `Symbols` may be infinite, and nothing is assumed of the policy, the
  account and the ticks.
* `RiskEvaluation`: finitely many symbols and legs, integer positions and account values (the
  account may be negative), natural limits, prices and slippages.
* `DeskServices`: bounds, quantities, prices, quotas and times are natural numbers; a batch, the
  cost of a request and the life of a cached answer are at least 1; a policy's fields are
  positive, as its schema demands, and an account's value is not negative. Notionals of plans are
  natural numbers in the unit that a proposal rounds to, and the minimum of a leg may be 0.

No theorem has a hypothesis of its own: `RecoveryProtects` and `ExposureIsBounded` hold with the
cache or without, and with every command, trigger, fault and crash. `HSpec` is `Spec` with the
history variable, whose next value every step determines.

### Along which argument

The trading loop. `TypeOK` is not inductive: `StartAction` indexes `prop.actions`, so `IInv` adds
`PlanKept`: a cycle that works on a proposal has one, and while it places legs its action index is
an index of the plan. `DurableMode` is not inductive either: it speaks of moments without a write
under way, and what matters is what the writes under way carry. `ModeWillBeDurable` says it: the
newest write carries the mode, and once it has landed any other write under way is one the table
will hide; with `DownIsFresh` (a boot starts with nothing suspended) it is inductive.
`NoNewLegsWhileHalted` needs the types alone: HALT is read again for each action, and elsewhere
the legs only shrink.

Decisions on old answers. `AnswersInv` compares the kept answers with the exchange: outside
`since.kept` the cached answer has the positions of the exchange, and outside `since.command` the
answer a `/flatten` works with. `CycleInv` does so for the cycle, await by await, outside
`since.cycle`: first of what it has read and not yet assigned, then of `state.positions`; and when
it is about to leave SAFE_MODE, every position is closed or has both orders. Each step either
leaves a symbol alone or puts it into `since`. The two are inductive together with `IInv` and
`LifeInv` (`HistoryInv`), and `RecoveryProtects` follows from `CycleInv` at the two steps that leave
SAFE_MODE.

Refinement. The mapping needs that a proposal is in one place. `LifeInv` says so: it is in the
slot or with the cycle and never in both, it is remembered after it was sent, a decision is kept
to the end of its cycle, and the legs still to be placed are of the action at hand. Then every
step of `Next` is a step of `TradingDesk` or a stutter (`RefineStep`): a submission
(`ProposeStep`), an expiry (`ExpireStep`), a verdict (`EvaluateStep`, which carries the three
checks that `TradingDesk` promises of an approval from `evaluateRisk` to the abstract guard in
`ApprovalChecked`), a leg that trades (`PlaceStep`), a leg that is given up because the action
ended, HALT was set or a call threw (`ForgoStep`), the end of the proposal (`FinishStep`), or an
order of a flatten (`CloseStep`). In each of them what the loop observes is an answer that was
there (`AnswersKept`, `SnapshotAnswers`, `ObserveStep`), and a flatten begins with one, strikes
positions off and ends (`OperateStep`).

Exposure. `FillsInv`: while legs are placed, the position in a symbol outside `since.cycle` has
moved from `state.positions` by no more than the spent legs of each side, and what is spent and what
is still open are together no more than the proposal's legs (`LegsAreFinite` makes the sums
finite). A position between two bounds is no further from zero than the further of them
(`BetweenBounds`), which is the symbol's worst case.

The services. The inductive invariants say what the code relies on and does not write down:

* `BusIInv`: the batch at hand is what follows the cursor, without a gap; what is before the
  cursor was delivered once, what is after it never; up to its own cursor the archive has stored
  everything but its batch.
* `MirrorIInv`: once the API has handled what the runtime announced, the row that will be newest
  when all inserts have landed carries the API's mode or the runtime's, and while it hydrates, the
  mode it read.
* `WsIInv`: a socket has only the channels its actor may read. `GateIInv`: every message that can
  change the desk is one that the runtime accepts. `EntIInv`: an entitlement that can still be
  served is in the cache, and its quota there and what it has served are within what was sold.
  After a restart the table may remember a larger quota, but then nobody can prove a payment for
  it any more.
* `PolicyIInv`: the policy is consistent and the peak is the highest value read. `TicksIInv`: the
  age of each of the layers, the client's cache, the book cache and the ticks, with what is in
  flight.
* `OrdersIInv`: an order in its latency has not traded. `BooksIInv`: the sum of cash and open cost
  as fractions, with positive denominators. `LiveIInv`: of the orders of a key at most one did not
  come too late, and while its request is awaited none is at the exchange but those. `ClientIInv`:
  at most one shared read is queued or under way, none while its answer is cached, and who waits
  is in the queue once.
* `RecoveryIInv`: an entry's plan is reached without a denial in force. `SignatureIInv`: the
  signature kept is that of the last message, and it changes before the next one is handed over,
  so that a throw leaves it right. `RunnerProofs` proves them of `AgentRunner`, `AgentProofs`
  transfers them to the three instances.

Plans and sums. The sum of a function over a finite set is a fold, defined by recursion on the
set. `SumProofs` shows that it adds one element at a time and what follows (bounds, monotony,
linearity, splitting), by induction on the size of the set; the induction is a theorem about a
*set* of subsets, so that it needs no operator as a parameter. On it rest the gross exposure of
the risk engine (`RiskProofs`), the worst cases above, and the caps of plans: scaling all legs by
one ratio scales gross and net, rounding adds half a unit a leg, and a dropped leg its own worth
(`ScaledAndDropped`, `OppositeSum`, `CapsHoldScaled`).

TLC finds each of these invariants true in `desk_execution` and in `services` (with a definition
`On("bus") => BusIInv` and the like, for the instance the invariant is about).

### Only model-checked

The liveness properties, of `desk_liveness` and of `services_liveness`: fairness speaks of
ENABLED, which is outside the prover's reach. `AuditChain` and `LlmCalls` have no theorem: the
first is there for the run that is violated, the second for a liveness property.

## Not modelled, and why

* Trading loop: simulated mode (the loop then reads its own adapter, whose orders are in `OmsSim`),
  `attemptRiskAutoMitigation` (never called), floor lines, `/status`, `/positions` and `/explain`
  beyond their acceptance (they read), trajectory samples.
* Live adapter: slippage arithmetic, lot rounding, the history of profits, `closeBySize`'s sizes.
* API: read-only endpoints and replay, CORS and request limits (library middleware), the rows of
  positions and orders, which both processes write and nobody reads after a start. The
  facilitator's HTTP calls are outside; its routes keep nothing between requests.
* Event bus: `readBatch` (a read) and the in-memory bus of development, which delivers at once.
* Agent: prompts, research sources and their parsers (their outcome is any plan), floor lines.
* Plugins add signals to published messages, and no state trading depends on them. The SDK and the
  ERC-8004 client are thin wrappers without state of their own. The web front end is presentation;
  configuration, telemetry and infrastructure are parsing, metrics and deployment files.
* Persistence that fails without a retry (`saveSystemState` only logs, state.ts:562): nothing more
  than `DurableMode` holds then, so nothing more is stated.
* The protection of positions under HALT: the code audits none (state.ts:857).
