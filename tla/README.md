# PrivBatch in TLA+

PrivBatch is a Uniswap v4 hook for private batched swaps, and the TypeScript
agents that use it. Traders commit to hashes of swap intents, reveal the intents
in separate transactions, and anybody may execute a batch of revealed intents as
one net swap whose output is shared out. This directory holds TLA+ models of that
program, the TLC runs that check them on small instances, and theorems that TLAPS
proves for every instance.

## Inventory

State, operations and what must hold, per part. Paths are relative to `src/`.

| Part | State | Operations | Hard behaviour | What makes it correct |
|---|---|---|---|---|
| `contracts/PrivBatchHook.sol` | commitments and batch state per pool, used nonces per pool and user, revealed intents and verified hashes of all pools | commit (keccak, or Poseidon with a Groth16 proof), reveal (keccak, ZK), execute a batch (keccak, ZK), `checker` | any account calls anything in any order; maps shared between pools and paths; rounding; partial fills; both execution paths use up the same nonces | no intent executes twice, what executes is what was signed and committed, batches are spaced, nobody's tokens pay for somebody else's batch |
| `contracts/lib/SimpleERC20.sol` | balances | transfer, transferFrom | a transfer that is not covered reverts the whole batch | (used by the hook) |
| `agents/coordination/BatchCoordinator.ts` | registered agents, signals and a countdown per pool, callbacks | register, signal, withdraw, countdown, fire, reset, destroy | timers; `await`ed callbacks during which everything else runs; stale signals | a quorum is never left without a countdown, leads to a batch; the parameters are a fair vote |
| `agents/hooks/RevealManager.ts` | reveals by hash, submitted or not | add, submit, clear | awaits between reading the reveals and marking them | "submitted" is true of the chain |
| `agents/hooks/BatchExecutor.ts` | proofs, monitored pools, polling | poll, execute (ZK, standard), retry | polls overlap, answers get lost, others execute | only executed reveals are forgotten, runs end, submitted reveals get executed |
| `agents/hooks/PrivBatchHookClient.ts` | none of its own | `sendTx`, wrappers | retries | (used by the executor) |
| `agents/TradingAgent.ts`, `PrivBatchAgent.ts` | status, monitoring timer, nonce counters, commitments, metrics | start, stop, pause, resume, poll, commit | overlapping polls, restarts, a wait that fails after the transaction was sent | one timer while it runs; no nonce is used twice between two starts (over a restart they are); what is stored is on chain |
| `agents/AgentManager.ts` | registrations, commitments to be executed per pool, error counts | register, start, stop, collect, offer batches to the hook, restart | both loops overlap themselves and each other, and wait for restarts | every stored commitment is collected, an agent that failed comes back (its batches should be executed: none is) |
| `agents/config/AgentLifecycleManager.ts` | managed agents, restart and error counts, log | start, stop, pause, resume, restart, health check | health checks overlap restarts, its own and the manager's | restart limits are exceeded only by what overlaps, by less than one restart each |
| `agents/coordination/AgentMessageBus.ts` | subscriptions, bounded history, shared state | publish, subscribe, state, clear | a handler that publishes, unsubscribes or throws | everybody who was subscribed is told, once, in order |
| `agents/utils/poolMonitor.ts`, `marketData.ts` | pools, timers, listeners, retry counters; a cache | add, remove, start, stop, poll, retry | retry timers that outlive their pool, late answers, a node or a callback that fails for good | a pool is polled exactly while it is monitored (and should be given up when polling it fails for good: it is not) |
| `agents/hooks/TokenDistributionHandler.ts` | distributions, balances per agent | live events, past events, matching | the same event live and fetched, listening started again | each payment is heard once and credited to its recipient |
| `agents/strategies/*` | price averages, last liquidity, reference prices, cooldown | decide, size | thresholds and limits at their edges, data that is never fetched | a signal can be given when it should be |
| `agents/run.ts`, `config/agentConfig.ts`, `types/` | none | start-up: layers of settings, validation | numbers that do not parse | an agent goes live only with the settings somebody gave |
| `contracts/CommitmentVerifier.sol`, `circuits/`, `contracts/script/`, `scripts/` | none | verification, deployment, demos | | |

The agents commit through the contract; `RevealManager` sends the reveals;
`BatchExecutor` asks `checker` and sends the batches; `BatchCoordinator` hands batch
parameters to callbacks; distributions come back as events. Everything off chain
shares one JavaScript event loop, so an action there is what runs between two
`await`s; everything on chain is one transaction at a time.

`PROJECT.json` lists the hazards, each at its line, with the properties that
would catch it.

## Modules

    IntentLifecycle            what commit-reveal promises (abstract)
      ^ implemented by
    PrivBatchHook              the contract          <-  MCPrivBatchHook
      |  EXTENDS BatchSettlement (netting, slippage, distribution)
      ^ proofs: PrivBatchHookProofs, PrivBatchHookRefinement
                over BatchSettlementProofs (the arithmetic of one batch, of any size)
    BatchCoordinator           <-  MCBatchCoordinator
      ^ proofs: BatchCoordinatorProofs
    BatchExecutor              RevealManager + BatchExecutor + sendTx
                               <-  MCBatchExecutor
      ^ proofs: BatchExecutorProofs
    AgentSystem                everything else in agents/, side by side
      |                        <-  MCAgentSystem
      |  EXTENDS AgentManager (batch side) -> TradingAgent -> AgentStatus
      |          AgentSupervision (restarts) ---------------> AgentStatus
      |          AgentMessageBus, PoolMonitor, TokenDistributionHandler, AgentConfig
      |          Strategies -> MeanReversion -> BaseStrategy
      ^ proofs: AgentManagerProofs (the two managers and the agent),
                AgentSystemProofs (the other components, and all of them together)
    SumTheorems                sums over finite sets, for the proofs

**BatchSettlement** is the arithmetic of one batch as operators on the sequence of
its intents: net deltas, direction, eligible positions, floor shares, the remainder
for the last position, the slippage check.

**PrivBatchHook** has one action per entry point. A transaction that reverts changes
nothing, so a revert is a conjunct that disables the action. `commitments[pool]` is an
array of (hash, revealed) pairs in the code; entries of one hash are
indistinguishable but for the flag, so the model counts them: `pending[p][h]` and
`revealed[p][h]`. `legs` is the history of the executed intents that the events
describe; no guard reads it. The Uniswap swap is external: any fill of at most the net input and
any output the PoolManager holds (`Fills`). A Groth16 proof is valid exactly for the
hashes in `Provable`: proofs can be replayed, since `verifyProof` sees only public
data. `SubmitRevealForZK` may store any intent under a verified hash, as the code does.

**IntentLifecycle** is the contract without reveals, hashes, counters or tokens: an
intent is committed in a pool, then executed at most once, before its deadline, among at
least `MIN_COMMITMENTS` others, with no other executed intent of its nonce, in batches
that are `BATCH_INTERVAL` apart. `PrivBatchHook!Lifecycle` is the refinement mapping:
the status of an intent is read off `revealed` and `pending` at its hash.

**BatchCoordinator**: an action is one turn of the event loop. Times are relative:
the age of a signal, the ticks left of a countdown. `batch` is what this turn handed to
the callbacks. `firing[p][k]` counts the `fireBatchReady` calls that are awaiting
callback `k`, so several firings of one pool may be in progress. `Fire` runs up to the
first await, `CallbackSettles` from one await to the next and, after the last, resets
the pool, whatever arrived meanwhile.

**BatchExecutor**: `run[r]` is one activation of `pollAndExecute` or of a direct
`executeBatchZK`/`executeBatchStandard` call, with its program counter and the locals
that survive an await. A transaction takes two steps: it is mined or refused
(`SendReveal`, `SendBatch`), and it is answered (`RevealAnswered`, `BatchAnswered`); an
answer may be lost, and a call may fail without being mined. The contract appears as
the sets `open`, `stored`, `executed`, `expired`, `cooling`: what `PrivBatchHook` says
of one hash, without tokens. `SomebodyElseExecutes` is there because execution is
permissionless. `StartPolling` runs the first poll at once, `StartPoll` is the interval
timer, which does not wait for a poll that is still running.

**AgentStatus** is the part of `TradingAgent` that everybody who manages an agent
touches: the status and the interval timer. `start()` is two steps, because it awaits the
signer in between; `clearInterval` reaches only the timer that `monitoringInterval` names,
so a timer can be leaked in the model.

**TradingAgent** adds the polls. `monitor[m]` is one `monitorPools` call with the await it
is at (`fetch`, `decide`, `send`, `wait`); the interval timer does not wait for the
previous call. `Decided` is what runs after `shouldTrade`: the strategy's cooldown is set, the
nonce drawn, the transaction sent. The chain is external and mines what it has
accepted at any later time (`Mine`). A commitment is stored only in `Confirmed`;
after `WaitFails` it may be on chain with its intent forgotten, as in the code.

**AgentManager** is the batch side of `AgentManager.ts` over that agent: `Collect` is the end of
`monitorAgents`, `check[c]` one `checkAndExecuteBatches` call that goes through
the pools. Its batches fail, all of them: `executeBatch` encodes
`revealAndBatchExecute(key, SwapIntent[])` (`AgentManager.ts:97` and `:390`), and the hook has
`revealAndBatchExecute(key, bytes32[])` (`PrivBatchHook.sol:574-577`), which looks the reveals up in a
storage that the manager never fills with `submitReveal` (`:591-592`). The selector does not exist,
so `BatchRefused` is the only way the call ends, the lines that mark commitments as
revealed and clear the pending ones are never reached, and the model has no action for them.

**AgentSupervision** has the other side, restarts: `startAll` and the `monitorAgents`
loop of the manager, and the health checks of `AgentLifecycleManager`, for one agent. Each
call is a process and `phase` says what it awaits (see the module's head).
`run.ts` registers an agent with both managers, and neither knows of the other.

**AgentMessageBus**: `publish` calls its handlers without an await in between, and a handler may
call the bus; `delivering` is the stack of `publish` calls in progress. A handler that
throws before its first await ends the delivery (`HandlerThrows`): `catch` guards only
the promise it returns.

**PoolMonitor** counts the interval timers, listeners, polls in flight and retry timers of
each pool, since each may outlive the call that ends the others. `fetchMarketData` catches
what each of its reads throws and falls back to zeros, which are cached like an answer (`Fetch`), so
the node cannot make a poll fail. What can is the callback `onMarketDataUpdate`, which may throw in
any `PollAnswered`; `failing` counts the polls whose rejected promise `handleError` has yet to see,
as other polls go on in between.

**TokenDistributionHandler**: the hook's events in the order in which they are emitted, each
heard by as many listeners as are registered; `FetchPast` and `RecordPast` query them. The two
hashes are terms, `encodePacked` and `encode`, which is all that matters of them.

**BaseStrategy**, **MeanReversion**, **Strategies**: `shouldTrade` of the four strategies with their
default settings as integer arithmetic in units that keep every comparison exact (the
code uses floating point). The averages of the mean-reversion strategy are kept as
fractions: after n updates the mean is `emaA / D^n`.

**AgentConfig**: `main` of `run.ts` with the layers default, file, environment and runner. Fields
that are treated alike are one field; a value is where it came from and what it is
(`good`, `zero`, `NaN`, ...). The poll interval is a field of its own: the validation
refuses no value of it and only warns (`warned`), and the two managers and the agent's own timer treat
it differently.

**AgentSystem** puts these side by side. They share only the agent's status, and
`TradingAgent` lets anybody change that at any time, so what one component can do
does not depend on the others. The composition therefore lets one of them
leave its initial state, the one in `focus`: the invariants of a component hold in the
product exactly if they hold there, and TLC explores a sum instead of a product.

## Runs

| Run | Instance | What it shows |
|---|---|---|
| `hook_keccak` | 1 pool, 5 intents both ways, one nonce reused, one intent expiring, 2 batches of up to 3 | `SingleExecution`, `ExecutedAsSigned`, `BatchesSpaced`, `HookNeverSubsidises`, `OutputFullyDistributed`, `RevealConsumedByExecution` |
| `hook_mixed` | 2 pools sharing hashes and stored reveals, or both paths in one of them over the same nonces; duplicated commitments | `TypeOK`, `RevealedIffExecuted`, `RevealsAreCommitted`, `BatchOnlyWhenChecker`, `ImplementsLifecycle` |
| `hook_minimum` | as `hook_keccak` | violation: a user against the net direction pays and gets nothing |
| `hook_checker` | as `hook_mixed`, 1 pool, keccak only | violation: `checker()` says yes and no batch exists |
| `coordinator` | 3 agents, quorum 2, 2 callbacks, 2 overlapping firings | `TypeOK`, `QuorumIsHandled`, `MedianIsCentral`, `EarlyBatchIsUnanimous`, `QuorumLeadsToBatch` |
| `coordinator_quorum` | 3 agents | violation: a batch fires without a quorum |
| `executor` | 2 ZK reveals, a poll and a direct call, one intent may expire, 1 fault | `SubmittedIsOnChain`, `CleanUpOnlyExecuted` |
| `executor_live` | 2 keccak reveals that make one batch, 2 faults | `TypeOK`, `EveryRunEnds`, `SubmittedGetExecuted` |
| `executor_poll` | polls only, no fault | violation: polling alone never executes |
| `agents` | 2 polls and 2 batch checks of one agent; 1 monitor loop, 2 health checks and 2 other calls; nested publishing; 1 monitored pool; all strategies; 2 payments; all mixtures of settings | `AgentsTypeOK` (all type invariants), `OneTimerIffRunning`, `NonceUsedOnce`, `StoredIsCollected`, `ExcessRestartsBounded`, `ComesBack`, `BusDelivers`, `PolledIffMonitored`, `HeardOnceInOrder`, `ZScoreBounded`, `FetchedDataSignals`, `LiveIsConfigured` |
| `agent_restarts` | 2 health checks, limit of 1 restart | violation: more restarts than the limit |
| `agent_payments` | 1 payment | violation: a payment is credited to nobody |

Every property of a passing run has a mutant in `PROJECT.json`: a definition changed
the way a plausible bug would change it, which TLC then refutes.

`HookNeverSubsidises` speaks of batches in which everybody pays in a currency of the pool.
The delta loop (`PrivBatchHook.sol:700-708`) counts the input of any other currency as the
pool's second, and then nothing ties what the hook swaps in to what it was paid.

**Bounds.** Hook: `MaxTime`, `MaxCopies`, `MaxBatch` and the intents of
`MCPrivBatchHook`. Time runs from 2 to 4 with an interval of 2, enough for two batches
with a deadline passing between them; two copies of a hash are enough for a
duplicate on the ZK path; amounts of at most 3 against a pool of 4 reach uneven
shares, a remainder, partial fills and outputs that round to nothing. Three sells and a
buy give every combination of netting. Coordinator: an agent beyond the quorum separates
"quorum" from "all"; two callbacks and two firings are what an overlap needs;
the two slippages and their rounded mean decide every median case for up to three
voters. A signal is stale after 2 ticks and a countdown takes 2, so that signals are
both fresh and stale when it expires. Executor: a poll and a direct call overlap in
every way two activations can (two polls overlap in `executor_poll`); one retry
distinguishes a retry from the last attempt; `MaxFaults` bounds lost answers, failed calls and
foreign executions together, so that liveness is "after finitely many faults". The
direct call is needed because polls alone do not submit (see the finding).
`PathsOrPools` of `MCPrivBatchHook`, a state constraint, keeps `hook_mixed` to both paths in one pool or
the keccak path in two: what the pools share (hashes, reveals) and what the paths share
(nonces, the counter of revealed entries) is in one or the other.
Agents: `Monitors` and `Checks` of two are what an overlap needs, `MaxNonce` of two gives a
commitment that is pending and one that is collected later. `MaxStarts` is
one, as a second start multiplies the states and touches no property of the run but `NonceUsedOnce`, which
is proved for any number of starts (with two starts and the other components at
their least, TLC finds it to hold in a million states). `HealthRuns` of two with
`MaxTotalRestarts` of one is the smallest overlap that exceeds the limit, and a limit of one
distinguishes the last retry from the others for `MaxRetries` and `MaxConsecutiveErrors`
(counters are capped there, since only the comparison reads them). The bus has two
agents, since an agent does not hear itself, `MaxDepth` of two for a handler that
publishes, `MaxHistory` below `MaxMessages` so that history is cut. `MaxPollRetries` of one and
`MaxPolls` of three let a late poll overlap a failure and a retry. Three prices and three
updates of the averages; market data on both sides of every threshold of the strategies.
`agent_restarts` and `agent_payments` have the least of everything that the behaviour in question
needs, and of every other component the least there can be.

**Deadlock.** The hook runs set `CHECK_DEADLOCK FALSE`: the contract is passive, and when
every commitment slot is used up and time is at its bound nobody has anything to
call. The agent runs set it too: a process that was stopped, that exited or that has used
its bounded nonces, messages and payments has nothing left to do.
In the other runs deadlock is checked.

**Fairness.** `PrivBatchHook` has none: nobody is obliged to call it.
`BatchCoordinator`: time passes, a due timer runs, and callbacks settle. The first
two are the event loop's; the third is an assumption about the callbacks'
authors, as `fireBatchReady` awaits them without a timeout. `BatchExecutor`: the interval
timer fires while polling is on, a step that has its answer runs, and block time passes.
That each transaction is answered one way or another is an assumption on the RPC
provider: `sendTx` awaits `tx.wait()` without a timeout. Nothing is assumed of users,
of `SomebodyElseExecutes` or of successful answers.
The agents: `ManagedFairness` says that the monitor loop ticks while the manager runs,
that a call which is past its test collects, and that batch checks tick and their calls return, `SupervisionFairness` that the loop ticks
and that every awaited start, stop and sleep ends.
Timers are the event loop's; that `getAddress` and the calls of the hook are answered one way or the other is
an assumption on the signer and the node, as the code awaits both without a timeout. Nothing is
assumed of whoever starts, stops, pauses or removes. All of it is weak: each of these actions stays enabled until it is taken or until the
property no longer asks for it.

## What the code does otherwise than it says

1. **Minimum for all users** (`hook_minimum`). `_validateSlippage` and the distribution look
   only at intents that swap the batch's net way. A user on the other side of a netted
   batch pays `amountIn` and receives nothing, although `PrivBatchHook.sol:531`
   and `:607` validate "for all users". (Also, `README.md:245-247` describes the net
   delta as the sum of inputs; the code subtracts the other side's `minAmountOut`,
   lines 700-708, and the model follows the code.)
2. **`checker()`** (`hook_checker`) counts entries: two copies of one hash, or intents
   that have expired, make it say that execution can proceed.
3. **Quorum** (`coordinator_quorum`). The countdown fires without looking at the quorum
   again, and only `withdrawReady` cancels it; unregistering does not.
4. **Auto-execution** (`executor_poll`). A poll executes a pool that has enough *submitted*
   reveals, and only an execution submits reveals.
5. **Restart limit** (`agent_restarts`). "Max total restarts per agent" (`AgentLifecycleManager.ts:68`) is tested
   before the backoff and counted after the restart: health checks that overlap exceed it. What
   holds is that they all together do so by less than one restart each
   (`ExcessRestartsBounded`, proved).
6. **Credits** (`agent_payments`). The hook hashes the packed address, the handler the
   padded one: no payment is ever credited to an agent.

These are in the models as well, each in the action named, but have no run, as a step or two of one
actor show them:

- **The manager's batches** (`BatchRefused`). `executeBatch` is to execute a batch "by collecting reveals
  and calling revealAndBatchExecute" (`AgentManager.ts:359`), but it calls a function that the hook does
  not have (see **AgentManager** above). What it collects stays pending and is offered again
  with every check.
- **Nonces** (`Started`). `start()` sets the nonce counters back to 0 (`TradingAgent.ts:88`), also
  when a manager restarts the agent on its own, so later commitments repeat the nonces of
  earlier ones, which are there "for uniqueness" (`interfaces.ts:188`), and the hook refuses a
  batch with a used nonce. Between two starts a nonce is used once (`NonceUsedOnce`).
- **Poll interval** (`Warns`). The validation warns of intervals under a second
  (`agentConfig.ts:180`), but not of a NaN, of which `setInterval` makes a millisecond like
  of zero and of negative numbers.
- **Dead node** (`Fetch`). `maxRetries` is for "failed operations" (`poolMonitor.ts:21`), but a
  failed read is no failure of a poll: a pool whose node is gone is polled at price 0 for ever.
- **Broken callback** (`PollAnswered`). A callback that always throws is retried for ever, since every poll
  resets the retry counter before it calls it.

Behaviour no document excludes, which the models keep and which shaped the
properties: a swap that yields nothing skips slippage check and distribution, so its
inputs are paid for nothing (`Distributes` guards the legs `ExecutedAsSigned` speaks of);
a partial fill leaves the rest of the net input in the hook; one bad intent reverts its
whole batch; the ZK path's second marking loop uses up a duplicate without executing it;
`fireBatchReady` resets the pool after its callbacks, together with signals that arrived
while it awaited them; one submitted reveal that cannot be executed any more (expired,
executed by somebody else, or in a batch whose answer was lost) makes every
later batch of its pool revert, so `SubmittedGetExecuted` speaks of pools whose
submitted reveals can all be executed (`Executable`); a commitment whose `tx.wait` fails is on chain
and its intent is lost; a stop that comes while `start()` awaits the signer is overridden;
`stopAll` during the first start does not keep the loops from starting; a NaN from the
environment passes the validation, and the life-cycle manager, which takes its limits with `??`,
keeps it (`LiveIsConfigured` is about the other manager, which uses `||`); a negative poll
interval goes live after a warning, and `||` keeps it too; the
momentum strategy cannot trade on fetched data and the liquidity strategy hardly
(`FetchedDataSignals`), as price changes and the sides of the liquidity are not
computed; the "extreme" zone of the mean-reversion strategy is out of reach (proved); a
synchronous throw in a handler ends the delivery of a message. In `MomentumAgent.ts:129` the comment
maps a rising price to ONE_FOR_ZERO, the code and its test to ZERO_FOR_ONE.

## What is proved

All theorems hold for every value of the constants that meets the named assumptions, and so
for any number of pools, users, agents, reveals, messages and overlapping runs. Every
safety property that a passing run checks is also a theorem; the liveness properties are
not.

The assumptions, and why the code justifies them: `ConstantsAssumption` (types; a
Uniswap `PoolKey` is sorted, so its currencies differ) and `HashAssumption` (there are finitely
many `bytes32`; keccak has no collisions and shares no hash with a provable Poseidon
commitment) of the hook; `CoordinatorAssumption` (finitely many agents); `ExecutorAssumption`,
`TradingAssumption`, `SupervisionAssumption`, `MonitorAssumption`, `EMAAssumption`,
`MarketAssumption` (types and ranges of settings and market data); `BusAssumption` (a history
limit of 0 would keep everything, as `slice(-0)` does; the default is 200);
`LayersAssumption` (`loadConfigFromFile` takes the file to have the types of `AgentConfig`).

**Sums and other data.** What a recursive definition computes is a fact by induction, and
the library's induction theorems take an operator that the provers here cannot instantiate. These
proofs use no such theorem: they take the set of counterexamples, which is a set of
naturals, and its least member (`LeastNatural`, from the well-foundedness of <), and
refute that. `SubsetInduction` is the same for the subsets of a finite set.

- `SumTheorems`: `SumFunctionOnSet` adds up every element once. Its definition recurses over a *chosen*
  element, so that one may take any element out (`SumRemove`) rests on two iterators over one set agreeing
  whatever they choose (`IteratorAnyOrder`, `IteratorsAgree`). Then: congruence, monotony, split over a
  partition, scaling, renaming along a bijection, and cardinality as a sum of ones.
- `BatchSettlementProofs`: for a batch of any size, floor shares fit into the output
  (`FloorsFit`); the last eligible position's payout, which is what the others leave,
  is at least its own floor share (`PayoutNat`), so `_validateSlippage`, which compares
  floor shares, bounds what is paid (`MinimumIsPaid`); all payouts add up to the output or
  to nothing (`OutputIsPaid`); and the net input is at most what the users on that side
  pay in (`InputIsCovered`).
- `PrivBatchHookProofs`
  - `TypeCorrect`: `Spec => []TypeOK`. Counters never go negative because a batch has
    pending entries for each of its hashes (`MarksOfPaths`: the second marking loop only
    takes what is there); balances because `Settle` demands the new ones be naturals.
  - `NoDoubleExecution`, `RevealedIsExecuted`, `StoredRevealsCommitted`,
    `BatchesKeepInterval`, `IntentsExecutedAsSigned`: the named safety properties. None is inductive alone. The
    invariant is `IInv`: each of them, with `LegsRecorded`, which ties every leg to the batch
    number and time of its pool, so that a new batch cannot collide with an old one, and so that a leg
    under a keccak hash is known to have used its own intent's nonce. A keccak hash
    fixes its intent and so its nonce, hence a batch never
    has one hash twice (`BatchHashesFresh`), which is what makes the revealed counter
    match the legs.
  - `HookIsNeverOutOfPocket`, `OutputIsFullyDistributed`: action properties, from
    `InputIsCovered` and `OutputIsPaid`. The first needs the condition on currencies named under
    "Runs"; without it the proof fails, and rightly.
  - `BatchNeedsChecker`: a batch has as many entries as positions, each position at least
    the one it marks, so the pool's count is at least `MIN_COMMITMENTS`.
- `PrivBatchHookRefinement`
  - `RevealsConsumedByExecution`: a stored reveal is deleted only by its execution.
  - `HookImplementsLifecycle`: `Spec => Lifecycle!Spec`. Commits map to `Commit` or a
    stutter, keccak batches to `Execute` of the set of their intents (as large as the
    batch, by `BatchSize`), ZK batches to `ExecuteOpaque`, all else stutters.
- `BatchCoordinatorProofs`
  - `EarlyBatchesUnanimous`: the invariant that only registered agents have signals makes
    the comparison of two counts in `evaluatePool` a comparison of sets: a subset as
    large as a finite set is that set.
  - `CoordinatorTypes`, `QuorumAlwaysHandled`, `MedianAlwaysCentral`: the invariant `IInv` adds
    to `QuorumIsHandled` that timers and firings are typed and that a batch handed out is the resolution
    of some signals map (`BatchResolved`), which is how the median, a statement about
    how many voters are above and below, reaches the parameters.
- `BatchExecutorProofs`
  - `TypeCorrect`, which holds the bound on retries.
  - `SubmittedRevealsOnChain`, `ExecutedRevealsCleanedUp`: the invariant `IInv` adds
    `TrueAnswer` to `SubmittedIsOnChain`: a run that holds the answer "ok" but has not yet acted
    on it holds a true one, because what is on chain leaves storage only by being executed
    (`ChainGrows`), by whomever. Without it a step that marks or cleans up could
    rely on anything.
- `AgentManagerProofs`, for any number of overlapping loops, polls and checks
  - `SupervisionTypeCorrect`, `OneTimerWhileRunning`, `OneTimerWhileManaged`. A step changes the status only by one of the operations of
    `AgentStatus` (`OperationStep`, `ManagedOperation`), and `StatusStep` says that those keep
    `OneTimerIffRunning`. It is not inductive alone: a start that fails sets ERROR without clearing the
    timer, which is right only because an agent whose wallet does not match never runs
    (`RunsWithItsWallet`).
  - `StartsHaveCallers`: no agent stays in STARTING for good.
  - `RestartsAreBounded`: `ExcessRestartsBounded` always; the documented limit itself does not hold. The invariant `RestartRoom` adds to the restarts counted those in
    flight: their sum stays below the limit plus the number of checks, since a check
    enters only while the count is below the limit.
  - `ManagerTypeCorrect`: only stored commitments are pending, as nothing takes either away.
  - `NoncesUsedOnce`: the invariant `NonceInv` adds that every hash in use, in a submission, sent or
    mined, is behind the counter (`NoncesBehind`): it is of an earlier start, or its nonce is at
    most the counter. A draw is then new, and stays so when the agent is restarted
    before the transaction is sent.
  - `TradeTypeCorrect`. That what is sent is a commitment (`TradeInv`) rests on a poll having its nonce and its start
    by then, and that on the agent not running before its first `start()` has come back.
- `AgentSystemProofs`
  - `MonitorTypeCorrect`, which holds the bound on retries; `PolledWhileMonitored`, inductive with the types.
  - `ZScoreIsBounded`: the variance of the averages is not negative (`VarianceOK`), and after an
    update with weight k the deviation is (1 - k) times the old one while the variance keeps at least
    k (1 - k) times its square: hence z squared is at most (1 - k) / k.
    `DefaultsNeverExtreme`: with a period of 20 that is 9.5, below 3.5 squared.
  - `FetchedDataIsSilent`: each strategy's decision is `Sound` (typed, and as
    `FetchedDataSignals` wants it on fetched data), by lemmas on rounding: two halves of a total
    of 1000 or more are never imbalanced.
  - `LiveAgentIsConfigured`, which says of a negative poll interval only that it was warned about: each merge of a layer keeps, per field, the value of the highest layer so far
    that gives one, and the types of the numbers.
  - `PaymentsHeardInOrder`: there is one listener at most (`OneListener`), and what has been heard is no
    later than `heard` (`HeardSoFar`).
  - `BusTypes`, `BusKeepsItsWord`: of a call in progress, what it has called and what it has still to call
    make up what matched (`CallsOK`), so it is over when everybody was called; of a topic,
    the numbers go up to the counter (`UpTo`).
  - `SystemRunsComponents`, `AgentsTypeCorrect`, `AgentsAreSafe`: the composition. `SystemSpec` implies the
    specification of every component that shares nothing, so their theorems carry over. The two
    managers share the status of the agent; what either does to it is an operation of the agent, so the invariant
    of the status, that of the nonces and that of the restarts hold with both (`ManagersInv`), while what a start leaves in
    `TradingAgent` is only claimed where starts go through it.

**Model-checked only.** Liveness under fairness is out of the prover's reach: `QuorumLeadsToBatch`,
`EveryRunEnds`, `SubmittedGetExecuted`, `StoredIsCollected` and `ComesBack` are TLC's, and so are the
violations, which need one behaviour each. The models avoid what the provers cannot expand: sums are `SumFunctionOnSet`
and not a fold with a LAMBDA, and the bus filters with `Filtered`, a recursive function, as
`SelectSeq` is opaque to them.

## What is not modelled, and abstractions

- `uint256` is `Nat`: amounts are far from 2^256, where checked arithmetic reverts.
- Allowances are unlimited, as the clients approve them; recipients and users are
  not the hook, the PoolManager or the zero address.
- In the TLC instances, intents trade the tokens of the pool; the definitions and
  proofs allow any token.
- Resolution by "mean", "min" and "max" is modelled (`ResolveConflict`), the run uses the default "median".
- The executor model hands each reveal over once; a pool cleared and filled again
  with the same hashes is not modelled. Reveals are submitted in any order, the
  code uses the order of the map. Delays are not measured: linear or doubling
  back-off (`BatchExecutor.ts:46` and `:420` differ) is not told apart.
- Of a batch the executor model has the checks of `revealAndBatchExecute` and the deadline, not
  the nonce check (`PrivBatchHook.sol:664`) and not the settlement: its hashes stand for reveals
  with different, unused nonces whose inputs are covered, and a revert for one of these reasons appears only as
  one of the `MaxFaults` calls that fail. A batch that reverts so every time is a case in which the
  liveness properties of that module say nothing. `PrivBatchHook` models both.
- Pool monitor: the callbacks `onError` and `onPoolStateChange` are taken not to throw.
- Agents: one agent per manager; agents share nothing but the message bus. `stopAll` of
  the life-cycle manager and its `startAll` are the single operations for each agent. Metrics, status
  reports, logs, lifecycle callbacks and the handler's statistics are left out. Ages and
  intervals are not measured: what becomes due is due at any time, and an agent may be
  found stale whenever it runs. A commitment hash carries the number of the start, which stands for the deadline and
  the amounts that differ between two starts.
- Strategies: floating-point rounding, settings other than the defaults, and `validateMarketData` and
  `calculateAmount`, which nothing calls. Of `marketData.ts`, the reads of storage slots and of logs and the
  arithmetic of prices and volumes.
- Configuration: `createStrategy`, argument parsing beside `--config`, printing, process signals.
- The circuit and the generated verifier (the hook model takes the validity of a proof as a
  predicate of the hash); deployment and demo scripts, which run once and call the
  entry points that are modelled.

## Plan

In this order; what is done is marked.

1. `BatchSettlement`, `PrivBatchHook`, `IntentLifecycle`, their runs and proofs (done).
2. `BatchCoordinator`, with `EarlyBatchIsUnanimous` proved (done).
3. `BatchExecutor`, with its type invariant, `SubmittedIsOnChain` and `CleanUpOnlyExecuted`
   proved (done).
4. `TradingAgent` and `AgentManager`: overlapping polls and batch checks, nonces over
   restarts (done, with `NonceUsedOnce` and `OneTimerIffRunning` proved).
5. `AgentSupervision`: restarts by both managers (done, with `ExcessRestartsBounded` proved).
6. `PoolMonitor` (done, with `PolledIffMonitored` proved), `AgentMessageBus`,
   `TokenDistributionHandler`, `AgentConfig` (done).
7. The strategies (done, with `ZScoreBounded` proved for every smoothing factor).
8. Every safety property of the runs as a theorem, with the theory of sums that the settlement needs (done).
9. What is left to prove: that `BatchExecutor` implements an abstract queue of reveals (submitted, then executed, each
   once), step by step, as the hook implements `IntentLifecycle`; the steps that the liveness properties rest on (what stays enabled, what never grows), so that only the fairness
   argument is left to TLC.
