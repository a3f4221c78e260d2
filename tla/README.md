# A verification development for omp-bot

TLA+ models of the concurrent core of this repository, the TLC runs that check
them on small instances, and TLAPS proofs of what holds for every instance.
`PROJECT.json` maps every definition to the source lines it stands for.

omp-bot is a coding agent (a TypeScript monorepo under `packages/`) with a chat
bot on top (`packages/coding-agent/src/chat`), Rust crates for native helpers
(`crates/`) and two Python services (`python/`).  Most of it is I/O, rendering
and data conversion.  What is hard to get right is the machinery in between:
single-threaded JavaScript in which many promises, timers and callbacks are
interleaved at every `await`.  A stretch of code up to its next `await` is
therefore one step of the models.  The GitHub bot (`python/robomp`) has the same
with asyncio tasks, and real threads beside them.

## 1. Inventory

Paths are relative to the repository; `ca/` is `packages/coding-agent/src/`.

### Modelled

| part | state | operations | talks to |
|---|---|---|---|
| **Async job manager**, `ca/async/job-manager.ts` | job records by id, delivery queue, deliveries in flight, delivery loop, suppressed and watched ids, one retention timer per id, `#disposed` | `register`, `markRunning`, `cancel`, `cancelAll`, `watchJobs`, `unwatchJobs`, `acknowledgeDeliveries`, `resumeDeliveries`, `drainDeliveries`, `dispose`; the end of a job's run; timers; retries | called by the bash, task and job tools and by the session; calls `onJobComplete` |
| **Result delivery**, `ca/sdk.ts`, `ca/session/yield-queue.ts`, `ca/tools/job.ts`, `ca/tools/bash.ts` | yield queue entries, `#idleFlushPending`, the scheduled flush, jobs in a foreground wait, jobs each poll tracks and watches | `onJobComplete`, `enqueue`, aside drain, idle flush, `isStale`; job list, poll, cancel; the bash tool's wait, hand-over and abort | between the manager and the agent loop |
| **Agent loop**, `packages/agent/src/agent-loop.ts`, `agent.ts` | steering and follow-up queues, `pendingMessages`, `hasMoreToolCalls`, retry and pause counters, abort signal | model call, tool batch, polls, end of run; `steer`, `followUp`, `popLast…`, `prompt`, `continue`, `abort` | driven by the session |
| **Tool batch**, `executeToolCalls` in agent-loop.ts | promise chain of shared and exclusive calls, `interruptState`, results, abort signal | start, `beforeToolCall`, `execute`, `afterToolCall`, `checkSteering`, the sweep of unanswered calls | a step of the agent loop |
| **Agent session**, `ca/session/agent-session.ts` (part) | prompts in flight, prompt generation, scheduled continues, interrupt in progress | `prompt`, `#endInFlight` and its drain, `#scheduleAgentContinue`, `abort`, `interruptAndFlushQueuedMessages` | drives the agent |
| **Chat intake**, `ca/chat/bot-runner.ts`, `message-queue.ts`, `session-manager.ts` | pending messages and debounce timer per user, bounded queue with recent ids, the global session | a message arrives, a user's messages are merged and queued, the loop takes a batch, the HTTP endpoint, creation of the session | prompts the agent session |
| **Chat replies**, `ca/chat/middleware` | text buffer, `finalFlush` and timer of a `StreamManager`; subscription to the session | stages of `processEvent`, prompt with one retry when busy, deltas, tool calls, ends of messages, flushes | hears every turn of the session |
| **robomp event queue**, `python/robomp/src/queue.py`, `db.py`, `worker.py`, `cancellation.py`, `slot_pool.py` | rows of `events` on disk; `_inflight`, its lock, tasks, `_cancelled`, `_cancel_hooks`, `_shutdown_cancelled`, worker threads | record, claim, put back, run, arm and fire the cancel hook, mark, release, replay, `stop`, crash, `start` | called by the web hooks, the API and the command line; runs omp |

What makes them correct:

* manager: a completion is delivered once, unless suppressed, and always has a
  loop that will deliver it; a cancelled job's result is not delivered; a running
  job can always be reached by `cancel` and `dispose`; `dispose` ends.
* delivery: a result is never lost between its many holders, never injected
  twice, and reaches the model; no watch outlives its poll.
* loop and session: queued messages keep their order, are neither lost nor
  doubled, leave the queue in time, and are answered; an abort leaves the queue.
* tool batch: each call gets one result; nothing overlaps an exclusive call; once
  a call ended that saw a steer no other begins.
* chat: a message is worked off once, in order, or dropped by the full queue (or
  as an alleged duplicate); an answer is sent whole; no failure stops the loop.
* event queue: one run per issue at a time, also across put-backs, shutdowns and
  threads that outlive their task; rows and runs agree; a cancelled run is not
  done; every queued event gets a verdict.

### Not modelled yet

* **Retry, compaction, session switching** in `agent-session.ts`, as an
  extension of `AgentLoop`, with overlapping prompts and listeners of `agent_end`
  (`ChatIntake` has those of the bot's two prompts, without message queues).
* The **OneBot gateway** (connections, pending calls) and the choice and restore
  of models in the reply pipeline.
* The **closures** of robomp (`autoclose.py`) and its other tables.
* Candidates after these: tool-choice queue, agent registry and IRC,
  collaboration, credentials, swarm DAG, session tree, omp-rpc client.

The repository is large (some 440,000 lines), most of it of the kind listed next;
the modules cover what has concurrency and state of its own and is used by
everything else.

### Left out

Providers and wire formats, the model catalog, text formats (hashline,
snapcompact), the terminal UI, configuration, LSP/DAP/MCP clients, file and web
tools, memory engine, dashboard, Rust crates and the vendored shell: conversion
of data, calls to the system, third-party code or rendering, without a protocol
of their own that a small state machine would clarify.  `PROJECT.json`
"components" lists each.

### What is hard to test

`PROJECT.json` "hazards" has the list with lines.  In short: things that happen
between an `await` and its continuation (a delivery loop that has ended but is
not forgotten; `isStreaming` still true after the last drain; a poll between
`turn_end` and the end of the run), state keyed by an id that is reused or
expires (suppressions, timers, watches), and flags that a cancelled task was to
reset (`#idleFlushPending`).  In robomp the event loop runs between any two
statements of a worker thread, and a task is cancelled while its thread goes on.

Hazards that no module reaches and the list leaves out: `dispose` waits without a
limit for a run that ignores its abort (job-manager.ts:349); entries removed by an
idle flush are gone when `agent.prompt` throws for want of a model
(yield-queue.ts:98); `newSession` leaves staged results behind
(agent-session.ts:5545); debounce is per user, so messages of one user in two
groups are merged (bot-runner.ts:266); a message is dropped while the bot's own
id is unknown (bot-runner.ts:289); the model is not restored when a prompt throws
(session-bridge.ts:186); an exception of the database ends robomp's dispatcher
(queue.py:207); a closure claimed when the process ended stays claimed
(db.py:1050).

## 2. Modules

```
SequenceFilter <── AsyncJobManager <── ResultDelivery ··refines··> ResultInbox
               <── AgentLoop
               <── ChatIntake ──> ReplyStream          (<── is EXTENDS)
ToolBatch ··refines··> CallPairing
EventQueue

MCAsyncJobManager, MCResultDelivery, MCAgentLoop, MCEventQueue, MCChatIntake:
values for TLC

SequenceFilter_proof <── DeliveryQueue_proof, AgentLoop_proof, ChatIntake_proof
AsyncJobManager_proof <── DeliveryQueue_proof <── ResultDelivery_proof
ToolBatch_proof, EventQueue_proof
```

**SequenceFilter** is the one operator `Only`, the `Array.prototype.filter` with
which the program edits its queues; what it does to queues is proved once.

**AsyncJobManager** is `job-manager.ts`.  Its actions are operators on the
manager's variables; `Next` drives them with a client that calls any public
method at any time, `ResultDelivery` with the real callers.
`RunSettles`/`CancelledRunSettles` are the two continuations of a job's run in
`register`; `LoopFrom` is `#runDeliveryLoop` from the top of its `while` to its
next `await`, `LoopWakes`, `LoopFinally` and `CallEnds` the points at which it
goes on; `Drain…` is the owner-filtered `drainDeliveries` with
`#deliverNextFiltered`; `DisposeBegins/Waited/Ends` are `dispose` between its
awaits.  Time is abstracted: a retry becomes due at any moment, a first attempt
at once, a retention timer fires at any moment after it was set, subject to
`AbortIsPrompt` (below).  Text of results, progress and log lines are left out.
Ids are `bg_1 … bg_n`, the first free one, as the code takes them when the
caller prefers none; the branch of `#resolveJobId` for a preferred id, which the
task tool uses (job-manager.ts:424), is left out.  The manager belongs to the
process and subagents share it, but each session has a task tool of its own with
a semaphore of its own: `ToolOf` says which tool registers a spawn, `Holding(t)`
which spawns hold a permit of tool `t`.  Fan-outs that run synchronously
(task/index.ts:788) take permits too and are left out: they only make a queued
spawn wait longer.  Jobs of type "task" that are registered without a semaphore
(the tan command) are direct jobs of the model.

**ResultDelivery** adds the completion callback, the yield queue (the entries of
kind async-result), the job and bash tools and the session's turn.  `session`
tells where the run is: `closing` is the time after the run's last aside drain in
which `isStreaming` is still true.  `told[j]` says that the result text is in the
conversation, by injection or as the result of a tool.  The model's choice of
tools is nondeterministic.  A bash call whose wait is over does not look at its
job: it may return the output before the job's own promise settles, and hand the
job over, or cancel it, when it has just ended (`BashReturns`,
`BashBackgrounds`, `BashAborts`); then the completion was skipped as suppressed
and `resumeDeliveries` queues it from the record.  The agent loop appears here as far as it drains
asides; its message queues are in the next module, which does not have asides.

**ResultInbox** is the abstract promise: a job's result becomes known to the
model by a report or by an injection, only after the job finished, and at most
once by injection.  `ImplementsInbox` is the refinement.

**AgentLoop** is `runLoopBody` with the queues it polls and the part of the
session that starts runs.  `pc` names the awaits of the loop: before the model
call (`turn`), in it (`call`), in the tool batch (`tools`), in `onBeforeYield`
(`yield`), between the late polls (`drain`), between `agent_end` and the finally
of `#runLoop` (`ended`).  `Continue` is `Agent.continue` with its throwing
cases, `EndInFlight` is `#endInFlight` with `#drainStrandedQueuedMessages`.
Three details are simpler than the code: `PromptRuns` does not run a cancelled
prompt, although `#promptAgentWithIdleRetry` looks at no generation
(agent-session.ts:8917); `Leaks` leaves out the branch that recovers tool calls
(agent-loop.ts:657) and keeps `last`; `Continue` leaves out the throw when no
model is configured (agent.ts:906).
`sent`, `log` and `answered` are history variables: what was queued, which
queued messages entered the conversation, and how many of them an assistant
message follows.  A message is a model value; a prompt's own text and what tools
return are left out.  There is one prompt at a time: `abort` resetting the
in-flight count under a prompt that is still unwinding is not modelled, nor are
automatic retry, compaction and listeners of `agent_end`.

**ToolBatch** is the inside of the step `tools` of `AgentLoop`.  `pc[c]` names the
await at which the task of a call is: behind its promise chain (`waiting`), in
`beforeToolCall`, `tool.execute`, `afterToolCall`, in the peek of `checkSteering`.
`WaitsFor` is the pair `lastExclusive`/`sharedTasks`: a call is chained to its
nearest predecessors only.  `Sweep` is the code after the last promise, which
answers what was skipped.  **CallPairing** is the abstract promise: one result
per call, never changed, all there when the batch returns.

**ReplyStream** has the methods of `StreamManager` as operators on its record;
**ChatIntake** has the rest of the bot: debounce, `Push` with eviction, the loop
and the HTTP handler as two workers in the stages of `processEvent`, up to two
sessions, and whose run each one's agent is in.  A prompt passes the busy check
(`checked`), is counted in flight (`starting`), waits for the run that is on
(`StartRun` is `#promptAgentWithIdleRetry`), runs (`prompting`), and settles; since
the images are awaited between check and count (agent-session.ts:4664) both
workers' prompts can be past the check, and the second runs after the first.
Everybody subscribed hears the events of every run: text at once, other events
when their handlers are through.  `due` says that the end of a message of the run
has still to be heard; `ending` that an `agent_end` is with its handlers, `held`
that it was held back because a prompt was in flight (agent-session.ts:1605),
until `#endInFlight` of the last one gives it out.  A run that breaks off with an
exception (agent.ts:1103) emits `agent_end` and no end of its message.
Slash commands and the ways in which the setup of a prompt gives up without an
error (another generation) are left out: the bot neither aborts nor steers.  A
batch is numbered by `Date.now()`: `tied` are the users who
have been silent since another user's batch was numbered, whose own batch may
therefore have the same number.  Only the loop's stream is followed (the handler
has one of its own, running the same code).  `from` (who sends what) is chosen
in `Init`; `log` and `lost` are history.

**EventQueue** is the worker pool with the column `state` of the table.  `st` is on
disk, everything in `memory` goes with the process.  `run[e]` is the stage of
`_run_event`: waiting for a slot, setting up, its thread starting omp
(`spawning`), between the two statements of `_arm_cancel` (`checked`), `armed`,
over (`returned`, `raised`), verdict written (`release`).  `lock` is
`_inflight_lock`, which the dispatcher holds over the claim on a thread.  `late`
are threads whose task `stop()` cancelled; they may still start omp, and the
process waits for them.  `Crash` loses the memory at any point.  `asked` is
history: at which stage the operator cancelled a run.

The `MC…` modules only name sets of model values for the configurations.
Operators preceded by a comment `mutant:` are faults a programmer might make;
they are used by no action, only to confirm that a property can fail.

## 3. Runs

| run | instance | distinct states | shows |
|---|---|---|---|
| `manager_safety` | 2 jobs (one a queued spawn), 2 owners, 2 ids, limit 1, one task tool with 1 permit, one failure per delivery | 1,167,904 | type invariant, `DeliveriesDriven`, `OneDeliveryPerJob`, `OnlyFinishedDelivered`, `RunningListed`, `NoCallWhileSuppressed` |
| `manager_jobs` | 3 jobs (two spawns), 3 ids, limit 1, one task tool with 1 permit, clients only register and cancel, fair | 175,884 | `RunningBound`, `DisposeCancelsAll`, `DisposeTerminates`, `RecordsExpire`, `DeliveriesEnd` |
| `delivery_safety` | 2 jobs, 2 concurrent polls, 1 abort, 1 failed call | 796,094 | type invariant, `NothingLost`, `NoOrphanWatch`, `ImplementsInbox` |
| `delivery_attended` | 2 jobs, 1 poll, 1 abort, 1 failed call, a user who prompts an idle session | 275,678 | `NothingLost`, `ResultsReachTheModel` |
| `loop_safety` | 2 steers, 2 follow-ups, one-at-a-time, leaks, failing calls and setups, 1 pause, 2 aborts or interrupts | 2,415,680 | type invariant, `QueuesAreFaithful`, `AbortSparesQueues` |
| `loop_prompted` | 2 steers, 2 follow-ups, no failures, leaks or aborts, nobody prompts again | 52,486 | `OneSteerPerCall`, `PromptDrains` |
| `tool_batch` | 3 calls, any of them exclusive, either interrupt mode, one steer, one abort, fair | 299,628 | type invariant, `ExclusiveInOrder`, `SteerStopsTheRest`, `ImplementsPairing`, `BatchReturns` |
| `event_queue` | 3 events, two of one issue, 1 slot, 1 replay, 1 cancel, 1 stop or crash, fair | 123,778 | type invariant, `OneRunPerIssue`, `RowFollowsRun`, `CancelReachesOmp`, `CancelledNotDone`, `EventsFinish` |
| `chat_intake` | 3 messages of 2 users, of whom one writes twice, queue of 2, 1 call of the endpoint, 1 run of the session itself, 1 piece of text in the stream, fair | 852,728 | type invariant, `NoneLostUnseen`, `InOrder`, `AnswerIsOut`, `CatchesUp` |

`CHECK_DEADLOCK FALSE` everywhere: jobs, ids, messages, aborts and failures are
bounded, so a behaviour may really come to rest (all jobs done, the manager
closed, the session idle).

Why the bounds are enough.  Hazards of the manager concern two completions and
the loop (one queued while the other is delivered or sleeps), two jobs competing
for one id, or a job and a dispose; three jobs are needed for a limit, a permit
and one job waiting behind both.  One failure per delivery gives first attempts
and retries; the code never gives up, and further retries differ from the first in
their delay only.  Two polls are what it takes for one to unwatch
the other's job.  Two messages per queue show order and one-at-a-time; two
aborts let the second one meet what the first one left.  Three calls are what
it takes for an exclusive one to stand between two shared ones or the other way
round, and for a call to be chained past its neighbour; the proofs lift the bound.
Two events of one issue and one of another show put-backs and the slot; two
batches in the queue and a third to evict one show order and loss.  One piece of
text that ends a sentence or does not shows what a flush at a boundary leaves
behind; a longer buffer is covered by the proof only.  `TwoWrite` has the first
user write twice, his second message before or after the other user's; the
invariants are proved for every choice of senders.

### Runs that show a disagreement

Each checks one property stated by the code's documentation; TLC prints the
counterexample.  They are listed under "findings".

* `manager_late_abort` (`AbortIsPrompt = FALSE`): a cancelled run that ends after
  its record's retention restarts the timer of an id which a newer job has taken;
  when it fires the running job's record goes, and `dispose` misses the job
  (job-manager.ts:199).
* `stranded_result`: a completion enqueued after the run's last aside drain but
  while `isStreaming` is true schedules no flush (yield-queue.ts:63) and waits
  for another prompt.
* `loop_leak`: after a Harmony leak the loop's `continue` re-evaluates
  `hasMoreToolCalls || pendingMessages.length > 0` (agent-loop.ts:677); when the
  leaked response answered a message injected at the stop boundary both are
  false and the promised retry does not take place.

### Smaller things met while modelling

No run is kept for these; the models contain the behaviour, or exclude it where
stated.

* `abort` cancels the scheduled flush of the yield queue but `#idleFlushPending`
  stays set (yield-queue.ts:129), so later completions schedule none either.
* The aside poll between turns has no abort guard (agent-loop.ts:805), unlike what
  the agent's changelog says (packages/agent/CHANGELOG.md:66); results are
  injected ahead of a call that aborts at once.
* A tool that failed by itself before a steering interrupt landed is reported as
  skipped when the interrupt arrives during `afterToolCall` (agent-loop.ts:1566),
  other than the comment at agent-loop.ts:1574 says.
* `_arm_cancel` reads `_cancelled` and then stores the hook; a cancel of the event
  loop in between is lost until the run ends (queue.py:239-245), although the
  comment promises not to lose the signal.  `CancelReachesOmp` excludes the stage
  `checked`.
* `stop()` cancels a task without a hook so that it "cannot proceed to spawn"
  (queue.py:148), but the thread of that task cannot be cancelled and may start
  omp after `stop()` has returned (`LateSpawn`).
* A cancel of a row that does not run stays in `_cancelled` and hits a later replay
  (queue.py:259); a run that both the operator and `stop()` interrupted is resumed
  by the next start (queue.py:286).
* A user's batch flushed in the same millisecond as another's is dropped as a
  duplicate (bot-runner.ts:243).  A message that waits four seconds for a busy
  session hears that session's turn and sends its text (session-bridge.ts:130).
* A follow-up is polled in the same stretch as a late steer and joins its batch
  (agent-loop.ts:823), although types.ts:154 says it is polled when there are no
  steering messages.
* `#drainStrandedQueuedMessages` declines unless the history ends with an
  assistant message (agent-session.ts:1156): after a failed call with tool calls
  in it the history ends with a placeholder result, and queued messages strand.
  That is why `PromptDrains` is checked without failures.
* A run that a scheduled continue started is not counted in flight, so nothing
  drains after it (agent-session.ts:2099).  `PromptDrains` speaks of messages
  queued while a prompt is in flight.
* A turn longer than the five-minute retention forgets that a result was
  acknowledged, and its staged entry is injected again (yield-queue.ts:156).
  `TurnsAreShort` excludes it, since `ImplementsInbox` fails without it.
* A steer continued with (`Agent.continue`) whose response leaks is followed by
  the next steer before it was answered, a consequence of `loop_leak`; so
  `OneSteerPerCall` is checked without leaks.

## 4. Assumptions

* `AbortIsPrompt`: a cancelled run settles before the retention of its record
  ends (five minutes).  True of every other run than `manager_late_abort`.
* `TurnsAreShort`: whatever refers to a job by its id (a queued delivery, a
  callback, a staged entry, a waiting tool) is done with it before the retention
  ends.  True in every run of `ResultDelivery`.
* `ResumeIsPrompt`: a bash call whose wait is over resumes the delivery of its job
  before another tool has told the job's result.  Between the race of
  `#waitForManagedBashJob` and `resumeDeliveries` lie only a few microtasks, but a
  poll of the same batch may return in them and acknowledge the job for itself;
  `resumeDeliveries` does not know who suppressed it (job-manager.ts:323), queues
  the result again, and it is injected after the poll has shown it.  True in
  `delivery_safety`, since `ImplementsInbox` fails without it; false in
  `delivery_attended` and not needed for `NothingLost`.
* `HooksArePrompt`: the handlers of an event are through before the run, or the
  prompt, that emitted it comes to its end.  They are not awaited by the run
  (agent-session.ts:1596), so a slow handler can keep the end of a message, or
  `agent_end`, until after `session.prompt` has returned; the tail of the reply is
  then dropped with the stream, and `AnswerIsOut` fails.  True in `chat_intake`;
  only `AnswersAreSent` needs it.
* `Retains`: `ResultDelivery` keeps the default retention, as sdk.ts does, and the
  runs of the manager do too.  With `retentionMs = 0` the theorems of
  `DeliveryQueue_proof` still hold, those of `AsyncJobManager_proof` are not known.
* Fairness.  `AsyncJobManager!Fairness`: timers fire, resolved promises run their
  continuations, callbacks and runs end; this is what the event loop gives, plus
  the assumption that jobs and callbacks do not hang.  Public calls are not
  fair.  `DeliveryFairness` adds that scheduled tasks start, tools return and
  aborted calls fail (weak), and that a batch ends and the model stops when it
  can again and again (strong): a model does not call tools for ever.
  `AttendedSpec` also has the user prompt an idle session; `UnattendedSpec` does
  not.  `AgentLoop!Unattended` is the same for the loop, without any action of
  the user; `PromptRuns` is strongly fair because `#promptAgentWithIdleRetry`
  tries again while another run is in progress.
* `ToolBatch!Fairness`: hooks and tools end (a tool that ignores its signal keeps
  the batch), continuations run.  Steers and aborts are not fair.
* `EventQueue!FairSpec`: the dispatcher, tasks, threads, `stop()` and the next start
  go on; every run has a hard timeout, and the dispatcher wakes up every ten
  seconds.  A task that waits for the lock gets it before the dispatcher, which
  is asyncio's order (`TakeLock`).  Nobody has to call, stop or crash.  Weak
  fairness is enough, because events and interruptions are bounded.
* `ChatIntake!FairSpec`: timers fire, the loop goes round, creation and prompts
  settle, runs end and their `agent_end` gets through its handlers.  Nobody has to
  write.

## 5. Proofs

Every invariant and action property that a passing run checks, and both
refinements, are stated by a theorem, for every value of the constants (sets of
jobs, owners, ids, messages and users of any size, any limits).

| module | assumes | theorems |
|---|---|---|
| `AsyncJobManager_proof` | `Retains`, `AbortIsPrompt` | `InvariantHolds`, `RunningJobsStayListed`, `DisposeLeavesNoneRunning`, `JobsStayBounded` (finite `Jobs`) |
| `DeliveryQueue_proof` | | `ManagerTypes`, `DeliveriesHaveALoop`, `NoJobDeliveredTwice`, `CancelledNeverDelivered`, `SuppressionIsObeyed` |
| `ResultDelivery_proof` | | `DeliveryTypes`, `DeliveriesStayInOrder`, `NoWatchLeftBehind` |
| | `AbortIsPrompt`, `TurnsAreShort` | `NothingIsLost`, `ToolsReachRunningJobs` |
| | these and `ResumeIsPrompt` | `DeliveryImplementsInbox`, `NoResultInjectedTwice` |
| `AgentLoop_proof` | | `LoopTypes`, `MessagesArriveInOrder`, `AbortLeavesTheQueues` |
| | no leaks detected | `OneSteerAtATime` |
| `ToolBatch_proof` | | `BatchTypes`, `ExclusiveCallsInOrder`, `ExclusiveCallsAlone`, `SteeringStopsTheRest`, `BatchPairs` |
| `EventQueue_proof` | | `QueueTypes`, `OneRunAtATime`, `RowsFollowRuns`, `CancelsReachOmp`, `CancelledRunsAreNotDone` |
| `ChatIntake_proof` | | `ChatTypes`, `MessagesInOrder`, `NoMessageLostUnseen` |
| | `HooksArePrompt` | `AnswersAreSent` |

**Queues** (`SequenceFilter_proof`).  The induction theorems of the library take
the claim as an operator, which the provers cannot instantiate; here induction
over numbers and over sequences is stated with the set of those for which the
claim holds (`NatSetInduction`, `SeqSetInduction`).  From these follow what the
other proofs use: filtering keeps types, distributes over concatenation, keeps
exactly the elements of the set (`OnlyElements`), and what it keeps stood in the
same order before (`OnlyPositions`).

**Records** (`AsyncJobManager_proof`).  `RunningListed` is not inductive: a timer
pending on the id of a running job would break it.  `IInv` adds that ids and
records agree (`IdsAgree`), which runs may be unsettled (`RunningUnsettled`),
that a pending timer belongs to a record that is not running
(`TimersSpareRunning`), and that a cancelled job whose run goes on keeps its id
(`CancelledKeepsId`).  The last is where `AbortIsPrompt` is needed: without it
the id may have been given away, and the timer restarted by the late end of the
run hits another job, which is the counterexample of `manager_late_abort`.
`JobsStayBounded` splits the bound into the direct jobs, which `register` counts
against `maxRunningJobs`, and for every task tool the spawns that hold a permit of
it (`BoundInv`); the number of running jobs is bounded by the limit and the
permits of all sessions together, not by those of one;
`register` counts what it finds in the table, and that these are all the direct
jobs that run is again `RunningListed`.

**Deliveries** (`DeliveryQueue_proof`).  Nothing here depends on time: late runs,
reused ids and expired records disturb the table, not the queue.  `QueueInv`
says that a job is queued or in a callback at most once, that it has finished,
and that a queue which is not empty has a loop that will look at it.  `resumeDeliveries`
queues a job again unless it is queued or in flight already, so a callback must be
in that set as long as it runs; it leaves it early only when everything is
cleared, after which no record is left to resume (`UnlistedLate`).
The lemmas describe the queue
and the calls together, by who is `Busy` and whether the pair is `Wellformed`, so
that each of enqueuing, delivering, retrying, resuming, filtering and draining is
one lemma, used from the loop, the drain and the real callers alike.  For
suppression, each place that starts a callback takes a delivery outside of the
jobs hidden at that moment (`StartsOutside`).

**Composition** (`ResultDelivery_proof`).  `WatchInv` says that polls watch
registered jobs: their ids are final, so removing the ids of a poll leaves
nothing of its own behind.  `OrderInv` carries the manager's invariants over to
the real callers, which acknowledge jobs at registration and cancel and
acknowledge in one go.  That nothing is lost needs to know why a result may be
dropped: `HoldInv` says that an id in use still names its job (`InUseListed`,
which is where `TurnsAreShort` comes in), that what is staged or told has ended,
that a job is staged only after its callback, that whoever told a result
suppressed it where it is still on its way (`ToldMuted`), and that a suppressed
id is void, told or waited for (`MutedAccounted`).  The last two are each other's
counterpart: the first keeps a result from being injected again, the second
from vanishing.  The refinement maps a job to what the model knows of it (`View`);
each action is shown to be a step of `ResultInbox` or to leave the view as it
is.  What a drain injects is news, because of `ToldMuted`.  `NoResultInjectedTwice`
is then proved of `ResultInbox` and holds of the composition through the
refinement.

**Agent loop** (`AgentLoop_proof`).  `IInv` is types, the ranges of counters and flags
(`ControlOK`), that the pending messages are empty at each point where a
poll overwrites them (`PendingClear`), that nobody queues a message twice, and
`QueuesAreFaithful` itself.  A step of the loop or the session moves
messages from the front of one queue behind the history, or moves nothing
(`MovesBy`); taking the steers or the follow-ups out of a history commutes with
that.  `OneSteerAtATime` adds
that what is not about to be sent has been answered (`AnsweredAtRest`); a leak
throws the answer away, which is the root of `loop_leak`, and is excluded.

**Tool batch** (`ToolBatch_proof`).  The chain only names nearest predecessors, so
`ReadyInOrder` needs the last exclusive call before a given one (`LastExists`, by
well-founded induction on numbers) and the order that already holds around it.
For `SteerStopsTheRest` the invariant adds that a task that saw a steer and ended
has interrupted the batch (`SawInterrupts`).

**Event queue** (`EventQueue_proof`).  The invariant adds which phases the
dispatcher and `stop()` work in and that a claimed row may wait for its former
task to release the issue (`Phases`), that a task holds its issue (`Held`), and
that a cancelled run carries its flag and, once armed, a hook in place or fired
(`Flagged`).  `Held` is what the claim's filter does not give: a verdict is
written before the issue is released, so a second row of the issue can be
claimed, and only `_inflight` keeps it from running.

**Chat** (`ChatIntake_proof`).  The messages of a user lie along a trace: worked
off, in hand, queued, pending.  `TraceOK` says that the trace is increasing and
consists of the messages that arrived and were not dropped; each step moves a
boundary of the trace, appends to it, or cuts out an evicted or duplicate batch
whose messages become `lost`.  Order and completeness of the log follow from it.
For `AnswersAreSent` a flush keeps a part of the buffer from its end
(`DoFlushKeeps`), a final one keeps nothing (`FinalFlushEmpties`), and a
session is in a worker's run only while that worker prompts it (`RunsBelong`).
Text of the loop's own in the buffer means that an end is still to come
(`Answered`): while its prompt runs, the end of the message, which is due; while
it settles, the `agent_end` of a run that broke off, which is with its handlers or
held back.  The step that ends the prompt hears the held one, or leaves it
to the other prompt in flight.  That is the exception of `AnswerIsOut`, and it is
real: the loop's and the handler's prompts pass the check together, the loop's run
breaks off after some text, and the only end, its `agent_end`, is held until the
handler's prompt is over, when the loop's stream is gone.

Only model-checked is liveness, which needs `ENABLED` and fairness:
`DeliveriesEnd`, `DisposeTerminates`, `RecordsExpire`, `ResultsReachTheModel`,
`PromptDrains`, `BatchReturns`, `EventsFinish` and `CatchesUp`.

## 6. Plan

1. Extension of `AgentLoop` by retries, overlapping prompts and session switches.
2. The OneBot gateway below `ChatIntake`: a reconnect loses no pending call of the
   new connection.
3. The closures of robomp beside `EventQueue`.
4. Proofs for these extensions, each from the invariant of the module it extends,
   and the cases the theorems leave out: what is still bounded when an aborted
   run ends late, and which messages a leaking response lets past.
