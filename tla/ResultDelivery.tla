--------------------------- MODULE ResultDelivery ---------------------------
(***************************************************************************)
(* How the result of a background job reaches the model's conversation.     *)
(* Composes the AsyncJobManager with                                        *)
(*   - onJobComplete of src/sdk.ts, which stages a completion in the        *)
(*   - YieldQueue of src/session/yield-queue.ts, drained by the agent loop  *)
(*     at each step boundary (asides) or by a flush scheduled when idle,    *)
(*   - the job tool (src/tools/job.ts), which reports jobs it polled,       *)
(*   - the bash tool (src/tools/bash.ts), which first waits for its job in  *)
(*     the foreground, and                                                  *)
(*   - the turn of the session: model calls, tool batches, the final drain, *)
(*     the settling after it, user prompts, errors and aborts.              *)
(***************************************************************************)
EXTENDS AsyncJobManager

CONSTANTS
  Polls,         \* concurrent calls of the job tool
  MaxAborts,     \* bound: user aborts
  MaxErrors,     \* bound: failed model calls
  TurnsAreShort, \* whatever still holds a job's id is done with it before the
                 \* record's retention (5 minutes) ends
  ResumeIsPrompt \* a bash call whose wait is over resumes the delivery of its
                 \* job before another tool of the batch reports that job

ASSUME SessionAssumption ==
  /\ Retains            \* sdk.ts keeps the default retention
  /\ MaxAborts \in Nat /\ MaxErrors \in Nat
  /\ TurnsAreShort \in BOOLEAN /\ ResumeIsPrompt \in BOOLEAN

VARIABLES
  entries,       \* YieldQueue.#entries of kind async-result
  flushPending,  \* YieldQueue.#idleFlushPending
  flushTask,     \* the flush is scheduled as a post-prompt task
  session,       \* "idle", "model", "tools", or "closing": past the final drain
  aborting,      \* the run's abort signal
  aborts, errors,
  told,          \* the result text is in the conversation
  injected,      \* how often it was injected there unasked
  foreground,    \* jobs a bash call waits for
  polls          \* jobs each job-tool call tracks, and those it watches

queueVars   == <<entries, flushPending, flushTask>>
turnVars    == <<session, aborting, aborts, errors>>
talkVars    == <<told, injected>>
toolVars    == <<foreground, polls>>
sessionVars == <<entries, flushPending, flushTask, session, aborting, aborts, errors,
                 told, injected, foreground, polls>>
vars        == <<mgrVars, sessionVars>>

NoPoll == [tracked |-> {}, watching |-> {}]
ActivePolls == {p \in Polls : polls[p] # NoPoll}

SessionOK ==
  /\ entries \in Seq(Jobs)
  /\ flushPending \in BOOLEAN /\ flushTask \in BOOLEAN
  /\ session \in {"idle", "model", "tools", "closing"}
  /\ aborting \in BOOLEAN
  /\ aborts \in 0 .. MaxAborts /\ errors \in 0 .. MaxErrors
  /\ told \in [Jobs -> BOOLEAN]
  /\ injected \in [Jobs -> Nat]
  /\ foreground \subseteq Jobs
  /\ polls \in [Polls -> [tracked : SUBSET Jobs, watching : SUBSET Jobs]]

(* Type invariant of the composition. *)
DeliveryTypeOK == TypeOK /\ SessionOK

DeliveryInit ==
  /\ Init
  /\ entries = <<>> /\ flushPending = FALSE /\ flushTask = FALSE
  /\ session = "idle" /\ aborting = FALSE /\ aborts = 0 /\ errors = 0
  /\ told = [j \in Jobs |-> FALSE]
  /\ injected = [j \in Jobs |-> 0]
  /\ foreground = {}
  /\ polls = [p \in Polls |-> NoPoll]

IdsOf(S) == {idOf[j] : j \in S}
Queued == {entries[k] : k \in 1 .. Len(entries)}

\* the text of the jobs of S is shown to the model
Tell(S) == told' = [j \in Jobs |-> told[j] \/ j \in S]

\* a batched async-result message for the jobs of S enters the conversation
Inject(S) ==
  /\ Tell(S)
  /\ injected' = [j \in Jobs |-> IF j \in S THEN injected[j] + 1 ELSE injected[j]]

----------------------------------------------------------------------------
(* sdk.ts and the yield queue. *)

\* onJobComplete after formatting the text: dropped if suppressed by now, else
\* YieldQueue.enqueue, which schedules a flush unless the session is streaming
CallDone(c) ==
  /\ CallSucceeds(c)
  /\ IF c.job \in Hidden THEN UNCHANGED queueVars
     ELSE /\ entries' = Append(entries, c.job)
          /\ IF session = "idle" /\ ~flushPending
             THEN flushPending' = TRUE /\ flushTask' = TRUE
             ELSE UNCHANGED <<flushPending, flushTask>>
  /\ UNCHANGED <<turnVars, talkVars, toolVars>>

\* the entries that are not stale when the message is built
Survivors == Queued \ Hidden

\* the queue is left to a run that has begun, else it is drained and the agent
\* prompted with what survives
FlushQueue ==
  IF session # "idle" THEN UNCHANGED <<entries, session, talkVars>>
  ELSE /\ entries' = <<>>
       /\ IF Survivors = {} THEN UNCHANGED <<session, talkVars>>
          ELSE Inject(Survivors) /\ session' = "model"

\* the scheduled idle flush runs
IdleFlush ==
  /\ flushTask
  /\ flushTask' = FALSE /\ flushPending' = FALSE
  /\ FlushQueue
  /\ UNCHANGED <<mgrVars, aborting, aborts, errors, toolVars>>

\* getAsideMessages: drainLazy and its thunks
DrainAsides ==
  /\ entries' = <<>>
  /\ Inject(Survivors)
  /\ UNCHANGED <<flushPending, flushTask>>

----------------------------------------------------------------------------
(* The turn of the session (agent-loop.ts, agent-session.ts). *)

Prompt ==
  /\ session = "idle"
  /\ session' = "model"
  /\ UNCHANGED <<mgrVars, queueVars, aborting, aborts, errors, talkVars, toolVars>>

ModelCallsTools ==
  /\ session = "model" /\ ~aborting
  /\ session' = "tools"
  /\ UNCHANGED <<mgrVars, queueVars, aborting, aborts, errors, talkVars, toolVars>>

\* the batch is over: asides are folded into the next turn, aborted or not
ToolsEnd ==
  /\ session = "tools" /\ ActivePolls = {} /\ foreground = {}
  /\ DrainAsides
  /\ session' = "model"
  /\ UNCHANGED <<mgrVars, aborting, aborts, errors, toolVars>>

\* the agent would stop: what the last drain finds makes another turn
ModelStops ==
  /\ session = "model" /\ ~aborting
  /\ DrainAsides
  /\ session' = IF Survivors = {} THEN "closing" ELSE "model"
  /\ UNCHANGED <<mgrVars, aborting, aborts, errors, toolVars>>

\* an aborted or failed model call ends the run without a drain
ModelFails ==
  /\ session = "model"
  /\ \/ aborting /\ UNCHANGED errors
     \/ ~aborting /\ errors < MaxErrors /\ errors' = errors + 1
  /\ session' = "closing"
  /\ UNCHANGED <<mgrVars, queueVars, aborting, aborts, talkVars, toolVars>>

\* isStreaming turns false
Settles ==
  /\ session = "closing"
  /\ session' = "idle" /\ aborting' = FALSE
  /\ UNCHANGED <<mgrVars, queueVars, aborts, errors, talkVars, toolVars>>

\* AgentSession.abort: cancels the scheduled post-prompt tasks and aborts the run
Abort ==
  /\ aborts < MaxAborts /\ aborts' = aborts + 1
  /\ flushTask' = FALSE
  /\ aborting' = (session \in {"model", "tools"})
  /\ UNCHANGED <<mgrVars, entries, flushPending, session, errors, talkVars, toolVars>>

----------------------------------------------------------------------------
(* The tools of a batch. *)

InBatch == session = "tools" /\ ~aborting

\* the task tool, or bash with async: true
StartBackground(j) ==
  /\ InBatch
  /\ Register(j, FALSE)
  /\ UNCHANGED sessionVars

\* bash with auto-backgrounding: its job's delivery is suppressed while it waits
StartBash(j) ==
  /\ InBatch /\ j \notin Spawns
  /\ Register(j, TRUE)
  /\ foreground' = foreground \cup {j}
  /\ UNCHANGED <<queueVars, turnVars, talkVars, polls>>

\* the command ended in time: its output is the tool's result, be the job's own
\* promise settled by then or not
BashReturns(j) ==
  /\ j \in foreground
  /\ foreground' = foreground \ {j}
  /\ Tell({j} \ {k \in Jobs : status[k] = "cancelled"})
  /\ UNCHANGED <<mgrVars, queueVars, turnVars, injected, polls>>

\* the wait of a bash call is over, and its job has perhaps just ended
WaitIsOver(j) == j \in foreground /\ (ResumeIsPrompt => ~told[j])

\* mutant: the suppression is lifted, but what it swallowed is not queued again
BashBackgroundsLate(j) ==
  /\ WaitIsOver(j)
  /\ foreground' = foreground \ {j}
  /\ suppressed' = suppressed \ {idOf[j]}
  /\ UNCHANGED <<recordVars, watched, deliveryVars, drain, disposeVars,
                 queueVars, turnVars, talkVars, polls>>

\* the foreground wait is over: the job goes on and its delivery is resumed
BashBackgrounds(j) ==
  /\ WaitIsOver(j)
  /\ foreground' = foreground \ {j}
  /\ IF idOf[j] \in suppressed THEN ResumeDeliveries(idOf[j]) ELSE UNCHANGED mgrVars
  /\ UNCHANGED <<queueVars, turnVars, talkVars, polls>>

\* the batch is aborted under the wait: the job is cancelled if it runs, and the
\* tool's error carries what the command has printed so far
BashAborts(j) ==
  /\ j \in foreground /\ aborting
  /\ foreground' = foreground \ {j}
  /\ LET holder == table[idOf[j]] IN
       IF holder # None /\ status[holder] = "running" THEN Cancel(holder)
       ELSE UNCHANGED mgrVars
  /\ Tell(IF status[j] \in Finished THEN {j} ELSE {})
  /\ UNCHANGED <<queueVars, turnVars, injected, polls>>

\* #snapshotJobs: whoever holds the id by now, the tracked object if nobody does
Latest(S) == {IF table[idOf[j]] # None THEN table[idOf[j]] ELSE j : j \in S}
Over(S) == {j \in Latest(S) : status[j] # "running"}

\* #buildResult for the jobs of S, watch having become W: acknowledge and show
\* those that are over
BuildResult(S, W) ==
  /\ suppressed' = suppressed \cup IdsOf(Over(S))
  /\ deliveries' = IF Over(S) = {} THEN deliveries ELSE Unacknowledged(IdsOf(Over(S)), W)
  /\ watched' = W
  /\ Tell({j \in Over(S) : status[j] \in Finished})
  /\ UNCHANGED <<recordVars, calls, loop, loopAt, drain, disposeVars, injected>>

\* job list, or poll of jobs that are all over
ReadJobs(S) ==
  /\ InBatch
  /\ BuildResult(S, watched)
  /\ UNCHANGED <<queueVars, turnVars, toolVars>>

\* job poll: watch the running ones among the tracked jobs
PollStarts(p, S) ==
  LET running == {j \in S : status[j] = "running"}
  IN /\ InBatch /\ polls[p] = NoPoll /\ running # {}
     /\ polls' = [polls EXCEPT ![p] = [tracked |-> S, watching |-> running]]
     /\ WatchJobs(IdsOf(running))
     /\ UNCHANGED <<queueVars, turnVars, talkVars, foreground>>

\* mutant: the poll does not unwatch
PollForgets(p) ==
  /\ polls[p] # NoPoll
  /\ BuildResult(polls[p].tracked, watched)
  /\ polls' = [polls EXCEPT ![p] = NoPoll]
  /\ UNCHANGED <<queueVars, turnVars, foreground>>

\* a watched run ended, the wait duration passed or the batch was aborted
PollReturns(p) ==
  /\ polls[p] # NoPoll
  /\ BuildResult(polls[p].tracked, watched \ IdsOf(polls[p].watching))
  /\ polls' = [polls EXCEPT ![p] = NoPoll]
  /\ UNCHANGED <<queueVars, turnVars, foreground>>

\* job cancel: cancelled and acknowledged in one go
CancelTool(j) ==
  /\ InBatch /\ j \in Listed /\ status[j] = "running"
  /\ status' = [status EXCEPT ![j] = "cancelled"]
  /\ timers' = timers \cup {idOf[j]}
  /\ suppressed' = suppressed \cup {idOf[j]}
  /\ deliveries' = Unacknowledged({idOf[j]}, watched)
  /\ UNCHANGED <<queued, settled, idOf, table, watched, calls, loop, loopAt, drain,
                 disposeVars, sessionVars>>

----------------------------------------------------------------------------
\* jobs something still refers to by their id
InUse == Queued \cup PendingJobs \cup {c.job : c \in calls} \cup foreground
           \cup UNION {polls[p].tracked : p \in Polls}

\* a retention timer of the manager
Evicts(i) ==
  /\ TurnsAreShort => \A j \in InUse : idOf[j] # i
  /\ EvictionTimer(i)
  /\ UNCHANGED sessionVars

ManagerSteps == (RunSteps \/ LoopSteps) /\ UNCHANGED sessionVars

ToolSteps ==
  \/ \E j \in Jobs : StartBackground(j) \/ StartBash(j) \/ BashReturns(j)
                     \/ BashBackgrounds(j) \/ BashAborts(j) \/ CancelTool(j)
  \/ ReadJobs(Listed)
  \/ \E S \in SUBSET Listed :
       \/ S # {} /\ (\A j \in S : status[j] # "running") /\ ReadJobs(S)
       \/ \E p \in Polls : PollStarts(p, S)
  \/ \E p \in Polls : PollReturns(p)

TurnSteps ==
  Prompt \/ ModelCallsTools \/ ToolsEnd \/ ModelStops \/ ModelFails \/ Settles \/ Abort

DeliveryNext ==
  \/ ManagerSteps
  \/ \E i \in Ids : Evicts(i)
  \/ \E c \in calls : CallDone(c)
  \/ IdleFlush \/ TurnSteps \/ ToolSteps

DeliverySpec == DeliveryInit /\ [][DeliveryNext]_vars

(* The event loop runs what is ready: runs end, callbacks resolve, scheduled *)
(* tasks start, tools return, model calls end and sessions settle.  A batch  *)
(* is finite and a model does not call tools for ever: strong fairness.      *)
DeliveryFairness ==
  /\ \A j \in Jobs :
       /\ WF_vars(MarkRunning(j) /\ UNCHANGED sessionVars)
       /\ WF_vars(CancelledRunSettles(j) /\ UNCHANGED sessionVars)
       /\ WF_vars((\E o \in Finished : RunSettles(j, o)) /\ UNCHANGED sessionVars)
       /\ WF_vars(settled[j] /\ BashReturns(j)) /\ WF_vars(BashBackgrounds(j))
  /\ WF_vars(LoopSteps /\ UNCHANGED sessionVars)
  /\ WF_vars(\E c \in calls : CallDone(c))
  /\ WF_vars(IdleFlush)
  /\ \A p \in Polls : WF_vars(PollReturns(p))
  /\ SF_vars(ToolsEnd) /\ SF_vars(ModelStops)
  /\ WF_vars(aborting /\ ModelFails)
  /\ WF_vars(Settles)

(* Nobody need prompt the session. *)
UnattendedSpec == DeliverySpec /\ DeliveryFairness

(* A user who comes back to an idle session. *)
AttendedSpec == DeliverySpec /\ DeliveryFairness /\ WF_vars(Prompt)

----------------------------------------------------------------------------
(* The abstract view: what the model knows of each job's result. *)
InboxResult ==
  [j \in Jobs |-> IF told[j] THEN "known"
                  ELSE CASE status[j] = "new" -> "absent"
                         [] status[j] = "running" -> "running"
                         [] status[j] = "cancelled" -> "void"
                         [] status[j] \in Finished -> "ready"]

Inbox == INSTANCE ResultInbox WITH result <- InboxResult, injections <- injected

----------------------------------------------------------------------------
(* Properties. *)

(* The whole machinery implements the inbox: a result is reported by the     *)
(* tool that waits for it, or after its job finished, and injected only      *)
(* after that, only once and only while the model does not know it.          *)
ImplementsInbox == Inbox!InboxSpec

(* A result the model does not have yet is always held by somebody who will  *)
(* hand it on: the manager's queue, a running callback, the yield queue, the *)
(* bash call or the poll that waits for it.  No suppression drops it.        *)
NothingLost ==
  \A j \in Jobs :
    status[j] \in Finished /\ ~told[j] =>
      j \in PendingJobs \cup {c.job : c \in calls} \cup Queued \cup foreground
              \cup UNION {polls[p].tracked : p \in Polls}

(* An id is watched only while a poll that watches it is in progress: no     *)
(* watch is left behind to swallow a later completion of the id.             *)
NoOrphanWatch == watched \subseteq IdsOf(UNION {polls[p].watching : p \in Polls})

(* Background job results are delivered automatically when complete.         *)
ResultsReachTheModel == \A j \in Jobs : status[j] \in Finished ~> told[j]
============================================================================
