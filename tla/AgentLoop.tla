----------------------------- MODULE AgentLoop -----------------------------
(***************************************************************************)
(* The agent loop and the messages queued for it while it works:            *)
(*   - packages/agent/src/agent-loop.ts, runLoopBody: turns of model call   *)
(*     and tool batch, and the points where queued messages are polled,     *)
(*   - packages/agent/src/agent.ts: the steering and follow-up queues,      *)
(*     prompt, continue, abort,                                             *)
(*   - packages/coding-agent/src/session/agent-session.ts: one prompt in    *)
(*     flight, the drain of messages stranded when it ends, interrupts.     *)
(* A stretch without an await is one step.  Asides are in ResultDelivery,   *)
(* the calls within a tool batch are not told apart.  Left out: automatic   *)
(* retry, compaction and the other work that follows a run.                 *)
(***************************************************************************)
EXTENDS SequenceFilter

CONSTANTS
  Steers,         \* messages queued with steer
  FollowUps,      \* messages queued with followUp
  OneAtATime,     \* steeringMode and followUpMode
  LeaksDetected,  \* the model is a target of the Harmony leak mitigation
  CallsMayFail,   \* model calls may fail
  SetupMayFail,   \* the setup of a prompt may fail (no model, no API key, a hook)
  MaxPauses,      \* MAX_PAUSED_TURN_CONTINUATIONS
  MaxAborts       \* bound: aborts and interrupts by the user

Msgs == Steers \cup FollowUps

ASSUME LoopAssumption ==
  /\ Steers \cap FollowUps = {}
  /\ OneAtATime \in BOOLEAN /\ LeaksDetected \in BOOLEAN
  /\ CallsMayFail \in BOOLEAN /\ SetupMayFail \in BOOLEAN
  /\ MaxPauses \in Nat /\ MaxAborts \in Nat

VARIABLES
  steering,   \* Agent.#steeringQueue
  followUps,  \* Agent.#followUpQueue
  pending,    \* runLoopBody's pendingMessages
  log,        \* queued messages that entered the history, in order
  answered,   \* how many of them an assistant message follows
  sent,       \* messages queued and not taken back, in order
  last,       \* role of the last message of the history
  pc,         \* where the run is, "off" without one
  more,       \* hasMoreToolCalls
  aborted,    \* the run's signal
  leaks,      \* harmonyRetryAttempt
  pauses,     \* pausedTurnContinuations
  prompt,     \* the prompt in flight: "none", "setup" or "run"
  cancelled,  \* its generation is over
  resume,     \* a scheduled agent.continue passed its check
  flush,      \* interruptAndFlushQueuedMessages waits for the abort
  aborts      \* aborts so far

queueVars   == <<steering, followUps>>
runVars     == <<pending, log, answered, last, pc, more, aborted, leaks, pauses>>
sessionVars == <<prompt, cancelled, resume, flush, aborts>>
vars        == <<queueVars, sent, runVars, sessionVars>>

(* Type invariant. *)
TypeOK ==
  /\ steering \in Seq(Steers) /\ followUps \in Seq(FollowUps)
  /\ pending \in Seq(Msgs) /\ log \in Seq(Msgs) /\ sent \in Seq(Msgs)
  /\ answered \in 0 .. Len(log)
  /\ last \in {"none", "user", "assistant", "toolResult"}
  /\ pc \in {"off", "turn", "call", "tools", "yield", "drain", "ended"}
  /\ more \in BOOLEAN /\ aborted \in BOOLEAN
  /\ leaks \in 0 .. 2 /\ pauses \in 0 .. MaxPauses
  /\ prompt \in {"none", "setup", "run"} /\ cancelled \in BOOLEAN
  /\ resume \in BOOLEAN /\ flush \in BOOLEAN /\ aborts \in 0 .. MaxAborts

Init ==
  /\ steering = <<>> /\ followUps = <<>> /\ pending = <<>> /\ log = <<>> /\ sent = <<>>
  /\ answered = 0 /\ last = "none"
  /\ pc = "off" /\ more = FALSE /\ aborted = FALSE /\ leaks = 0 /\ pauses = 0
  /\ prompt = "none" /\ cancelled = FALSE /\ resume = FALSE /\ flush = FALSE /\ aborts = 0

Elements(s) == {s[k] : k \in 1 .. Len(s)}

----------------------------------------------------------------------------
(* The queues. *)

\* mutant: one message is taken and the whole queue emptied
LeftNothing(q) == <<>>

\* what #dequeueSteeringMessages and #dequeueFollowUpMessages take, and leave
Taken(q) == IF OneAtATime /\ q # <<>> THEN <<Head(q)>> ELSE q
Left(q) == IF OneAtATime /\ q # <<>> THEN Tail(q) ELSE <<>>

HasQueued == steering # <<>> \/ followUps # <<>>

\* AgentSession.isStreaming
Streaming == pc # "off" \/ prompt # "none"

\* #canAutoContinueForFollowUp
CanAutoContinue == ~Streaming /\ last = "assistant"

\* #queueSteer and #queueFollowUp: an idle session is set going at once
Enqueued(m) ==
  /\ m \notin Elements(sent)
  /\ sent' = Append(sent, m)
  /\ resume' = (resume \/ CanAutoContinue)
  /\ UNCHANGED <<runVars, prompt, cancelled, flush, aborts>>

Steer(m) == Enqueued(m) /\ steering' = Append(steering, m) /\ UNCHANGED followUps
FollowUp(m) == Enqueued(m) /\ followUps' = Append(followUps, m) /\ UNCHANGED steering

Front(q) == SubSeq(q, 1, Len(q) - 1)

\* popLastSteer, popLastFollowUp: the user takes the last message back
TakesBack ==
  \E m \in Msgs :
    /\ \/ /\ steering # <<>> /\ m = steering[Len(steering)]
          /\ steering' = Front(steering) /\ UNCHANGED followUps
       \/ /\ followUps # <<>> /\ m = followUps[Len(followUps)]
          /\ followUps' = Front(followUps) /\ UNCHANGED steering
    /\ sent' = Only(sent, Msgs \ {m})
    /\ UNCHANGED <<runVars, sessionVars>>

----------------------------------------------------------------------------
(* runLoopBody. *)

\* a run begins with the messages of msgs as its prompts; unless it skips the
\* first poll, what is queued to steer is injected before the first model call
BeginRun(msgs, poll, newRole) ==
  /\ log' = log \o msgs
  /\ last' = newRole
  /\ pending' = poll
  /\ pc' = "turn" /\ more' = TRUE /\ aborted' = FALSE
  /\ leaks' = 0 /\ pauses' = 0
  /\ UNCHANGED answered

\* the top of the inner loop up to the model call: inject what is pending
Injects ==
  /\ pc = "turn"
  /\ log' = log \o pending
  /\ last' = IF pending = <<>> THEN last ELSE "user"
  /\ pending' = <<>>
  /\ pc' = "call"
  /\ UNCHANGED <<answered, more, aborted, leaks, pauses, queueVars, sent, sessionVars>>

\* mutant: the queue is polled even when the run is aborted
TurnEndsPolling(again) ==
  /\ more' = again
  /\ pending' = Taken(steering) /\ steering' = Left(steering)
  /\ pc' = IF again \/ pending' # <<>> THEN "turn" ELSE "yield"
  /\ UNCHANGED <<log, aborted, followUps, sent, sessionVars>>

\* turn_end: poll the steering queue, unless the run is aborted; go on or yield
TurnEnds(again) ==
  /\ more' = again
  /\ IF aborted THEN pending' = <<>> /\ UNCHANGED steering
     ELSE pending' = Taken(steering) /\ steering' = Left(steering)
  /\ pc' = IF again \/ pending' # <<>> THEN "turn" ELSE "yield"
  /\ UNCHANGED <<log, aborted, followUps, sent, sessionVars>>

\* the response to everything in the history so far is complete
Answers == answered' = Len(log) /\ leaks' = 0

\* it calls no tool
Stops ==
  /\ pc = "call"
  /\ Answers /\ last' = "assistant" /\ UNCHANGED pauses
  /\ TurnEnds(FALSE)

\* mutant: nothing counts the paused turns
PausesForEver ==
  /\ pc = "call"
  /\ Answers /\ last' = "assistant" /\ pauses' = pauses + 1
  /\ TurnEnds(TRUE)

\* it only pauses (pause_turn): the model is called again, a few times at most
Pauses ==
  /\ pc = "call" /\ pauses < MaxPauses
  /\ Answers /\ last' = "assistant" /\ pauses' = pauses + 1
  /\ TurnEnds(TRUE)

\* it is cut off in its tool calls, which get placeholder results
IsCutOff ==
  /\ pc = "call"
  /\ Answers /\ last' = "toolResult" /\ pauses' = 0
  /\ TurnEnds(TRUE)

CallsTools ==
  /\ pc = "call"
  /\ Answers /\ last' = "assistant"
  /\ pc' = "tools"
  /\ UNCHANGED <<pending, log, more, aborted, pauses, queueVars, sent, sessionVars>>

\* the batch is over, run to its end, interrupted by a steer or aborted
ToolsEnd ==
  /\ pc = "tools"
  /\ last' = "toolResult" /\ pauses' = 0 /\ UNCHANGED <<answered, leaks>>
  /\ TurnEnds(TRUE)

\* the run ends with an assistant message of the given kind, without a poll
EndsWith(role) ==
  /\ answered' = Len(log) /\ last' = role
  /\ pc' = "ended"
  /\ UNCHANGED <<pending, log, more, aborted, leaks, pauses, queueVars, sent, sessionVars>>

\* the call fails or is aborted; tool calls in what it said get placeholder results
Fails ==
  /\ pc = "call" /\ (aborted \/ CallsMayFail)
  /\ EndsWith("assistant") \/ EndsWith("toolResult")

\* a Harmony leak: the response is thrown away and `continue` evaluates the
\* inner loop's condition again; the third time the run fails
Leaks ==
  /\ pc = "call" /\ LeaksDetected
  /\ IF leaks = 2 THEN EndsWith("assistant")
     ELSE /\ leaks' = leaks + 1
          /\ pc' = IF more THEN "turn" ELSE "yield"
          /\ UNCHANGED <<pending, log, answered, last, more, aborted, pauses, queueVars, sent,
                         sessionVars>>

\* onBeforeYield is over: poll the steering queue once more
PollsLate ==
  /\ pc = "yield"
  /\ IF aborted THEN UNCHANGED <<pending, steering>>
     ELSE pending' = Taken(steering) /\ steering' = Left(steering)
  /\ pc' = "drain"
  /\ UNCHANGED <<log, answered, last, more, aborted, leaks, pauses, followUps, sent,
                 sessionVars>>

\* poll the follow-ups; anything found makes the outer loop go round again
DrainsFollowUps ==
  /\ pc = "drain"
  /\ IF aborted THEN UNCHANGED <<pending, followUps>>
     ELSE pending' = pending \o Taken(followUps) /\ followUps' = Left(followUps)
  /\ pc' = IF pending' = <<>> THEN "ended" ELSE "turn"
  /\ more' = (pending' # <<>>)
  /\ UNCHANGED <<log, answered, last, aborted, leaks, pauses, steering, sent, sessionVars>>

\* the events up to agent_end are consumed and the finally of #runLoop runs
RunSettles ==
  /\ pc = "ended"
  /\ pc' = "off"
  /\ UNCHANGED <<pending, log, answered, last, more, aborted, leaks, pauses, queueVars, sent,
                 sessionVars>>

----------------------------------------------------------------------------
(* Prompts, resumed runs and aborts (Agent, AgentSession). *)

\* a prompt of the user on an idle session: its setup awaits many things
Prompt ==
  /\ ~Streaming
  /\ prompt' = "setup" /\ cancelled' = FALSE
  /\ UNCHANGED <<queueVars, sent, runVars, resume, flush, aborts>>

\* #promptAgentWithIdleRetry: as soon as no other run is in progress
PromptRuns ==
  /\ prompt = "setup" /\ ~cancelled /\ pc = "off"
  /\ prompt' = "run"
  /\ steering' = Left(steering) /\ BeginRun(<<>>, Taken(steering), "user")
  /\ UNCHANGED <<followUps, sent, cancelled, resume, flush, aborts>>

\* mutant: nothing looks for stranded messages when a prompt ends
EndInFlightOnly ==
  /\ prompt' = "none"
  /\ UNCHANGED <<queueVars, sent, runVars, cancelled, resume, flush, aborts>>

\* #endInFlight: messages that came too late for the run set the agent going
EndInFlight ==
  /\ prompt' = "none"
  /\ resume' = (resume \/ (HasQueued /\ pc = "off" /\ last = "assistant"))
  /\ UNCHANGED <<queueVars, sent, runVars, cancelled, flush, aborts>>

\* the setup fails or notices the abort
PromptGivesUp ==
  /\ prompt = "setup" /\ (cancelled \/ SetupMayFail)
  /\ EndInFlight

\* the run is over, and so is everything #waitForPostPromptRecovery waits for
PromptSettles ==
  /\ prompt = "run" /\ pc = "off" /\ ~resume
  /\ EndInFlight

\* mutant: the run continued with a steer polls the queue for another at once
ContinuePolling ==
  IF last = "none" THEN UNCHANGED <<queueVars, runVars>>
  ELSE IF last = "assistant" /\ steering # <<>>
  THEN /\ steering' = Left(Left(steering))
       /\ BeginRun(Taken(steering), Taken(Left(steering)), "user") /\ UNCHANGED followUps
  ELSE IF last = "assistant" /\ followUps # <<>>
  THEN followUps' = Left(followUps) /\ BeginRun(Taken(followUps), <<>>, "user") /\ UNCHANGED steering
  ELSE IF last = "assistant" THEN UNCHANGED <<queueVars, runVars>>
  ELSE steering' = Left(steering) /\ BeginRun(<<>>, Taken(steering), last) /\ UNCHANGED followUps

\* Agent.continue on an agent without a run: throws if there is no history, or if
\* it ends with an assistant message and nothing is queued
Continue ==
  IF last = "none" THEN UNCHANGED <<queueVars, runVars>>
  ELSE IF last = "assistant" /\ steering # <<>>
  THEN steering' = Left(steering) /\ BeginRun(Taken(steering), <<>>, "user") /\ UNCHANGED followUps
  ELSE IF last = "assistant" /\ followUps # <<>>
  THEN followUps' = Left(followUps) /\ BeginRun(Taken(followUps), <<>>, "user") /\ UNCHANGED steering
  ELSE IF last = "assistant" THEN UNCHANGED <<queueVars, runVars>>
  ELSE steering' = Left(steering) /\ BeginRun(<<>>, Taken(steering), last) /\ UNCHANGED followUps

\* the continue that #scheduleAgentContinue started; AgentBusyError is logged
Resumes ==
  /\ resume /\ resume' = FALSE
  /\ IF pc = "off" THEN Continue ELSE UNCHANGED <<queueVars, runVars>>
  /\ UNCHANGED <<sent, prompt, cancelled, flush, aborts>>

\* AgentSession.abort, here also of an idle session; a continue that passed its
\* check is not stopped by it
Aborts ==
  /\ aborts < MaxAborts /\ aborts' = aborts + 1
  /\ cancelled' = TRUE
  /\ aborted' = (aborted \/ pc # "off")
  /\ UNCHANGED <<queueVars, sent, pending, log, answered, last, pc, more, leaks, pauses, prompt,
                 resume>>

Abort == Aborts /\ UNCHANGED flush

\* interruptAndFlushQueuedMessages: abort, then continue with what is queued
Interrupt == HasQueued /\ Aborts /\ flush' = TRUE

\* the abort is over
Flushes ==
  /\ flush /\ pc = "off" /\ ~resume
  /\ flush' = FALSE
  /\ IF HasQueued THEN Continue ELSE UNCHANGED <<queueVars, runVars>>
  /\ UNCHANGED <<sent, prompt, cancelled, resume, aborts>>

----------------------------------------------------------------------------
User ==
  \/ \E m \in Steers : Steer(m)
  \/ \E m \in FollowUps : FollowUp(m)
  \/ TakesBack \/ Prompt \/ Abort \/ Interrupt

LoopStep ==
  \/ Injects \/ Stops \/ Pauses \/ IsCutOff \/ CallsTools \/ ToolsEnd \/ Fails \/ Leaks
  \/ PollsLate \/ DrainsFollowUps \/ RunSettles

SessionStep == PromptRuns \/ PromptGivesUp \/ PromptSettles \/ Resumes \/ Flushes

Next == User \/ LoopStep \/ SessionStep

Spec == Init /\ [][Next]_vars

(* What is ready runs; aborted calls return.  The model does not call tools  *)
(* for ever, so infinitely many calls include some that stop.  The user need *)
(* not do anything.                                                          *)
Unattended ==
  /\ Spec
  /\ WF_vars(Injects) /\ WF_vars(ToolsEnd) /\ WF_vars(PollsLate)
  /\ WF_vars(DrainsFollowUps) /\ WF_vars(RunSettles)
  /\ SF_vars(Stops) /\ WF_vars(aborted /\ Fails)
  /\ SF_vars(PromptRuns) /\ WF_vars(cancelled /\ PromptGivesUp) /\ WF_vars(PromptSettles)
  /\ WF_vars(Resumes) /\ WF_vars(Flushes)

----------------------------------------------------------------------------
(* Properties. *)

OnlySteers(s) == Only(s, Steers)
OnlyFollowUps(s) == Only(s, FollowUps)

(* No queued message is lost, doubled or overtaken by a later one of its     *)
(* queue, through polls, runs that fail, aborts and continued runs: history, *)
(* pending messages and queue together are what was queued, in order.        *)
QueuesAreFaithful ==
  /\ OnlySteers(log \o pending) \o steering = OnlySteers(sent)
  /\ OnlyFollowUps(log \o pending) \o followUps = OnlyFollowUps(sent)

(* In one-at-a-time mode the model never gets two steering messages at once, *)
(* wherever they were polled: skipInitialSteeringPoll is what a continued    *)
(* run needs for that.                                                       *)
OneSteerPerCall ==
  OneAtATime =>
    Len(OnlySteers(SubSeq(log, answered + 1, Len(log)) \o pending)) <= 1

(* "On external abort leave the steering queue intact": a run that is        *)
(* aborted takes nothing more out of the queues.                             *)
AbortSparesQueues ==
  [][aborted /\ aborted' /\ pc # "off" =>
        Elements(log') \cup Elements(pending') \subseteq Elements(log) \cup Elements(pending)]_vars

(* A message a run injected gets an answer: a run does not come to its       *)
(* regular end while no assistant message follows it.                        *)
InjectedAreAnswered == [][pc = "drain" /\ pc' = "ended" => answered = Len(log) \/ aborted]_vars

(* What is queued while a prompt is in flight leaves its queue without       *)
(* another prompt: #endInFlight drains what came too late for the run.       *)
PromptDrains ==
  \A m \in Msgs : prompt # "none" /\ m \in Elements(steering \o followUps)
                    ~> m \notin Elements(steering \o followUps)
============================================================================
