---------------------------- MODULE ChatIntake ----------------------------
(***************************************************************************)
(* The QQ bot, packages/coding-agent/src/chat: the messages of a user are  *)
(* collected until he pauses and become one batch (bot-runner.ts), batches *)
(* wait in a bounded queue (message-queue.ts), one loop takes them, makes  *)
(* sure of a session (session-manager.ts) and prompts it (middleware/      *)
(* pipeline.ts, session-bridge.ts), streaming the reply (ReplyStream).     *)
(* POST /api/chat/message runs the same pipeline beside the loop; of the   *)
(* session (agent-session.ts) the module has its prompts in flight, the    *)
(* runs of its agent, also those it starts itself when background work     *)
(* ends, and the ways their events take to the stream.                     *)
(* Left out: images, models, the crash note, activity log, files.          *)
(***************************************************************************)
EXTENDS ReplyStream, SequenceFilter, FiniteSets

CONSTANTS
  Users,      \* number of users, ids 1 .. Users
  M,          \* number of messages that arrive, numbered in that order
  Senders,    \* who may have sent which of them
  Capacity,   \* of the message queue
  MaxPosts,   \* bound: calls of /api/chat/message
  MaxOwn,     \* bound: runs the session starts itself
  MaxPieces,  \* bound: pieces of text in the loop's stream
  HooksArePrompt  \* event handlers are through before the run, or the
                  \* prompt, that emitted the event comes to its end

Messages == 1 .. M
UserIds  == 1 .. Users

ASSUME ChatAssumption ==
  /\ Capacity \in Nat \ {0} /\ HooksArePrompt \in BOOLEAN
  /\ {Users, M, MaxPosts, MaxOwn, MaxPieces} \subseteq Nat
  /\ Senders \subseteq [Messages -> UserIds]

Workers  == {"loop", "post"}     \* callers of processEvent
Sessions == 1 .. 2               \* each worker can create one

VARIABLES
  from,     \* the sender of each message
  arrived,  \* number of messages received
  pending,  \* userPendingEvents
  timers,   \* userDebounceTimers that are set
  tied,     \* users who have been silent since another user's batch was numbered
  queue,    \* MessageQueue.buffer, batches
  pc, job,  \* what a worker is at, and the batch it has
  global,   \* globalSession, 0 for null
  made,     \* number of sessions created
  mine,     \* the session a worker uses
  run,      \* whose run of its agent a session is in: "none", "own" or a worker's
  due,      \* an end of a message of the run has still to be heard
  ending,   \* an agent_end waits for its event handlers
  held,     \* pendingAgentEndEmit
  broke,    \* history: the last run of the loop's prompt broke off
  stream,   \* the StreamManager of the loop's message
  log,      \* history: messages the loop is through with, in its order
  lost,     \* history: messages dropped by the queue
  posts, own

intake == <<arrived, pending, timers, queue, lost>>
events == <<due, ending, held>>
agents == <<global, made, run, events>>
reply  == <<stream, broke, log>>
vars   == <<from, intake, tied, pc, job, agents, mine, reply, posts, own>>

\* text ends a sentence or not, and is of a run of the loop's prompt or not
Pieces == [stop : BOOLEAN, ours : BOOLEAN]
Batch == Seq(Messages)

\* what a prompt goes through once session.prompt has let it pass
InFlightAt == {"starting", "prompting", "settling"}
\* a worker hears the events of its session from its first prompt on
Subscribed == InFlightAt \cup {"checked", "waiting", "ended"}

(* Type invariant; the queue is within its capacity, and a session is in a run
   of a worker exactly while that worker's prompt waits for it. *)
TypeOK ==
  /\ arrived \in 0 .. M /\ pending \in [UserIds -> Batch] /\ timers \in SUBSET UserIds
  /\ queue \in Seq(Batch) /\ Len(queue) <= Capacity
  /\ pc \in [Workers -> Subscribed \cup {"idle", "session", "creating", "enriching"}]
  /\ job \in [Workers -> Batch]
  /\ tied \subseteq timers /\ global \in {0} \cup Sessions /\ made \in {0} \cup Sessions
  /\ run \in [Sessions -> Workers \cup {"none", "own"}]
  /\ {due, ending, held} \subseteq [Sessions -> BOOLEAN] /\ broke \in BOOLEAN
  /\ stream \in [buffer : Seq(Pieces), final : BOOLEAN, timer : BOOLEAN]
  /\ \A w \in Workers :
       pc[w] = "prompting" <=> \E s \in Sessions : run[s] = w /\ mine[w] = s

Init ==
  /\ from \in Senders
  /\ arrived = 0 /\ pending = [u \in UserIds |-> <<>>] /\ timers = {} /\ tied = {}
  /\ queue = <<>> /\ log = <<>> /\ lost = {} /\ posts = 0 /\ own = 0
  /\ pc = [w \in Workers |-> "idle"] /\ job = [w \in Workers |-> <<>>]
  /\ global = 0 /\ made = 0 /\ mine = [w \in Workers |-> 0]
  /\ run = [s \in Sessions |-> "none"]
  /\ due = [s \in Sessions |-> FALSE] /\ ending = due /\ held = due /\ broke = FALSE
  /\ stream = NewStream

----------------------------------------------------------------------------
(* Intake. *)

\* handleOneBotMessage: the debounce starts again
Arrives ==
  /\ arrived < M /\ arrived' = arrived + 1
  /\ LET u == from[arrived + 1]
     IN  /\ pending' = [pending EXCEPT ![u] = Append(@, arrived + 1)]
         /\ timers' = timers \cup {u} /\ tied' = tied \ {u}
  /\ UNCHANGED <<from, queue, lost, pc, job, agents, mine, reply, posts, own>>

InBatch(b) == {b[i] : i \in DOMAIN b}

\* mutant: a full queue goes on growing
PushUnbounded(b) == queue' = Append(queue, b) /\ lost' = lost

\* push, with a fresh message_id: the oldest batch makes room
Push(b) ==
  IF Len(queue) < Capacity
  THEN queue' = Append(queue, b) /\ lost' = lost
  ELSE queue' = Append(Tail(queue), b) /\ lost' = lost \cup InBatch(Head(queue))

\* mutant: the pending messages stay behind
FlushKeeping(u) ==
  /\ u \in timers /\ timers' = timers \ {u}
  /\ Push(pending[u])
  /\ tied' = timers'
  /\ UNCHANGED <<from, arrived, pending, pc, job, agents, mine, reply, posts, own>>

\* flushUserMessages: a batch is numbered by the clock, so the second of one
\* millisecond is taken for a duplicate; its user was silent before the first
FlushUserMessages(u) ==
  /\ u \in timers /\ timers' = timers \ {u}
  /\ pending' = [pending EXCEPT ![u] = <<>>]
  /\ \/ Push(pending[u])
     \/ u \in tied /\ lost' = lost \cup InBatch(pending[u]) /\ UNCHANGED queue
  /\ tied' = timers'
  /\ UNCHANGED <<from, arrived, pc, job, agents, mine, reply, posts, own>>

----------------------------------------------------------------------------
(* processMessageQueue, handleManualMessage and the pipeline. *)

Goes(w, from_, to) == pc[w] = from_ /\ pc' = [pc EXCEPT ![w] = to]
Quiet == UNCHANGED <<from, arrived, pending, timers, tied, lost>>

\* mutant: the newest batch first
LoopTakesLast ==
  /\ queue # <<>> /\ Goes("loop", "idle", "session")
  /\ job' = [job EXCEPT !["loop"] = queue[Len(queue)]]
  /\ queue' = SubSeq(queue, 1, Len(queue) - 1)
  /\ Quiet /\ UNCHANGED <<agents, mine, reply, posts, own>>

LoopTakes ==
  /\ queue # <<>> /\ Goes("loop", "idle", "session")
  /\ job' = [job EXCEPT !["loop"] = Head(queue)] /\ queue' = Tail(queue)
  /\ Quiet /\ UNCHANGED <<agents, mine, reply, posts, own>>

Posted ==
  /\ posts < MaxPosts /\ posts' = posts + 1
  /\ Goes("post", "idle", "session")
  /\ Quiet /\ UNCHANGED <<queue, job, agents, mine, reply, own>>

\* the batch is finished with, answered or not, and its StreamManager dropped
\* (after an error its timer may still send a part)
Finish(w, after) ==
  /\ pc' = [pc EXCEPT ![w] = "idle"] /\ job' = [job EXCEPT ![w] = <<>>]
  /\ mine' = [mine EXCEPT ![w] = 0]
  /\ stream' = IF w = "loop" THEN NewStream ELSE after
  /\ log' = IF w = "loop" THEN log \o job[w] ELSE log
  /\ broke' = IF w = "loop" THEN FALSE ELSE broke

\* ensureGlobalSession: the check and the creation are apart
EnsureGlobalSession(w) ==
  /\ Goes(w, "session", IF global = 0 THEN "creating" ELSE "enriching")
  /\ mine' = [mine EXCEPT ![w] = global]
  /\ Quiet /\ UNCHANGED <<queue, job, agents, reply, posts, own>>

Created(w) ==
  /\ Goes(w, "creating", "enriching")
  /\ made' = made + 1 /\ global' = made + 1
  /\ mine' = [mine EXCEPT ![w] = made + 1]
  /\ Quiet /\ UNCHANGED <<queue, job, run, events, reply, posts, own>>

CreationFails(w) ==
  /\ pc[w] = "creating" /\ Finish(w, stream)
  /\ Quiet /\ UNCHANGED <<queue, agents, posts, own>>

\* /clear is answered without the session
Clears(w) ==
  /\ pc[w] = "enriching" /\ Finish(w, stream)
  /\ Quiet /\ UNCHANGED <<queue, agents, posts, own>>

InFlight(s)    == {w \in Workers : pc[w] \in InFlightAt /\ mine[w] = s}
IsStreaming(s) == run[s] # "none" \/ InFlight(s) # {}

\* the loop's stream, after an event of a session
Heard(s, after) ==
  IF pc["loop"] \in Subscribed /\ mine["loop"] = s THEN after ELSE stream

\* images are there: dispatchPrompt subscribes and calls session.prompt
DispatchPrompt(w) ==
  /\ Goes(w, "enriching", IF IsStreaming(mine[w]) THEN "waiting" ELSE "checked")
  /\ Quiet /\ UNCHANGED <<queue, job, agents, mine, reply, posts, own>>

\* mutant: the loop ends with an error of the pipeline
RetryUncaught(w) ==
  /\ Goes(w, "waiting", IF IsStreaming(mine[w]) THEN "gone" ELSE "checked")
  /\ Quiet /\ UNCHANGED <<queue, job, agents, mine, reply, posts, own>>

\* four seconds later, once; busy again is an error
RetryPrompt(w) ==
  /\ pc[w] = "waiting"
  /\ \/ IsStreaming(mine[w]) /\ Finish(w, stream)
     \/ /\ ~IsStreaming(mine[w]) /\ pc' = [pc EXCEPT ![w] = "checked"]
        /\ UNCHANGED <<job, mine, reply>>
  /\ Quiet /\ UNCHANGED <<queue, agents, posts, own>>

\* the images have been awaited; another prompt may have passed meanwhile
BeginInFlight(w) ==
  /\ Goes(w, "checked", "starting")
  /\ Quiet /\ UNCHANGED <<queue, job, agents, mine, reply, posts, own>>

\* a run has at least one message, and that ends
Runs(s, by) == /\ run[s] = "none" /\ run' = [run EXCEPT ![s] = by]
               /\ due' = [due EXCEPT ![s] = TRUE]

\* promptAgentWithIdleRetry waits for the end of the run that is on
StartRun(w) ==
  /\ Goes(w, "starting", "prompting") /\ Runs(mine[w], w)
  /\ Quiet /\ UNCHANGED <<queue, job, global, made, ending, held, mine, reply, posts, own>>

\* a run scheduled by the handlers of the last one: retry, compaction
Continues(w) ==
  /\ own < MaxOwn /\ own' = own + 1
  /\ Goes(w, "settling", "prompting") /\ Runs(mine[w], w)
  /\ Quiet /\ UNCHANGED <<queue, job, global, made, ending, held, mine, reply, posts>>

\* endInFlight: the last prompt to unwind gives out the agent_end that was held
IsLast(w) == pc[w] \in InFlightAt /\ InFlight(mine[w]) = {w}
EndInFlight(w) ==
  held' = IF IsLast(w) THEN [held EXCEPT ![mine[w]] = FALSE] ELSE held

\* mutant: the last prompt to unwind forgets it
KeepsQuiet(w) == stream

\* the loop's stream after that
FlushPendingAgentEnd(w) ==
  IF IsLast(w) /\ held[mine[w]] THEN Heard(mine[w], OnEnd(stream)) ELSE stream

\* bad images, no model, no key, the deadline of the idle retry, ...
PromptThrows(w) ==
  /\ pc[w] \in {"checked", "starting"} /\ Finish(w, FlushPendingAgentEnd(w))
  /\ EndInFlight(w)
  /\ Quiet /\ UNCHANGED <<queue, global, made, run, due, ending, posts, own>>

\* waitForPostPromptRecovery is through: session.prompt returns
Settles(w) ==
  /\ Goes(w, "settling", "ended") /\ run[mine[w]] = "none"
  /\ HooksArePrompt => ~ending[mine[w]]
  /\ stream' = FlushPendingAgentEnd(w) /\ EndInFlight(w)
  /\ Quiet
  /\ UNCHANGED <<queue, job, global, made, run, due, ending, mine, broke, log, posts, own>>

\* the prompt has returned: last flush, which sends to the last boundary
Returns(w) ==
  /\ pc[w] = "ended" /\ Finish(w, stream)
  /\ Quiet /\ UNCHANGED <<queue, agents, posts, own>>

StreamTimer ==
  /\ stream.timer /\ stream' = TimerFires(stream)
  /\ Quiet /\ UNCHANGED <<queue, pc, job, agents, mine, broke, log, posts, own>>

----------------------------------------------------------------------------
(* Runs of a session; the loop hears all of them while it is subscribed: text at
   once, every other event when its handlers are through, so the end of a message
   at any time after its text, or never within its run. *)

\* background work has ended: the idle flush prompts the agent itself
OwnTurn(s) ==
  /\ own < MaxOwn /\ own' = own + 1
  /\ s <= made /\ ~IsStreaming(s) /\ Runs(s, "own")
  /\ Quiet /\ UNCHANGED <<queue, pc, job, global, made, ending, held, mine, reply, posts>>

TextDelta(s) ==
  /\ run[s] # "none" /\ Len(stream.buffer) < MaxPieces
  /\ \E stop \in BOOLEAN :
       stream' = Heard(s, OnDelta(stream, [stop |-> stop, ours |-> run[s] = "loop"]))
  /\ due' = [due EXCEPT ![s] = TRUE]
  /\ Quiet
  /\ UNCHANGED <<queue, pc, job, global, made, run, ending, held, mine, broke, log, posts, own>>

ToolCall(s) ==
  /\ run[s] # "none" \/ ~HooksArePrompt
  /\ stream' = Heard(s, OnToolCall(stream))
  /\ Quiet /\ UNCHANGED <<queue, pc, job, agents, mine, broke, log, posts, own>>

\* message_end or turn_end
HearsEnd(s) ==
  /\ due[s] \/ run[s] # "none"
  /\ due' = [due EXCEPT ![s] = FALSE]
  /\ stream' = Heard(s, OnEnd(stream))
  /\ Quiet
  /\ UNCHANGED <<queue, pc, job, global, made, run, ending, held, mine, broke, log, posts, own>>

\* a run comes to its end, or breaks off, and its last message with it;
\* agent_end goes to its handlers (bound: one of a session at a time)
RunEnds(s) ==
  /\ run[s] # "none" /\ ~ending[s]
  /\ \E breaks \in BOOLEAN :
       /\ due[s] /\ HooksArePrompt => breaks
       /\ broke' = IF run[s] = "loop" THEN breaks ELSE broke
  /\ run' = [run EXCEPT ![s] = "none"] /\ ending' = [ending EXCEPT ![s] = TRUE]
  /\ due' = IF HooksArePrompt THEN [due EXCEPT ![s] = FALSE] ELSE due
  /\ pc' = [w \in Workers |-> IF run[s] = w THEN "settling" ELSE pc[w]]
  /\ Quiet /\ UNCHANGED <<queue, job, global, made, held, mine, stream, log, posts, own>>

\* held back as long as a prompt is in flight
HearsAgentEnd(s) ==
  /\ ending[s] /\ ending' = [ending EXCEPT ![s] = FALSE]
  /\ IF InFlight(s) # {}
     THEN held' = [held EXCEPT ![s] = TRUE] /\ UNCHANGED stream
     ELSE stream' = Heard(s, OnEnd(stream)) /\ UNCHANGED held
  /\ Quiet
  /\ UNCHANGED <<queue, pc, job, global, made, run, due, mine, broke, log, posts, own>>

Work(w) == EnsureGlobalSession(w) \/ Created(w) \/ CreationFails(w) \/ Clears(w)
           \/ DispatchPrompt(w) \/ RetryPrompt(w) \/ BeginInFlight(w) \/ StartRun(w)
           \/ PromptThrows(w) \/ Continues(w) \/ Settles(w) \/ Returns(w)
Turn(s) == OwnTurn(s) \/ TextDelta(s) \/ ToolCall(s) \/ HearsEnd(s)
           \/ RunEnds(s) \/ HearsAgentEnd(s)

Next ==
  \/ Arrives \/ LoopTakes \/ Posted \/ StreamTimer
  \/ \E u \in UserIds : FlushUserMessages(u)
  \/ \E w \in Workers : Work(w)
  \/ \E s \in Sessions : Turn(s)

Spec == Init /\ [][Next]_vars

\* timers fire, promises settle, runs end; nobody has to write or post
FairSpec ==
  /\ Spec
  /\ \A u \in UserIds : WF_vars(FlushUserMessages(u))
  /\ WF_vars(LoopTakes)
  /\ \A w \in Workers : WF_vars(Work(w))
  /\ \A s \in Sessions : WF_vars(RunEnds(s) \/ HearsAgentEnd(s))

----------------------------------------------------------------------------
(* Where a message of a user can be, from the loop's past to the last one. *)
Line     == log \o job["loop"] \o FlattenSeq(queue)
FromUser(u) == {m \in Messages : from[m] = u}
Trace(u) == Only(Line, FromUser(u)) \o pending[u]

(* A message is in one place only, in the debounce, in the queue, with the
   loop or behind it, unless the queue has dropped it. *)
NoneLostUnseen ==
  \A m \in Messages :
    LET places == {i \in DOMAIN Trace(from[m]) : Trace(from[m])[i] = m}
    IN  Cardinality(places) = IF m <= arrived /\ m \notin lost THEN 1 ELSE 0

(* Whatever is merged, dropped and prompted beside the loop, the messages of a
   user are worked off in the order he wrote them. *)
InOrder ==
  \A u \in UserIds : \A i, j \in DOMAIN Trace(u) : i < j => Trace(u)[i] < Trace(u)[j]

(* When the prompt of the loop has returned and its stream is about to be
   dropped, nothing its runs said is left in there, also no last sentence
   without a stop, whichever timers, tool calls and runs of others came; but
   where its last run broke off while another prompt was in flight, the only
   end to hear is still held back for that prompt. *)
AnswerIsOut ==
  pc["loop"] = "ended" =>
    \/ \A i \in DOMAIN stream.buffer : ~stream.buffer[i].ours
    \/ broke /\ held[mine["loop"]] /\ InFlight(mine["loop"]) # {}

(* The bot catches up again and again: every message that has arrived is
   dropped by the queue or worked off, whatever fails or is busy on the way. *)
CatchesUp == []<>(1 .. arrived \subseteq lost \cup InBatch(log))
============================================================================
