----------------------------- MODULE ToolBatch -----------------------------
(***************************************************************************)
(* The tool calls of one assistant message, packages/agent/src/            *)
(* agent-loop.ts, executeToolCalls: shared and exclusive calls chained by  *)
(* promises, hooks before and after a tool, the steering interrupt, the    *)
(* abort of the run, and the sweep that answers the calls left over.       *)
(* AgentLoop has the batch as one step; this module is the inside of it.   *)
(* Both hooks are taken to be set; left out: spans, events, arguments.     *)
(***************************************************************************)
EXTENDS Naturals

CONSTANTS
  N   \* number of calls in the message

ASSUME BatchAssumption == N \in Nat \ {0}

Calls == 1 .. N

VARIABLES
  exclusive,   \* calls whose tool must not overlap with another
  immediate,   \* interruptMode is "immediate"
  pc,          \* where the task of a call is
  work,        \* what became of tool.execute: "none", "ok", "bad" (an error
               \* result) or "threw" (also: blocked, unknown tool, bad arguments)
  result,      \* the tool result emitted for a call
  saw,         \* the peek after a call saw a queued steering message
  interrupted, \* interruptState.triggered, steeringAbortController
  aborted,     \* the run's signal
  steering,    \* a steering message is queued
  returned     \* executeToolCalls has returned

batch == <<exclusive, immediate>>
env   == <<aborted, steering>>
vars  == <<batch, pc, work, result, saw, interrupted, env, returned>>

Results == {"ok", "error", "aborted", "skipped"}

\* a call holds its turn from its start to the end of its task
Underway == {"before", "executing", "after", "peek"}

(* Type invariant; a call has its result only when its tool and hooks are done
   with it. *)
TypeOK ==
  /\ exclusive \in SUBSET Calls /\ immediate \in BOOLEAN
  /\ pc \in [Calls -> Underway \cup {"waiting", "done"}]
  /\ work \in [Calls -> {"none", "ok", "bad", "threw"}]
  /\ result \in [Calls -> Results \cup {"none"}]
  /\ saw \in [Calls -> BOOLEAN]
  /\ interrupted \in BOOLEAN /\ aborted \in BOOLEAN
  /\ steering \in BOOLEAN /\ returned \in BOOLEAN
  /\ \A c \in Calls : result[c] # "none" => pc[c] \in {"peek", "done"}

Init ==
  /\ exclusive \in SUBSET Calls /\ immediate \in BOOLEAN
  /\ pc = [c \in Calls |-> "waiting"]
  /\ work = [c \in Calls |-> "none"]
  /\ result = [c \in Calls |-> "none"]
  /\ saw = [c \in Calls |-> FALSE]
  /\ interrupted = FALSE /\ aborted = FALSE
  /\ steering \in BOOLEAN /\ returned = FALSE

----------------------------------------------------------------------------
\* mutant: an exclusive call waits for the shared calls before it only
SharedBefore(c) ==
  {d \in 1 .. (c - 1) : /\ (d \in exclusive) # (c \in exclusive)
                        /\ \A e \in exclusive : ~(d < e /\ e < c)}

\* mutant: the chain is extended before it is read, and a call waits for itself
UpToItself(c) ==
  {d \in 1 .. c : /\ d \in exclusive \/ c \in exclusive
                  /\ \A e \in exclusive : ~(d < e /\ e < c)}

\* the tasks whose promises a call is chained to: lastExclusive and, for an
\* exclusive call, the sharedTasks since
WaitsFor(c) ==
  {d \in 1 .. (c - 1) : /\ d \in exclusive \/ c \in exclusive
                        /\ \A e \in exclusive : ~(d < e /\ e < c)}

Ready(c) == pc[c] = "waiting" /\ \A d \in WaitsFor(c) : pc[d] = "done"

Moves(c, to) == pc' = [pc EXCEPT ![c] = to]

\* toolSignal.aborted
Stopped == aborted \/ interrupted

\* mutant: the task of a call ends without waiting for checkSteering
EmitsAndLeaves(c, r) ==
  /\ result' = [result EXCEPT ![c] = r]
  /\ saw' = [saw EXCEPT ![c] = immediate /\ ~Stopped /\ steering]
  /\ Moves(c, "done")

\* emitToolResult, then checkSteering up to its await: the peek is made at once
Emits(c, r) ==
  /\ result' = [result EXCEPT ![c] = r]
  /\ saw' = [saw EXCEPT ![c] = immediate /\ ~Stopped /\ steering]
  /\ Moves(c, IF immediate /\ ~Stopped THEN "peek" ELSE "done")

\* what a call that ran reports: one that failed under an interrupt was cut off
Reports(c, isError, real) ==
  Emits(c, IF interrupted /\ isError THEN "skipped" ELSE real)

\* runTool finds the interrupt: the sweep will answer the call
SkipsCall(c) ==
  /\ Ready(c) /\ interrupted
  /\ Moves(c, "done")
  /\ UNCHANGED <<batch, work, result, saw, interrupted, env, returned>>

\* runTool finds the run aborted; the task ends without a check for steering
AbortsCall(c) ==
  /\ Ready(c) /\ aborted /\ ~interrupted
  /\ result' = [result EXCEPT ![c] = "aborted"]
  /\ Moves(c, "done")
  /\ UNCHANGED <<batch, work, saw, interrupted, env, returned>>

\* tool_execution_start, and beforeToolCall is called
StartsCall(c) ==
  /\ Ready(c) /\ ~Stopped
  /\ Moves(c, "before")
  /\ UNCHANGED <<batch, work, result, saw, interrupted, env, returned>>

\* no such tool or bad arguments: on to afterToolCall without running anything
StartFails(c) ==
  /\ Ready(c) /\ ~Stopped
  /\ work' = [work EXCEPT ![c] = "threw"]
  /\ Moves(c, "after")
  /\ UNCHANGED <<batch, result, saw, interrupted, env, returned>>

\* beforeToolCall let the call pass, and nothing stopped it meanwhile
Executes(c) ==
  /\ pc[c] = "before" /\ ~Stopped
  /\ Moves(c, "executing")
  /\ UNCHANGED <<batch, work, result, saw, interrupted, env, returned>>

\* the signal fired during beforeToolCall: reported without afterToolCall
StoppedBefore(c) ==
  /\ pc[c] = "before" /\ Stopped
  /\ Reports(c, TRUE, "aborted")
  /\ UNCHANGED <<batch, work, interrupted, env, returned>>

\* tool.execute throws, or beforeToolCall blocks the call or throws;
\* afterToolCall is not asked about a call that the signal cut off
Throws(c) ==
  /\ pc[c] \in {"before", "executing"}
  /\ work' = [work EXCEPT ![c] = "threw"]
  /\ IF Stopped
     THEN Reports(c, TRUE, "error")
     ELSE Moves(c, "after") /\ UNCHANGED <<result, saw>>
  /\ UNCHANGED <<batch, interrupted, env, returned>>

\* mutant: the result is emitted before afterToolCall is asked
CompletesReporting(c) ==
  /\ pc[c] = "executing"
  /\ \E w \in {"ok", "bad"} :
       /\ work' = [work EXCEPT ![c] = w]
       /\ result' = [result EXCEPT ![c] = IF w = "ok" THEN "ok" ELSE "error"]
  /\ Moves(c, "after")
  /\ UNCHANGED <<batch, saw, interrupted, env, returned>>

\* tool.execute returns a result, which may tell of an error
Completes(c) ==
  /\ pc[c] = "executing"
  /\ \E w \in {"ok", "bad"} : work' = [work EXCEPT ![c] = w]
  /\ Moves(c, "after")
  /\ UNCHANGED <<batch, result, saw, interrupted, env, returned>>

\* afterToolCall keeps or changes isError, or throws
AfterReturns(c) ==
  /\ pc[c] = "after"
  /\ \E isError \in BOOLEAN : Reports(c, isError, IF isError THEN "error" ELSE "ok")
  /\ UNCHANGED <<batch, work, interrupted, env, returned>>

\* checkSteering goes on after its await, and the task ends
ChecksSteering(c) ==
  /\ pc[c] = "peek"
  /\ interrupted' = (interrupted \/ (saw[c] /\ ~aborted))
  /\ Moves(c, "done")
  /\ UNCHANGED <<batch, work, result, saw, env, returned>>

\* mutant: every call is swept, answered or not
SweepsAll ==
  /\ ~returned /\ \A c \in Calls : pc[c] = "done"
  /\ result' = [c \in Calls |-> "skipped"]
  /\ returned' = TRUE
  /\ UNCHANGED <<batch, pc, work, saw, interrupted, env>>

\* after Promise.allSettled: a call without a result is answered as skipped
Sweep ==
  /\ ~returned /\ \A c \in Calls : pc[c] = "done"
  /\ result' = [c \in Calls |-> IF result[c] = "none" THEN "skipped" ELSE result[c]]
  /\ returned' = TRUE
  /\ UNCHANGED <<batch, pc, work, saw, interrupted, env>>

----------------------------------------------------------------------------
(* The user steers, takes the message back, or aborts the run. *)

UserSteers ==
  /\ ~returned
  /\ steering' = ~steering
  /\ UNCHANGED <<batch, pc, work, result, saw, interrupted, aborted, returned>>

UserAborts ==
  /\ ~returned /\ ~aborted
  /\ aborted' = TRUE
  /\ UNCHANGED <<batch, pc, work, result, saw, interrupted, steering, returned>>

Task(c) ==
  \/ SkipsCall(c) \/ AbortsCall(c) \/ StartsCall(c) \/ StartFails(c)
  \/ Executes(c) \/ StoppedBefore(c) \/ Throws(c) \/ Completes(c)
  \/ AfterReturns(c) \/ ChecksSteering(c)

Next == (\E c \in Calls : Task(c)) \/ Sweep \/ UserSteers \/ UserAborts

Spec == Init /\ [][Next]_vars

\* continuations run, and hooks and tools end
Fairness == (\A c \in Calls : WF_vars(Task(c))) /\ WF_vars(Sweep)

FairSpec == Spec /\ Fairness

----------------------------------------------------------------------------
(* Properties. *)

\* A call and an exclusive one before or after it run in the order of the
\* message: the later has not begun unless the task of the earlier is over, its
\* steering check included.  So nothing overlaps with an exclusive call, though
\* each task is chained to its nearest predecessors only.
ExclusiveInOrder ==
  \A c, d \in Calls :
    c < d /\ (c \in exclusive \/ d \in exclusive) /\ pc[d] # "waiting" => pc[c] = "done"

\* Once a call has ended that found a steering message queued, no call begins:
\* what runs alongside may end, what waits is skipped.
SteerStopsTheRest ==
  [][\A c, d \in Calls :
       pc[c] = "waiting" /\ pc'[c] \in Underway => ~(pc[d] = "done" /\ saw[d])]_vars

\* The batch answers every call exactly once, whatever combination of failures,
\* interrupts and aborts its calls meet.
Pairing == INSTANCE CallPairing WITH None <- "none"
ImplementsPairing == Pairing!Spec

\* A batch whose tools end returns: no chain of promises waits for ever.
BatchReturns == <>returned
=============================================================================
