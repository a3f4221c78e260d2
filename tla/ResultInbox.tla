----------------------------- MODULE ResultInbox -----------------------------
(***************************************************************************)
(* What background execution promises the model: the result of every job    *)
(* that completes or fails becomes known, and it is injected unasked only   *)
(* while it is not known yet, so at most once.  A cancelled job has no      *)
(* result.  (src/prompts/tools/job.md, src/session/yield-queue.ts)          *)
(***************************************************************************)
EXTENDS Naturals

CONSTANT Jobs

VARIABLES
  result,     \* "absent", "running", "ready", "known" or "void"
  injections  \* how often the result was injected

inboxVars == <<result, injections>>

InboxInit ==
  /\ result = [j \in Jobs |-> "absent"]
  /\ injections = [j \in Jobs |-> 0]

Become(S, from, to) ==
  /\ S # {} /\ \A j \in S : result[j] = from
  /\ result' = [j \in Jobs |-> IF j \in S THEN to ELSE result[j]]

Begin(j) == Become({j}, "absent", "running") /\ UNCHANGED injections
Finish(j) == Become({j}, "running", "ready") /\ UNCHANGED injections
Void(S) == Become(S, "running", "void") /\ UNCHANGED injections

\* the tool that waits for j in the foreground answers with its result
Answer(j) == Become({j}, "running", "known") /\ UNCHANGED injections

\* a tool's result shows the results of S
Report(S) == Become(S, "ready", "known") /\ UNCHANGED injections

\* a message that nobody asked for brings the results of S
Deliver(S) ==
  /\ Become(S, "ready", "known")
  /\ injections' = [j \in Jobs |-> IF j \in S THEN injections[j] + 1 ELSE injections[j]]

InboxNext ==
  \/ \E j \in Jobs : Begin(j) \/ Finish(j) \/ Answer(j)
  \/ \E S \in SUBSET Jobs : Void(S) \/ Report(S) \/ Deliver(S)

InboxSpec == InboxInit /\ [][InboxNext]_inboxVars
============================================================================
