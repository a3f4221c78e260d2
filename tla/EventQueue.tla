---------------------------- MODULE EventQueue ----------------------------
(***************************************************************************)
(* The durable event queue of the GitHub bot and its worker pool, python/  *)
(* robomp/src: db.py (table events), queue.py (WorkerPool), worker.py (the *)
(* thread that drives omp), cancellation.py, slot_pool.py, and the calls   *)
(* of server.py and cli.py.  The column state of the rows is on disk; all  *)
(* the rest is memory of the process, lost when it ends or crashes.        *)
(* Events arrive in the order of their numbers.  A row without an issue    *)
(* key has an issue of its own.  Left out: attempts, payloads, error       *)
(* texts, retention, manual triage (it replaces inactive rows).            *)
(***************************************************************************)
EXTENDS Naturals, FiniteSets

CONSTANTS
  N,           \* number of webhook deliveries
  IssueOf,     \* the issue key of a delivery
  Slots,       \* max_concurrency, size of the slot pool
  MaxRetries,  \* bound: replays of inactive rows
  MaxCancels,  \* bound: cancels by the operator
  MaxStops     \* bound: stops and crashes of the process

Events == 1 .. N
Issues == {IssueOf[e] : e \in Events}

ASSUME QueueAssumption ==
  /\ N \in Nat \ {0} /\ Slots \in Nat \ {0}
  /\ MaxRetries \in Nat /\ MaxCancels \in Nat /\ MaxStops \in Nat
  /\ IssueOf = [e \in Events |-> IssueOf[e]]

VARIABLES
  st,          \* events.state, "absent" for a delivery not received yet
  phase,       \* where the process is in start, stop() and exit
  lock,        \* _inflight_lock: Free, Looking (the dispatcher holds it, its
               \* thread is about to claim), or the row that thread claimed
  inflight,    \* _inflight
  run,         \* how far _run_event is with an event
  hooks,       \* _cancel_hooks
  killed,      \* events whose omp was stopped by their hook
  cancelled,   \* _cancelled
  interrupted, \* _shutdown_cancelled
  doomed,      \* still_running, to be interrupted by stop()
  late,        \* threads left by a cancelled task: "spawning", "live", "none"
  asked,       \* history: the stage at which the operator cancelled this run
  retries, cancels, stops

memory == <<lock, inflight, run, hooks, killed, cancelled, interrupted, doomed, late, asked>>
calls  == <<retries, cancels, stops>>
vars   == <<st, phase, memory, calls>>

Free    == 0
Looking == N + 1

Inactive == {"done", "failed", "skipped"}
\* a task that has not written its verdict yet; from "setup" on it has a slot
WithSlot == {"setup", "spawning", "checked", "armed", "returned", "raised"}
Active   == WithSlot \cup {"slot"}
\* stages at which a thread runs that the event loop cannot cancel
Threaded == {"spawning", "checked", "armed"}
\* phases in which the event loop runs the tasks
Serving  == {"up", "draining", "killing", "settling"}

(* Type invariant; a thread outlives its task only in a stopping process, and
   neither a hook nor a mark of stop() outlives the task. *)
TypeOK ==
  /\ st \in [Events -> Inactive \cup {"absent", "queued", "running"}]
  /\ phase \in Serving \cup {"off", "leaving"}
  /\ lock \in {Free, Looking} \cup Events
  /\ inflight \in SUBSET Issues
  /\ run \in [Events -> Active \cup {"none", "release"}]
  /\ hooks \in SUBSET Events /\ killed \in SUBSET Events
  /\ cancelled \in SUBSET Events /\ interrupted \in SUBSET Events
  /\ doomed \in SUBSET Events
  /\ late \in [Events -> {"none", "spawning", "live"}]
  /\ asked \in [Events -> Active \cup {"no"}]
  /\ retries \in 0 .. MaxRetries /\ cancels \in 0 .. MaxCancels
  /\ stops \in 0 .. MaxStops
  /\ \A e \in Events : late[e] # "none" => phase \in {"killing", "settling", "leaving"}
  /\ \A e \in hooks \cup killed \cup interrupted : run[e] \in Active

None == [e \in Events |-> "none"]
No   == [e \in Events |-> "no"]

Init ==
  /\ st = [e \in Events |-> "absent"] /\ phase = "off"
  /\ lock = Free /\ inflight = {} /\ run = None /\ hooks = {} /\ killed = {}
  /\ cancelled = {} /\ interrupted = {} /\ doomed = {} /\ late = None /\ asked = No
  /\ retries = 0 /\ cancels = 0 /\ stops = 0

----------------------------------------------------------------------------
(* The API and the command line. *)

Receive(e) ==
  /\ phase = "up" /\ st[e] = "absent"
  /\ \A f \in Events : f < e => st[f] # "absent"
  /\ \E s \in {"queued", "skipped"} : st' = [st EXCEPT ![e] = s]
  /\ UNCHANGED <<phase, memory, calls>>

\* mutant: the states a retry may start from are not checked
RetryAnything(e) ==
  /\ retries < MaxRetries /\ st[e] # "absent"
  /\ st' = [st EXCEPT ![e] = "queued"] /\ retries' = retries + 1
  /\ UNCHANGED <<phase, memory, cancels, stops>>

\* the command line writes to the database with or without a server
Retry(e) ==
  /\ retries < MaxRetries /\ st[e] \in Inactive
  /\ st' = [st EXCEPT ![e] = "queued"] /\ retries' = retries + 1
  /\ UNCHANGED <<phase, memory, cancels, stops>>

\* mutant: only an armed run is flagged
CancelArmed(e) ==
  /\ phase = "up" /\ cancels < MaxCancels /\ st[e] # "absent"
  /\ cancels' = cancels + 1
  /\ cancelled' = IF e \in hooks THEN cancelled \cup {e} ELSE cancelled
  /\ hooks' = hooks \ {e} /\ killed' = killed \cup (hooks \cap {e})
  /\ asked' = [asked EXCEPT ![e] = IF @ = "no" /\ run[e] \in Active THEN run[e] ELSE @]
  /\ UNCHANGED <<st, phase, lock, inflight, run, interrupted, doomed, late, retries, stops>>

\* any row can be cancelled, also one that does not run
Cancel(e) ==
  /\ phase = "up" /\ cancels < MaxCancels /\ st[e] # "absent"
  /\ cancels' = cancels + 1
  /\ cancelled' = cancelled \cup {e}
  /\ hooks' = hooks \ {e} /\ killed' = killed \cup (hooks \cap {e})
  /\ asked' = [asked EXCEPT ![e] = IF @ = "no" /\ run[e] \in Active THEN run[e] ELSE @]
  /\ UNCHANGED <<st, phase, lock, inflight, run, interrupted, doomed, late, retries, stops>>

----------------------------------------------------------------------------
(* The dispatcher. *)

Claimable == {e \in Events :
                /\ st[e] = "queued"
                /\ \A f \in Events : st[f] = "running" => IssueOf[f] # IssueOf[e]}
Earliest(e) == e \in Claimable /\ \A f \in Claimable : e <= f

\* tasks that wait for _inflight_lock get it before the dispatcher does again
TakeLock ==
  /\ phase = "up" /\ lock = Free /\ \A e \in Events : run[e] # "release"
  /\ lock' = Looking
  /\ UNCHANGED <<st, phase, inflight, run, hooks, killed, cancelled, interrupted, doomed,
                 late, asked, calls>>

\* claim_next_event on its thread; nothing found: wait for wake() or ten seconds
Claim ==
  /\ lock = Looking
  /\ \/ \E e \in Events : Earliest(e) /\ st' = [st EXCEPT ![e] = "running"] /\ lock' = e
     \/ Claimable = {} /\ lock' = Free /\ UNCHANGED st
  /\ UNCHANGED <<phase, inflight, run, hooks, killed, cancelled, interrupted, doomed,
                 late, asked, calls>>

\* mutant: a claimed row is run whatever _inflight says
AdmitBlindly ==
  \E e \in Events :
    /\ lock = e
    /\ inflight' = inflight \cup {IssueOf[e]} /\ run' = [run EXCEPT ![e] = "slot"]
    /\ lock' = Free
    /\ UNCHANGED <<st, phase, hooks, killed, cancelled, interrupted, doomed, late, asked,
                   calls>>

Admit ==
  \E e \in Events :
    /\ lock = e /\ IssueOf[e] \notin inflight
    /\ inflight' = inflight \cup {IssueOf[e]} /\ run' = [run EXCEPT ![e] = "slot"]
    /\ lock' = Free
    /\ UNCHANGED <<st, phase, hooks, killed, cancelled, interrupted, doomed, late, asked,
                   calls>>

\* another task still holds the issue: back to the queue
PutBack ==
  \E e \in Events :
    /\ lock = e /\ IssueOf[e] \in inflight
    /\ st' = [st EXCEPT ![e] = "queued"] /\ lock' = Free
    /\ UNCHANGED <<phase, inflight, run, hooks, killed, cancelled, interrupted, doomed,
                   late, asked, calls>>

----------------------------------------------------------------------------
(* The task of an event, and its thread. *)

Stage(e, from, to) == run[e] \in from /\ run' = [run EXCEPT ![e] = to]

GetSlot(e) ==
  /\ phase \in Serving /\ Cardinality({f \in Events : run[f] \in WithSlot}) < Slots
  /\ Stage(e, {"slot"}, "setup")
  /\ UNCHANGED <<st, phase, lock, inflight, hooks, killed, cancelled, interrupted, doomed,
                 late, asked, calls>>

\* asyncio.to_thread(_run_rpc_blocking), on its way to RpcClient.__enter__
ToThread(e) ==
  /\ phase \in Serving /\ Stage(e, {"setup"}, "spawning")
  /\ UNCHANGED <<st, phase, lock, inflight, hooks, killed, cancelled, interrupted, doomed,
                 late, asked, calls>>

\* mutant: a cancellation that came before is not looked at
ArmUnchecked(e) ==
  /\ Stage(e, {"spawning"}, "checked")
  /\ UNCHANGED <<st, phase, lock, inflight, hooks, killed, cancelled, interrupted, doomed,
                 late, asked, calls>>

\* omp is up; _arm_cancel reads _cancelled ...
ArmChecks(e) ==
  /\ Stage(e, {"spawning"}, IF e \in cancelled THEN "armed" ELSE "checked")
  /\ killed' = killed \cup (cancelled \cap {e})
  /\ UNCHANGED <<st, phase, lock, inflight, hooks, cancelled, interrupted, doomed,
                 late, asked, calls>>

\* ... and then stores the hook; the event loop runs in between
ArmStores(e) ==
  /\ Stage(e, {"checked"}, "armed")
  /\ hooks' = hooks \cup {e}
  /\ UNCHANGED <<st, phase, lock, inflight, killed, cancelled, interrupted, doomed,
                 late, asked, calls>>

\* the dispatch returns or raises: without omp, failing to start it, or with
\* the end of its turn; a killed omp may have finished its turn before
RunEnds(e) ==
  /\ phase \in Serving
  /\ \/ Stage(e, {"setup", "armed"}, "returned")
     \/ Stage(e, {"setup", "spawning", "armed"}, "raised")
  /\ hooks' = hooks \ {e}
  /\ UNCHANGED <<st, phase, lock, inflight, killed, cancelled, interrupted, doomed,
                 late, asked, calls>>

\* _dispatch_and_mark, and the except clause of _run_event
Verdict(e) ==
  CASE run[e] = "returned" /\ e \notin cancelled -> "done"
    [] run[e] = "raised" /\ e \in interrupted    -> st[e]
    [] OTHER                                     -> "failed"

\* mutant: the mark of stop() stays behind
ForgetCancel(e) ==
  /\ cancelled' = cancelled \ {e} /\ interrupted' = interrupted
  /\ hooks' = hooks \ {e} /\ killed' = killed \ {e}
  /\ asked' = [asked EXCEPT ![e] = "no"]

\* the flags of a run that ends go with it
Forget(e) ==
  /\ cancelled' = cancelled \ {e} /\ interrupted' = interrupted \ {e}
  /\ hooks' = hooks \ {e} /\ killed' = killed \ {e}
  /\ asked' = [asked EXCEPT ![e] = "no"]

\* the verdict is written, the flags and the slot are given back
Mark(e) ==
  /\ phase \in Serving
  /\ Stage(e, {"returned", "raised"}, "release")
  /\ st' = [st EXCEPT ![e] = Verdict(e)]
  /\ Forget(e)
  /\ UNCHANGED <<phase, lock, inflight, doomed, late, calls>>

Release(e) ==
  /\ phase \in Serving /\ lock = Free
  /\ Stage(e, {"release"}, "none")
  /\ inflight' = inflight \ {IssueOf[e]}
  /\ UNCHANGED <<st, phase, lock, hooks, killed, cancelled, interrupted, doomed,
                 late, asked, calls>>

----------------------------------------------------------------------------
(* stop(), the end of the process, a crash, the next start. *)

\* the dispatcher is cancelled; its thread may still claim a row for nobody
StopBegins ==
  /\ phase = "up" /\ stops < MaxStops
  /\ phase' = "draining" /\ stops' = stops + 1 /\ lock' = Free
  /\ \/ UNCHANGED st
     \/ lock = Looking /\ \E e \in Events : Earliest(e) /\ st' = [st EXCEPT ![e] = "running"]
  /\ UNCHANGED <<inflight, run, hooks, killed, cancelled, interrupted, doomed, late, asked,
                 retries, cancels>>

DrainTimeout ==
  /\ phase = "draining"
  /\ doomed' = {e \in Events : run[e] # "none"}
  /\ phase' = IF doomed' = {} THEN "settling" ELSE "killing"
  /\ UNCHANGED <<st, lock, inflight, run, hooks, killed, cancelled, interrupted, late, asked,
                 calls>>

\* the thread of a cancelled task goes on
Outlives(e) ==
  IF run[e] \notin Threaded THEN late[e]
  ELSE IF run[e] = "spawning" THEN "spawning" ELSE "live"

\* with a hook, kill omp; without one, cancel the task, which leaves its row
\* running; a task that is done is left alone
Interrupt(e) ==
  /\ phase = "killing" /\ e \in doomed
  /\ doomed' = doomed \ {e}
  /\ phase' = IF doomed' = {} THEN "settling" ELSE "killing"
  /\ \/ /\ run[e] = "none"
        /\ UNCHANGED <<inflight, run, hooks, killed, cancelled, interrupted, late, asked>>
     \/ /\ run[e] # "none" /\ e \in hooks
        /\ interrupted' = interrupted \cup {e}
        /\ hooks' = hooks \ {e} /\ killed' = killed \cup {e}
        /\ UNCHANGED <<inflight, run, cancelled, late, asked>>
     \/ /\ run[e] # "none" /\ e \notin hooks
        /\ late' = [late EXCEPT ![e] = Outlives(e)]
        /\ run' = [run EXCEPT ![e] = "none"]
        /\ inflight' = inflight \ {IssueOf[e]}
        /\ Forget(e)
  /\ UNCHANGED <<st, lock, calls>>

\* stop() returns and the event loop closes, cancelling the tasks left
StopEnds ==
  /\ phase = "settling"
  /\ phase' = "leaving"
  /\ late' = [e \in Events |-> Outlives(e)]
  /\ run' = None /\ inflight' = {} /\ hooks' = {} /\ killed' = {}
  /\ cancelled' = {} /\ interrupted' = {} /\ asked' = No
  /\ UNCHANGED <<st, lock, doomed, calls>>

LateSpawn(e) ==
  /\ late[e] = "spawning" /\ late' = [late EXCEPT ![e] = "live"]
  /\ UNCHANGED <<st, phase, lock, inflight, run, hooks, killed, cancelled, interrupted,
                 doomed, asked, calls>>

LateEnd(e) ==
  /\ late[e] # "none" /\ late' = [late EXCEPT ![e] = "none"]
  /\ UNCHANGED <<st, phase, lock, inflight, run, hooks, killed, cancelled, interrupted,
                 doomed, asked, calls>>

\* the interpreter waits for the threads of its executor
ProcessExit ==
  /\ phase = "leaving" /\ late = None
  /\ phase' = "off"
  /\ UNCHANGED <<st, memory, calls>>

Crash ==
  /\ phase # "off" /\ stops < MaxStops
  /\ phase' = "off" /\ stops' = stops + 1
  /\ lock' = Free /\ inflight' = {} /\ run' = None /\ hooks' = {} /\ killed' = {}
  /\ cancelled' = {} /\ interrupted' = {} /\ doomed' = {} /\ late' = None /\ asked' = No
  /\ UNCHANGED <<st, retries, cancels>>

\* mutant: rows left running are not requeued
StartPlain ==
  /\ phase = "off" /\ phase' = "up"
  /\ UNCHANGED <<st, memory, calls>>

\* the slots are reaped, reset_stuck_running requeues the rows left running
Start ==
  /\ phase = "off" /\ phase' = "up"
  /\ st' = [e \in Events |-> IF st[e] = "running" THEN "queued" ELSE st[e]]
  /\ UNCHANGED <<memory, calls>>

Dispatcher == TakeLock \/ Claim \/ Admit \/ PutBack
Task(e)    == GetSlot(e) \/ ToThread(e) \/ ArmChecks(e) \/ ArmStores(e) \/ RunEnds(e)
              \/ Mark(e) \/ Release(e)
Late(e)    == LateSpawn(e) \/ LateEnd(e)
Stopping   == DrainTimeout \/ (\E e \in Events : Interrupt(e)) \/ StopEnds \/ ProcessExit
Client(e)  == Receive(e) \/ Retry(e) \/ Cancel(e)

Next ==
  \/ Dispatcher \/ Stopping \/ StopBegins \/ Crash \/ Start
  \/ \E e \in Events : Task(e) \/ Late(e) \/ Client(e)

Spec == Init /\ [][Next]_vars

\* every part of the process keeps running: the wait for wake() and every run
\* end by a timeout at the latest; nobody has to call, stop or crash
FairSpec ==
  /\ Spec
  /\ WF_vars(Dispatcher) /\ WF_vars(Stopping) /\ WF_vars(Start)
  /\ \A e \in Events :
       /\ WF_vars(GetSlot(e)) /\ WF_vars(ToThread(e) \/ RunEnds(e))
       /\ WF_vars(ArmChecks(e)) /\ WF_vars(ArmStores(e))
       /\ WF_vars(Mark(e)) /\ WF_vars(Release(e)) /\ WF_vars(Late(e))

----------------------------------------------------------------------------
(* Two events of one issue are never worked on at a time, by tasks or by the
   threads they leave behind; the claim's filter alone does not see to it, for
   a verdict is written before the issue is released. *)
Busy(e) == run[e] # "none" \/ late[e] # "none"
OneRunPerIssue ==
  \A e, f \in Events :
    Busy(e) /\ Busy(f) /\ IssueOf[e] = IssueOf[f] => e = f

(* A row that is running has an owner in the process that is up, and the row
   of a claim or a task is running: no replay, put-back or verdict of another
   task moves it, and none is stuck until the next start. *)
Owned(e) == lock = e \/ run[e] \in Active
RowFollowsRun ==
  \A e \in Events :
    /\ Owned(e) => st[e] = "running"
    /\ phase = "up" /\ st[e] = "running" => Owned(e)

(* A cancel that comes at any stage of a run but between the two halves of
   _arm_cancel has killed omp by the time the hook is in place. *)
CancelReachesOmp ==
  \A e \in Events :
    run[e] = "armed" /\ asked[e] \notin {"no", "checked"} => e \in killed

(* A run that the operator cancelled, at whatever stage, is not done. *)
CancelledNotDone ==
  [][\A e \in Events : asked[e] # "no" /\ run[e] \in Active => st'[e] # "done"]_vars

(* Whatever stops, crashes, replays and cancels happen, an event in the queue
   reaches a verdict. *)
EventsFinish ==
  \A e \in Events : st[e] = "queued" ~> st[e] \in {"done", "failed"}
============================================================================
