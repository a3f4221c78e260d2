-------------------------- MODULE AsyncJobManager --------------------------
(***************************************************************************)
(* packages/coding-agent/src/async/job-manager.ts: the process-wide manager *)
(* of background jobs (bash commands, subagent tasks).  It keeps a table of *)
(* job records by id, a queue of completion deliveries with one delivery    *)
(* loop, ids whose delivery is suppressed or watched, and one retention     *)
(* timer per id.                                                            *)
(*                                                                          *)
(* The actions of the manager are operators over its variables; this module *)
(* drives them with a client that calls the public methods in any order,    *)
(* ResultDelivery drives them with the tools and the session that use them. *)
(*                                                                          *)
(* A synchronous stretch of code, up to its next await, is one step.  In    *)
(* particular #enqueueDelivery starts the delivery loop, which runs up to   *)
(* its first await, inside the step of the caller.                          *)
(***************************************************************************)
EXTENDS SequenceFilter, FiniteSets

CONSTANTS
  Jobs,            \* AsyncJob objects; each is registered at most once
  Spawns,          \* the jobs task tools register (queued: true)
  TaskTools,       \* TaskTool objects, one per session
  ToolOf,          \* [Spawns -> TaskTools]: the one that registers a spawn
  Owners,          \* agents that register jobs
  OwnerOf,         \* [Jobs -> Owners]: options.ownerId
  None,            \* no job
  MaxId,           \* bound: ids are bg_1 .. bg_MaxId
  MaxRunningJobs,  \* options.maxRunningJobs
  SpawnSlots,      \* [TaskTools -> Nat]: permits of each one's spawn semaphore
  MaxFailures,     \* bound: how often the delivery callback may throw per delivery
  Retains,         \* retentionMs > 0
  AbortIsPrompt    \* a cancelled run settles before its record's retention ends

ASSUME JobsAssumption ==
  /\ Spawns \subseteq Jobs
  /\ ToolOf \in [Spawns -> TaskTools]
  /\ OwnerOf \in [Jobs -> Owners]
  /\ None \notin Jobs

ASSUME LimitsAssumption ==
  /\ MaxId \in Nat
  /\ MaxRunningJobs \in Nat \ {0}
  /\ SpawnSlots \in [TaskTools -> Nat \ {0}]
  /\ MaxFailures \in Nat

ASSUME TimingAssumption ==
  /\ Retains \in BOOLEAN
  /\ AbortIsPrompt \in BOOLEAN

VARIABLES
  status,      \* job.status; "new" before register
  queued,      \* job.queued
  settled,     \* job.promise has settled
  idOf,        \* job.id; 0 before register
  table,       \* #jobs: id -> job
  suppressed,  \* #suppressedDeliveries
  watched,     \* #watchedJobs
  timers,      \* #evictionTimers: ids with a pending retention timer
  deliveries,  \* #deliveries
  calls,       \* running #deliverDelivery promises (listed: in #inFlightDeliveries)
  loop,        \* #deliveryLoop: "off" when undefined, else where it awaits
  loopAt,      \* the job whose delivery a sleeping loop waits for
  drain,       \* an owner-filtered drainDeliveries call
  phase,       \* dispose: "live", "waiting", "draining", "closed"
  waitFor      \* the jobs dispose's waitForAll awaits

recordVars   == <<status, queued, settled, idOf, table, timers>>
muteVars     == <<suppressed, watched>>
deliveryVars == <<deliveries, calls, loop, loopAt>>
disposeVars  == <<phase, waitFor>>
mgrVars      == <<status, queued, settled, idOf, table, suppressed, watched,
                  timers, deliveries, calls, loop, loopAt, drain, phase, waitFor>>

Ids       == 1 .. MaxId
Delivery  == [job : Jobs, attempt : 0 .. MaxFailures]
Call      == [job : Jobs, attempt : 0 .. MaxFailures,
              by : {"loop", "drain"}, listed : BOOLEAN]
NoDrain   == [pc |-> "off", owner |-> None, job |-> None]
Statuses  == {"new", "running", "completed", "failed", "cancelled"}
Finished  == {"completed", "failed"}

RecordsOK ==
  /\ status \in [Jobs -> Statuses]
  /\ queued \in [Jobs -> BOOLEAN]
  /\ settled \in [Jobs -> BOOLEAN]
  /\ idOf \in [Jobs -> Ids \cup {0}]
  /\ table \in [Ids -> Jobs \cup {None}]
  /\ timers \subseteq Ids
  /\ phase \in {"live", "waiting", "draining", "closed"}
  /\ waitFor \subseteq Jobs

QueuesOK ==
  /\ suppressed \subseteq Ids
  /\ watched \subseteq Ids
  /\ deliveries \in Seq(Delivery)
  /\ calls \subseteq Call
  /\ loop \in {"off", "sleep", "deliver", "ending"}
  /\ loopAt \in Jobs \cup {None}
  /\ drain \in [pc : {"off", "pick", "wait"}, owner : Owners \cup {None},
                job : Jobs \cup {None}]

(* Type invariant of the manager's state. *)
TypeOK == RecordsOK /\ QueuesOK

----------------------------------------------------------------------------
(* Reading the state. *)

\* mutant: watched jobs are not muted
HiddenUnlessWatched(supp) == {j \in Jobs : idOf[j] \in supp}

\* isDeliverySuppressed, for the jobs whose id is muted by supp or watched
HiddenBy(supp) == {j \in Jobs : idOf[j] \in supp \cup watched}
Hidden == HiddenBy(suppressed)

Listed == {table[i] : i \in Ids} \ {None}

\* the jobs register counts against maxRunningJobs
Active == {j \in Listed : status[j] = "running" /\ ~queued[j]}

\* getRunningJobs
AllRunning == {j \in Listed : status[j] = "running"}

\* mutant: a spawn semaphore never runs out
HoldingNothing(t) == {}

\* the spawns of a task tool that hold a permit of its semaphore.  Synchronous
\* fan-outs take permits of it too; they only make a queued spawn wait longer
Holding(t) ==
  {j \in Spawns : ToolOf[j] = t /\ status[j] # "new" /\ ~queued[j] /\ ~settled[j]}

PermitFree(t) == Cardinality(Holding(t)) < SpawnSlots[t]

PendingJobs == {deliveries[k].job : k \in 1 .. Len(deliveries)}

\* mutant: deliveries in flight are not tracked
InFlightForgotten == {}

InFlightJobs == {c.job : c \in {x \in calls : x.listed}}

\* hasPendingDeliveries(filter)
HasPending(own) == \E j \in (PendingJobs \cup InFlightJobs) \ Hidden : OwnerOf[j] = own

----------------------------------------------------------------------------
(* The delivery loop. *)

\* mutant: the attempt is counted when the call starts as well as when it fails
StartCallTwiceCounted(d, who) ==
  [job |-> d.job, attempt |-> d.attempt + 1, by |-> who, listed |-> TRUE]

StartCall(d, who) == [job |-> d.job, attempt |-> d.attempt, by |-> who, listed |-> TRUE]

(* #runDeliveryLoop from the top of its while loop to its next await, with  *)
(* dels queued, the jobs of hid suppressed and the calls of c running: drop *)
(* the suppressed head entries, then end, sleep until the head's retry time *)
(* or call the completion callback.  A first attempt is due at once.        *)
LoopFrom(dels, hid, c) ==
  \E k \in 0 .. Len(dels) :
    /\ \A m \in 1 .. k : dels[m].job \in hid
    /\ \/ /\ k = Len(dels)
          /\ deliveries' = <<>>
          /\ loop' = "ending" /\ loopAt' = None
          /\ calls' = c
       \/ /\ k < Len(dels)
          /\ dels[k + 1].job \in Jobs \ hid
          /\ IF dels[k + 1].attempt > 0
             THEN /\ deliveries' = SubSeq(dels, k + 1, Len(dels))
                  /\ loop' = "sleep" /\ loopAt' = dels[k + 1].job
                  /\ calls' = c
             ELSE /\ deliveries' = SubSeq(dels, k + 2, Len(dels))
                  /\ loop' = "deliver" /\ loopAt' = None
                  /\ calls' = c \cup {StartCall(dels[k + 1], "loop")}

\* #ensureDeliveryLoop after the queue became dels
EnsureLoop(dels, hid, c) ==
  IF loop = "off" THEN LoopFrom(dels, hid, c)
  ELSE deliveries' = dels /\ calls' = c /\ UNCHANGED <<loop, loopAt>>

\* #enqueueDelivery(job), with the suppressed ids supp
EnqueueDelivery(j, supp) ==
  IF j \in HiddenBy(supp) THEN UNCHANGED deliveryVars
  ELSE EnsureLoop(Append(deliveries, [job |-> j, attempt |-> 0]), HiddenBy(supp), calls)

\* mutant: the record goes at once, its timer stays
ForgetAndStartTimer(S) ==
  /\ table' = [i \in Ids |-> IF i \in S THEN None ELSE table[i]]
  /\ timers' = timers \cup S
  /\ UNCHANGED <<suppressed, watched>>

\* mutant: nothing limits how long a record is kept
KeepRecords(S) == UNCHANGED <<table, suppressed, watched, timers>>

(* #scheduleEviction for the ids of S: (re)start their timers, or, without  *)
(* retention, forget the ids at once.                                       *)
ScheduleEviction(S) ==
  IF Retains
  THEN timers' = timers \cup S /\ UNCHANGED <<table, suppressed, watched>>
  ELSE /\ table' = [i \in Ids |-> IF i \in S THEN None ELSE table[i]]
       /\ suppressed' = suppressed \ S
       /\ watched' = watched \ S
       /\ UNCHANGED timers

----------------------------------------------------------------------------
(* The public methods and the jobs' own runs. *)

Init ==
  /\ status = [j \in Jobs |-> "new"]
  /\ queued = [j \in Jobs |-> FALSE]
  /\ settled = [j \in Jobs |-> FALSE]
  /\ idOf = [j \in Jobs |-> 0]
  /\ table = [i \in Ids |-> None]
  /\ suppressed = {} /\ watched = {} /\ timers = {}
  /\ deliveries = <<>> /\ calls = {}
  /\ loop = "off" /\ loopAt = None
  /\ drain = NoDrain
  /\ phase = "live" /\ waitFor = {}

\* what acknowledgeDeliveries(I) leaves of the queue, with the ids of W watched
Unacknowledged(I, W) ==
  Only(deliveries, {d \in Delivery : idOf[d.job] \notin suppressed \cup W \cup I})

(* register: refused once disposed or at the running-job limit; takes the   *)
(* first free id and lifts a suppression left on it.  With ack the caller   *)
(* acknowledges the new id before it lets go of the thread (the bash tool). *)
Register(j, ack) ==
  /\ phase = "live"
  /\ status[j] = "new"
  /\ Cardinality(Active) < MaxRunningJobs
  /\ \E i \in Ids :
       /\ table[i] = None
       /\ \A k \in 1 .. (i - 1) : table[k] # None
       /\ idOf' = [idOf EXCEPT ![j] = i]
       /\ table' = [table EXCEPT ![i] = j]
       /\ IF ack
          THEN /\ suppressed' = suppressed \cup {i}
               /\ deliveries' = Unacknowledged({i}, watched)
          ELSE suppressed' = suppressed \ {i} /\ UNCHANGED deliveries
  /\ status' = [status EXCEPT ![j] = "running"]
  /\ queued' = [queued EXCEPT ![j] = j \in Spawns]
  /\ UNCHANGED <<settled, watched, timers, calls, loop, loopAt, drain, phase, waitFor>>

\* a spawn gets a permit of its tool's semaphore and calls markRunning
MarkRunning(j) ==
  /\ status[j] = "running" /\ queued[j] /\ PermitFree(ToolOf[j])
  /\ queued' = [queued EXCEPT ![j] = FALSE]
  /\ UNCHANGED <<status, settled, idOf, table, timers, muteVars, deliveryVars, drain,
                 disposeVars>>

\* mutant: a parked spawn does not notice that it was cancelled
CanSettleUnparked(j) ==
  /\ status[j] \in {"running", "cancelled"} /\ ~settled[j]
  /\ ~queued[j]

\* a run can end: a parked spawn only looks at its abort signal once it has a permit
CanSettle(j) ==
  /\ status[j] \in {"running", "cancelled"} /\ ~settled[j]
  /\ queued[j] => status[j] = "cancelled" /\ PermitFree(ToolOf[j])

\* the run of a live job resolves or rejects: record, deliver, start the retention
RunSettles(j, outcome) ==
  /\ CanSettle(j) /\ status[j] = "running"
  /\ settled' = [settled EXCEPT ![j] = TRUE]
  /\ status' = [status EXCEPT ![j] = outcome]
  /\ EnqueueDelivery(j, suppressed)
  /\ ScheduleEviction({idOf[j]})
  /\ UNCHANGED <<queued, idOf, drain, disposeVars>>

\* mutant: the run of a cancelled job delivers what it returned
CancelledRunDelivers(j) ==
  /\ CanSettle(j) /\ status[j] = "cancelled"
  /\ settled' = [settled EXCEPT ![j] = TRUE]
  /\ EnqueueDelivery(j, suppressed)
  /\ ScheduleEviction({idOf[j]})
  /\ UNCHANGED <<status, queued, idOf, drain, disposeVars>>

\* the run of a cancelled job ends: the retention of its id starts again
CancelledRunSettles(j) ==
  /\ CanSettle(j) /\ status[j] = "cancelled"
  /\ settled' = [settled EXCEPT ![j] = TRUE]
  /\ ScheduleEviction({idOf[j]})
  /\ UNCHANGED <<status, queued, idOf, deliveryVars, drain, disposeVars>>

\* cancel and cancelAll: the running jobs of S, all of them listed
CancelJobs(S) ==
  /\ status' = [j \in Jobs |-> IF j \in S THEN "cancelled" ELSE status[j]]
  /\ ScheduleEviction({idOf[j] : j \in S})
  /\ UNCHANGED <<queued, settled, idOf, deliveryVars, drain, disposeVars>>

\* cancel(id): only a listed job that is still running
Cancel(j) ==
  /\ j \in Listed /\ status[j] = "running"
  /\ CancelJobs({j})

RunningOf(own) == {j \in AllRunning : OwnerOf[j] = own}

\* cancelAll({ ownerId })
CancelAll(own) ==
  /\ RunningOf(own) # {}
  /\ CancelJobs(RunningOf(own))

\* a retention timer fires: the id is forgotten, whoever holds it by now
EvictionTimer(i) ==
  /\ i \in timers
  /\ AbortIsPrompt =>
       \A j \in Jobs : status[j] = "cancelled" /\ idOf[j] = i => settled[j]
  /\ timers' = timers \ {i}
  /\ table' = [table EXCEPT ![i] = None]
  /\ suppressed' = suppressed \ {i}
  /\ watched' = watched \ {i}
  /\ UNCHANGED <<status, queued, settled, idOf, deliveryVars, drain, disposeVars>>

WatchJobs(I) ==
  /\ watched' = watched \cup I
  /\ UNCHANGED <<recordVars, suppressed, deliveryVars, drain, disposeVars>>

UnwatchJobs(I) ==
  /\ watched' = watched \ I
  /\ UNCHANGED <<recordVars, suppressed, deliveryVars, drain, disposeVars>>

\* acknowledgeDeliveries: returns early on an empty list
AcknowledgeDeliveries(I) ==
  /\ suppressed' = suppressed \cup I
  /\ deliveries' = IF I = {} THEN deliveries ELSE Unacknowledged(I, watched)
  /\ UNCHANGED <<recordVars, watched, calls, loop, loopAt, drain, disposeVars>>

\* mutant: resumed without a look at the record, which may be gone
ResumeUnchecked(i) ==
  /\ i \in suppressed
  /\ suppressed' = suppressed \ {i}
  /\ EnqueueDelivery(table[i], suppressed \ {i})
  /\ UNCHANGED <<recordVars, watched, drain, disposeVars>>

\* resumeDeliveries([id]): a job that finished while suppressed is queued again
ResumeDeliveries(i) ==
  /\ i \in suppressed
  /\ suppressed' = suppressed \ {i}
  /\ IF /\ table[i] # None /\ status[table[i]] \in Finished
        /\ \A j \in PendingJobs \cup InFlightJobs : idOf[j] # i
     THEN EnqueueDelivery(table[i], suppressed \ {i})
     ELSE UNCHANGED deliveryVars
  /\ UNCHANGED <<recordVars, watched, drain, disposeVars>>

----------------------------------------------------------------------------
(* Deliveries in progress. *)

\* the sleeping loop's timer fires
LoopWakes ==
  /\ loop = "sleep"
  /\ IF deliveries = <<>> \/ Head(deliveries).job # loopAt
     THEN LoopFrom(deliveries, Hidden, calls)
     ELSE IF Head(deliveries).job \in Hidden
     THEN LoopFrom(Tail(deliveries), Hidden, calls)
     ELSE /\ deliveries' = Tail(deliveries)
          /\ loop' = "deliver" /\ loopAt' = None
          /\ calls' = calls \cup {StartCall(Head(deliveries), "loop")}
  /\ UNCHANGED <<recordVars, muteVars, drain, disposeVars>>

\* mutant: an ended loop is forgotten, whatever was queued since
LoopEndsForGood ==
  /\ loop = "ending"
  /\ loop' = "off"
  /\ UNCHANGED <<recordVars, muteVars, deliveries, calls, loopAt, drain, disposeVars>>

\* the finally of an ended loop: forget it, and start another for what came since
LoopFinally ==
  /\ loop = "ending"
  /\ IF deliveries = <<>>
     THEN loop' = "off" /\ UNCHANGED <<deliveries, calls, loopAt>>
     ELSE LoopFrom(deliveries, Hidden, calls)
  /\ UNCHANGED <<recordVars, muteVars, drain, disposeVars>>

\* the end of #deliverDelivery for call c, the queue being dels: the loop goes
\* on if it awaits this call, and is started if it is not running
CallEnds(c, dels) ==
  /\ IF c.by = "loop" THEN LoopFrom(dels, Hidden, calls \ {c})
     ELSE IF dels = <<>> THEN deliveries' = dels /\ calls' = calls \ {c} /\ UNCHANGED <<loop, loopAt>>
     ELSE EnsureLoop(dels, Hidden, calls \ {c})
  /\ UNCHANGED <<recordVars, muteVars, drain, disposeVars>>

\* onJobComplete resolves
CallSucceeds(c) == c \in calls /\ CallEnds(c, deliveries)

\* onJobComplete throws: the delivery is queued again unless suppressed by now
CallFails(c) ==
  /\ c \in calls /\ c.attempt < MaxFailures
  /\ CallEnds(c, IF c.job \in Hidden THEN deliveries
                 ELSE Append(deliveries, [job |-> c.job, attempt |-> c.attempt + 1]))

\* drainDeliveries({ filter: { ownerId } }) starts when something is pending
DrainStarts(own) ==
  /\ drain.pc = "off" /\ HasPending(own)
  /\ drain' = [pc |-> "pick", owner |-> own, job |-> None]
  /\ UNCHANGED <<recordVars, muteVars, deliveryVars, disposeVars>>

\* the owner's queued deliveries #deliverNextFiltered may select: first attempts
\* are due in queue order, a retry at any moment
Selectable ==
  {k \in 1 .. Len(deliveries) :
     /\ OwnerOf[deliveries[k].job] = drain.owner
     /\ deliveries[k].job \in Jobs \ Hidden
     /\ \/ deliveries[k].attempt > 0
        \/ \A m \in 1 .. (k - 1) : \/ OwnerOf[deliveries[m].job] # drain.owner
                                   \/ deliveries[m].job \in Hidden
                                   \/ deliveries[m].attempt > 0}

\* #deliverNextFiltered takes the delivery out of the queue and calls back itself
DrainDelivers ==
  /\ drain.pc = "pick"
  /\ \E k \in Selectable :
       /\ deliveries' = SubSeq(deliveries, 1, k - 1) \o SubSeq(deliveries, k + 1, Len(deliveries))
       /\ calls' = calls \cup {StartCall(deliveries[k], "drain")}
       /\ drain' = [drain EXCEPT !.pc = "wait", !.job = deliveries[k].job]
  /\ UNCHANGED <<recordVars, muteVars, loop, loopAt, disposeVars>>

\* nothing queued for the owner: wait for one of its calls in flight, or be done
DrainWaitsOrEnds ==
  /\ drain.pc = "pick" /\ Selectable = {}
  /\ IF HasPending(drain.owner)
     THEN \E j \in InFlightJobs \ Hidden :
            OwnerOf[j] = drain.owner /\ drain' = [drain EXCEPT !.pc = "wait", !.job = j]
     ELSE drain' = NoDrain
  /\ UNCHANGED <<recordVars, muteVars, deliveryVars, disposeVars>>

\* the awaited delivery is over
DrainResumes ==
  /\ drain.pc = "wait" /\ \A c \in calls : c.job # drain.job
  /\ drain' = IF HasPending(drain.owner) THEN [drain EXCEPT !.pc = "pick", !.job = None]
              ELSE NoDrain
  /\ UNCHANGED <<recordVars, muteVars, deliveryVars, disposeVars>>

\* the drain's deadline passes
DrainTimesOut ==
  /\ drain.pc # "off"
  /\ drain' = NoDrain
  /\ UNCHANGED <<recordVars, muteVars, deliveryVars, disposeVars>>

----------------------------------------------------------------------------
(* dispose. *)

\* dispose up to waitForAll: no more registrations, old timers cleared, every
\* running job of the table cancelled
DisposeBegins ==
  LET ids == {idOf[j] : j \in AllRunning}
  IN /\ phase = "live"
     /\ phase' = "waiting"
     /\ status' = [j \in Jobs |-> IF j \in AllRunning THEN "cancelled" ELSE status[j]]
     /\ IF Retains
        THEN timers' = ids /\ UNCHANGED <<table, suppressed, watched>>
        ELSE /\ timers' = {}
             /\ table' = [i \in Ids |-> IF i \in ids THEN None ELSE table[i]]
             /\ suppressed' = suppressed \ ids /\ watched' = watched \ ids
     /\ waitFor' = {table'[i] : i \in Ids} \ {None}
     /\ UNCHANGED <<queued, settled, idOf, deliveryVars, drain>>

\* waitForAll is over: drainDeliveries, with its 3 s limit, begins
DisposeWaited ==
  /\ phase = "waiting" /\ \A j \in waitFor : settled[j]
  /\ phase' = "draining" /\ waitFor' = {}
  /\ UNCHANGED <<recordVars, muteVars, deliveryVars, drain>>

\* the drain is over or out of time: everything is cleared; calls go on unlisted
DisposeEnds ==
  /\ phase = "draining"
  /\ phase' = "closed"
  /\ timers' = {} /\ suppressed' = {} /\ watched' = {}
  /\ table' = [i \in Ids |-> None]
  /\ deliveries' = <<>>
  /\ calls' = {[c EXCEPT !.listed = FALSE] : c \in calls}
  /\ UNCHANGED <<status, queued, settled, idOf, loop, loopAt, drain, waitFor>>

Dispose == DisposeBegins \/ DisposeWaited \/ DisposeEnds

----------------------------------------------------------------------------
(* Steps the event loop takes on its own. *)
RunSteps ==
  \E j \in Jobs : MarkRunning(j) \/ CancelledRunSettles(j)
                  \/ \E o \in Finished : RunSettles(j, o)

LoopSteps == LoopWakes \/ LoopFinally

DrainSteps == DrainDelivers \/ DrainWaitsOrEnds \/ DrainResumes \/ DrainTimesOut

(* Calls of the public methods, in any order. *)
Client ==
  \/ \E j \in Jobs : Register(j, FALSE) \/ Cancel(j)
  \/ \E own \in Owners : CancelAll(own) \/ DrainStarts(own)
  \/ \E i \in Ids : WatchJobs({i}) \/ UnwatchJobs({i}) \/ AcknowledgeDeliveries({i})
                    \/ ResumeDeliveries(i)

Next ==
  \/ RunSteps \/ LoopSteps \/ DrainSteps
  \/ \E i \in Ids : EvictionTimer(i)
  \/ \E c \in calls : CallSucceeds(c) \/ CallFails(c)
  \/ Client \/ Dispose

Spec == Init /\ [][Next]_mgrVars

(* The part of Next that moves jobs and slots: clients only register and     *)
(* cancel.                                                                   *)
JobsNext ==
  \/ RunSteps \/ LoopSteps
  \/ \E i \in Ids : EvictionTimer(i)
  \/ \E c \in calls : CallSucceeds(c)
  \/ \E j \in Jobs : Register(j, FALSE) \/ Cancel(j)
  \/ Dispose

JobsSpec == Init /\ [][JobsNext]_mgrVars

(* Timers fire, promises that resolved run their continuations, callbacks   *)
(* and the runs of jobs end.  Clients need not call anything.               *)
Fairness ==
  /\ WF_mgrVars(LoopWakes) /\ WF_mgrVars(LoopFinally)
  /\ WF_mgrVars(\E c \in calls : CallSucceeds(c))
  /\ \A j \in Jobs : /\ WF_mgrVars(CancelledRunSettles(j))
                     /\ WF_mgrVars(\E o \in Finished : RunSettles(j, o))
                     /\ WF_mgrVars(MarkRunning(j))
  /\ \A i \in Ids : WF_mgrVars(EvictionTimer(i))
  /\ WF_mgrVars(DisposeWaited) /\ WF_mgrVars(DisposeEnds)

FairSpec == Spec /\ Fairness
FairJobsSpec == JobsSpec /\ Fairness

----------------------------------------------------------------------------
(* Properties. *)

(* A queued delivery always has a loop that will look at it: #ensureDelivery-*)
(* Loop, called by every enqueue, and the finally of an ended loop leave no *)
(* moment in which an entry waits for nobody.                               *)
DeliveriesDriven == deliveries # <<>> => loop # "off"

(* No completion is in the delivery machinery twice: resumeDeliveries and    *)
(* the retry path never add a second delivery of a job to a queued or        *)
(* running one ("so the result is still delivered exactly once").            *)
OneDeliveryPerJob ==
  /\ \A k, m \in 1 .. Len(deliveries) : deliveries[k].job = deliveries[m].job => k = m
  /\ \A c, d \in calls : c.job = d.job => c = d
  /\ \A c \in calls : c.job \notin PendingJobs

(* A cancelled job's text is never delivered, however its run ends after the *)
(* cancellation: whatever is queued or being delivered belongs to a job that *)
(* completed or failed.                                                      *)
OnlyFinishedDelivered ==
  \A j \in PendingJobs \cup {c.job : c \in calls} : status[j] \in Finished

(* The completion callback starts only for an id that is neither suppressed  *)
(* nor watched at that moment, also after a sleep in which it became so.     *)
NoCallWhileSuppressed ==
  [][\A j \in {c.job : c \in calls'} \ {c.job : c \in calls} :
        idOf[j] \notin suppressed' \cup watched']_mgrVars

(* Every running job is in the table under its id, so that cancel, cancelAll *)
(* and dispose can reach it: no retention timer, and no reuse of an id,      *)
(* takes the record of a running job away.                                   *)
RunningListed ==
  \A j \in Jobs : status[j] = "running" => table[idOf[j]] = j

(* The jobs that really run, listed or not, stay bounded, whatever the table  *)
(* says of them: those that do not come from a task tool by the limit on     *)
(* registrations, and those of each task tool by its own semaphore, which    *)
(* queued spawns pass after they went by the limit uncounted.                *)
RunningBound ==
  LET running == {j \in Jobs : status[j] = "running" /\ ~queued[j]}
  IN  /\ Cardinality(running \ Spawns) <= MaxRunningJobs
      /\ \A t \in TaskTools :
           Cardinality({j \in running \cap Spawns : ToolOf[j] = t}) <= SpawnSlots[t]

(* cancelAll "with no filter, cancels every running job": once dispose has   *)
(* begun no job is left in status running.                                   *)
DisposeCancelsAll == phase # "live" => \A j \in Jobs : status[j] # "running"

(* A queued or running delivery does not stay so for ever: it is delivered,  *)
(* or dropped because its id was suppressed or the manager disposed.         *)
DeliveriesEnd ==
  \A j \in Jobs : j \in PendingJobs \cup InFlightJobs ~> j \notin PendingJobs \cup InFlightJobs

(* dispose comes to its end when the cancelled runs end, parked spawns       *)
(* included.                                                                 *)
DisposeTerminates == phase = "waiting" ~> phase = "closed"

(* The record of a job whose run is over leaves the table: memory held by    *)
(* finished jobs is bounded by the retention.                                *)
RecordsExpire == \A j \in Jobs : settled[j] ~> j \notin Listed
============================================================================
