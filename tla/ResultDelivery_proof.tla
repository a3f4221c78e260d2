------------------------ MODULE ResultDelivery_proof ------------------------
(***************************************************************************)
(* Proofs about ResultDelivery, for every set of jobs, ids and overlapping  *)
(* polls.  Whatever the timing: the types hold, the manager's queue stays   *)
(* in order under its real callers, and no watch outlives its poll.  When   *)
(* aborted runs end, and ids go out of use, within the retention: no result *)
(* is lost, and the composition implements the inbox.                       *)
(***************************************************************************)
EXTENDS ResultDelivery, DeliveryQueue_proof

----------------------------------------------------------------------------
(* Watches and polls. *)

\* what the proof needs of the type invariant
PollsOK ==
  /\ status \in [Jobs -> Statuses]
  /\ idOf \in [Jobs -> Nat]
  /\ table \in [Ids -> Jobs \cup {None}]
  /\ polls \in [Polls -> [tracked : SUBSET Jobs, watching : SUBSET Jobs]]

\* polls watch jobs that were registered, so that their ids are final
PollsKnowIds == \A p \in Polls : \A j \in polls[p].watching : status[j] # "new"

\* the inductive invariant
WatchInv == PollsOK /\ PollsKnowIds /\ NoOrphanWatch

WatchedByPolls == UNION {polls[p].watching : p \in Polls}

(* No job becomes new again, and the id of one that is not new is final.     *)
RecordsAdvance ==
  \A j \in Jobs : status[j] # "new" => status'[j] # "new" /\ idOf'[j] = idOf[j]

RecordTypesOK ==
  /\ status \in [Jobs -> Statuses]
  /\ idOf \in [Jobs -> Nat]
  /\ table \in [Ids -> Jobs \cup {None}]

(* Steps that watch nothing new and leave the polls alone.                   *)
LEMMA NoNewWatch ==
  ASSUME WatchInv, RecordTypesOK', RecordsAdvance, watched' \subseteq watched, UNCHANGED polls
  PROVE  WatchInv'
<1>1. PollsOK'
  BY DEF WatchInv, PollsOK, RecordTypesOK
<1>2. PollsKnowIds'
  BY DEF WatchInv, PollsOK, PollsKnowIds, RecordsAdvance
<1>3. NoOrphanWatch'
  <2>1. SUFFICES ASSUME NEW i \in watched'
                 PROVE  \E p \in Polls : \E j \in polls[p].watching : idOf'[j] = i
    BY DEF NoOrphanWatch, IdsOf
  <2>2. PICK p \in Polls : \E j \in polls[p].watching : idOf[j] = i
    BY <2>1 DEF WatchInv, NoOrphanWatch, IdsOf
  <2>3. PICK j \in polls[p].watching : idOf[j] = i
    BY <2>2
  <2>4. j \in Jobs /\ status[j] # "new"
    BY <2>3 DEF WatchInv, PollsOK, PollsKnowIds
  <2>q. QED
    BY <2>3, <2>4 DEF RecordsAdvance
<1>q. QED
  BY <1>1, <1>2, <1>3 DEF WatchInv

(* Steps that change no record.                                              *)
LEMMA SameRecords ==
  ASSUME WatchInv, UNCHANGED <<status, idOf, table>>
  PROVE  RecordTypesOK' /\ RecordsAdvance
BY DEF WatchInv, PollsOK, RecordTypesOK, RecordsAdvance

(* Steps that change the status of registered jobs.                          *)
LEMMA StatusChanges ==
  ASSUME WatchInv, NEW S \in SUBSET Jobs, NEW st \in Statuses \ {"new"},
         status' = [j \in Jobs |-> IF j \in S THEN st ELSE status[j]],
         UNCHANGED <<idOf, table>>
  PROVE  RecordTypesOK' /\ RecordsAdvance
BY DEF WatchInv, PollsOK, RecordTypesOK, RecordsAdvance

(* sdk.ts keeps records: ending a run only starts a timer.                   *)
LEMMA EvictionLater ==
  ASSUME NEW S, ScheduleEviction(S)
  PROVE  UNCHANGED <<table, suppressed, watched>>
BY SessionAssumption DEF ScheduleEviction

LEMMA ManagerKeeps ==
  ASSUME WatchInv, ManagerSteps
  PROVE  WatchInv'
<1>1. UNCHANGED polls
  BY DEF ManagerSteps, sessionVars
<1>2. CASE LoopSteps
  <2>1. UNCHANGED <<status, idOf, table, watched>>
    BY <1>2 DEF LoopSteps, LoopWakes, LoopFinally, recordVars, muteVars
  <2>q. QED
    BY <1>1, <2>1, SameRecords, NoNewWatch
<1>3. ASSUME NEW j \in Jobs, MarkRunning(j) PROVE WatchInv'
  <2>1. UNCHANGED <<status, idOf, table, watched>>
    BY <1>3 DEF MarkRunning, muteVars
  <2>q. QED
    BY <1>1, <2>1, SameRecords, NoNewWatch
<1>4. ASSUME NEW j \in Jobs, CancelledRunSettles(j) PROVE WatchInv'
  <2>1. UNCHANGED <<status, idOf, table, watched>>
    BY <1>4, EvictionLater DEF CancelledRunSettles
  <2>q. QED
    BY <1>1, <2>1, SameRecords, NoNewWatch
<1>5. ASSUME NEW j \in Jobs, NEW o \in Finished, RunSettles(j, o) PROVE WatchInv'
  <2>1. status' = [status EXCEPT ![j] = o] /\ UNCHANGED <<idOf, table, watched>>
    BY <1>5, EvictionLater DEF RunSettles
  <2>2. o \in Statuses \ {"new"}
    BY DEF Finished, Statuses
  <2>3. RecordTypesOK' /\ RecordsAdvance
    BY <2>1, <2>2 DEF WatchInv, PollsOK, RecordTypesOK, RecordsAdvance
  <2>q. QED
    BY <1>1, <2>1, <2>3, NoNewWatch
<1>q. QED
  BY <1>2, <1>3, <1>4, <1>5 DEF ManagerSteps, RunSteps

LEMMA EvictsKeeps ==
  ASSUME WatchInv, NEW i \in Ids, Evicts(i)
  PROVE  WatchInv'
<1>1. /\ table' = [table EXCEPT ![i] = None] /\ watched' = watched \ {i}
      /\ UNCHANGED <<status, idOf, polls>>
  BY DEF Evicts, EvictionTimer, sessionVars
<1>2. RecordTypesOK' /\ RecordsAdvance
  BY <1>1 DEF WatchInv, PollsOK, RecordTypesOK, RecordsAdvance
<1>q. QED
  BY <1>1, <1>2, NoNewWatch

(* The completion callback, the flush and the turn change neither records    *)
(* nor watches.                                                              *)
LEMMA TurnKeeps ==
  ASSUME WatchInv, (\E c \in calls : CallDone(c)) \/ IdleFlush \/ TurnSteps
  PROVE  WatchInv'
<1>1. CASE \E c \in calls : CallDone(c)
  <2>1. UNCHANGED <<status, idOf, table, watched, polls>>
    BY <1>1 DEF CallDone, CallSucceeds, CallEnds, recordVars, muteVars, toolVars
  <2>q. QED
    BY <2>1, SameRecords, NoNewWatch
<1>2. CASE IdleFlush \/ TurnSteps
  <2>1. UNCHANGED <<status, idOf, table, watched, polls>>
    BY <1>2 DEF IdleFlush, TurnSteps, Prompt, ModelCallsTools, ToolsEnd, ModelStops, ModelFails,
                Settles, Abort, mgrVars, toolVars
  <2>q. QED
    BY <2>1, SameRecords, NoNewWatch
<1>q. QED
  BY <1>1, <1>2

(* A new job takes an id that no poll watches on its behalf.                 *)
LEMMA RegisterKeeps ==
  ASSUME WatchInv, NEW j \in Jobs, NEW ack \in BOOLEAN, Register(j, ack), UNCHANGED polls
  PROVE  WatchInv'
<1>1. PICK i \in Ids : idOf' = [idOf EXCEPT ![j] = i] /\ table' = [table EXCEPT ![i] = j]
  BY DEF Register
<1>2. /\ status[j] = "new" /\ status' = [status EXCEPT ![j] = "running"]
      /\ UNCHANGED watched
  BY DEF Register
<1>3. RecordTypesOK'
  BY <1>1, <1>2 DEF WatchInv, PollsOK, RecordTypesOK, Statuses, Ids
<1>4. RecordsAdvance
  BY <1>1, <1>2 DEF WatchInv, PollsOK, RecordsAdvance
<1>q. QED
  BY <1>2, <1>3, <1>4, NoNewWatch

(* The bash tool registers, waits, hands over or cancels.                    *)
LEMMA BashKeeps ==
  ASSUME WatchInv, NEW j \in Jobs,
         StartBackground(j) \/ StartBash(j) \/ BashReturns(j) \/ BashBackgrounds(j) \/ BashAborts(j)
  PROVE  WatchInv'
<1>1. CASE StartBackground(j) \/ StartBash(j)
  BY <1>1, RegisterKeeps DEF StartBackground, StartBash, sessionVars
<1>2. CASE BashReturns(j) \/ BashBackgrounds(j)
  <2>1. UNCHANGED <<status, idOf, table, watched, polls>>
    BY <1>2 DEF BashReturns, BashBackgrounds, ResumeDeliveries, mgrVars, recordVars
  <2>q. QED
    BY <2>1, SameRecords, NoNewWatch
<1>3. CASE BashAborts(j)
  <2>1. UNCHANGED polls
    BY <1>3 DEF BashAborts
  <2>2. CASE UNCHANGED mgrVars
    BY <2>1, <2>2, SameRecords, NoNewWatch DEF mgrVars
  <2>3. CASE Cancel(table[idOf[j]])
    <3>1. PICK k : k \in Listed /\ CancelJobs({k})
      BY <2>3 DEF Cancel
    <3>2. k \in Jobs
      BY <3>1 DEF Listed, WatchInv, PollsOK
    <3>3. /\ status' = [x \in Jobs |-> IF x \in {k} THEN "cancelled" ELSE status[x]]
          /\ UNCHANGED <<idOf, table, watched>>
      BY <3>1, EvictionLater DEF CancelJobs
    <3>4. "cancelled" \in Statuses \ {"new"}
      BY DEF Statuses
    <3>5. RecordTypesOK' /\ RecordsAdvance
      BY <3>2, <3>3, <3>4, StatusChanges
    <3>q. QED
      BY <2>1, <3>3, <3>5, NoNewWatch
  <2>q. QED
    BY <1>3, <2>2, <2>3 DEF BashAborts
<1>q. QED
  BY <1>1, <1>2, <1>3

LEMMA CancelToolKeeps ==
  ASSUME WatchInv, NEW j \in Jobs, CancelTool(j)
  PROVE  WatchInv'
<1>1. /\ status' = [status EXCEPT ![j] = "cancelled"]
      /\ UNCHANGED <<idOf, table, watched, polls>>
  BY DEF CancelTool, sessionVars
<1>2. RecordTypesOK' /\ RecordsAdvance
  BY <1>1 DEF WatchInv, PollsOK, RecordTypesOK, RecordsAdvance, Statuses
<1>q. QED
  BY <1>1, <1>2, NoNewWatch

LEMMA ReadJobsKeeps ==
  ASSUME WatchInv, NEW S, ReadJobs(S)
  PROVE  WatchInv'
<1>1. UNCHANGED <<status, idOf, table, watched, polls>>
  BY DEF ReadJobs, BuildResult, recordVars, toolVars
<1>q. QED
  BY <1>1, SameRecords, NoNewWatch

(* A poll that starts adds its ids and is there to watch them.               *)
LEMMA PollStartsKeeps ==
  ASSUME WatchInv, NEW p \in Polls, NEW S \in SUBSET Listed, PollStarts(p, S)
  PROVE  WatchInv'
<1> DEFINE running == {j \in S : status[j] = "running"}
<1>1. /\ polls[p] = NoPoll
      /\ polls' = [polls EXCEPT ![p] = [tracked |-> S, watching |-> running]]
      /\ watched' = watched \cup IdsOf(running)
      /\ UNCHANGED <<status, idOf, table>>
  BY DEF PollStarts, WatchJobs, recordVars
<1>2. S \subseteq Jobs
  BY DEF Listed, WatchInv, PollsOK
<1>3. /\ polls' \in [Polls -> [tracked : SUBSET Jobs, watching : SUBSET Jobs]]
      /\ polls'[p].watching = running
      /\ \A q \in Polls \ {p} : polls'[q] = polls[q]
  BY <1>1, <1>2 DEF WatchInv, PollsOK
<1>4. PollsOK' /\ PollsKnowIds'
  BY <1>1, <1>3 DEF WatchInv, PollsOK, PollsKnowIds
<1>5. NoOrphanWatch'
  <2>1. SUFFICES ASSUME NEW i \in watched'
                 PROVE  \E q \in Polls : \E j \in polls'[q].watching : idOf[j] = i
    BY <1>1 DEF NoOrphanWatch, IdsOf
  <2>2. CASE i \in IdsOf(running)
    BY <2>2, <1>3 DEF IdsOf
  <2>3. CASE i \in watched
    <3>1. PICK q \in Polls : \E j \in polls[q].watching : idOf[j] = i
      BY <2>3 DEF WatchInv, NoOrphanWatch, IdsOf
    <3>2. q # p
      BY <3>1, <1>1 DEF NoPoll
    <3>q. QED
      BY <3>1, <3>2, <1>3
  <2>q. QED
    BY <2>1, <2>2, <2>3, <1>1
<1>q. QED
  BY <1>4, <1>5 DEF WatchInv

(* A poll that returns unwatches every id it watched, also those another     *)
(* poll watches: what stays watched belongs to the others.                   *)
LEMMA PollReturnsKeeps ==
  ASSUME WatchInv, NEW p \in Polls, PollReturns(p)
  PROVE  WatchInv'
<1>1. /\ watched' = watched \ IdsOf(polls[p].watching)
      /\ polls' = [polls EXCEPT ![p] = NoPoll]
      /\ UNCHANGED <<status, idOf, table>>
  BY DEF PollReturns, BuildResult, recordVars
<1>2. /\ polls' \in [Polls -> [tracked : SUBSET Jobs, watching : SUBSET Jobs]]
      /\ polls'[p].watching = {}
      /\ \A q \in Polls \ {p} : polls'[q] = polls[q]
  BY <1>1 DEF WatchInv, PollsOK, NoPoll
<1>3. PollsOK' /\ PollsKnowIds'
  BY <1>1, <1>2 DEF WatchInv, PollsOK, PollsKnowIds
<1>4. NoOrphanWatch'
  <2>1. SUFFICES ASSUME NEW i \in watched'
                 PROVE  \E q \in Polls : \E j \in polls'[q].watching : idOf[j] = i
    BY <1>1 DEF NoOrphanWatch, IdsOf
  <2>2. i \in watched /\ i \notin IdsOf(polls[p].watching)
    BY <2>1, <1>1
  <2>3. PICK q \in Polls : \E j \in polls[q].watching : idOf[j] = i
    BY <2>2 DEF WatchInv, NoOrphanWatch, IdsOf
  <2>4. q # p
    BY <2>2, <2>3 DEF IdsOf
  <2>q. QED
    BY <2>3, <2>4, <1>2
<1>q. QED
  BY <1>3, <1>4 DEF WatchInv

LEMMA NextKeeps ==
  ASSUME WatchInv, [DeliveryNext]_vars
  PROVE  WatchInv'
<1>1. CASE ToolSteps
  BY <1>1, BashKeeps, CancelToolKeeps, ReadJobsKeeps, PollStartsKeeps, PollReturnsKeeps
  DEF ToolSteps
<1>2. CASE UNCHANGED vars
  BY <1>2, SameRecords, NoNewWatch DEF vars, mgrVars, sessionVars
<1>q. QED
  BY <1>1, <1>2, ManagerKeeps, EvictsKeeps, TurnKeeps DEF DeliveryNext

LEMMA InitWatch == DeliveryInit => WatchInv
<1> SUFFICES ASSUME DeliveryInit PROVE WatchInv
  OBVIOUS
<1>1. PollsOK /\ PollsKnowIds
  BY DEF DeliveryInit, Init, PollsOK, PollsKnowIds, NoPoll, Statuses
<1>2. NoOrphanWatch
  BY DEF DeliveryInit, Init, NoOrphanWatch
<1>q. QED
  BY <1>1, <1>2 DEF WatchInv

(* Polls watch registered jobs, and every watched id belongs to one of them. *)
THEOREM WatchInvHolds == DeliverySpec => []WatchInv
<1>1. WatchInv /\ [DeliveryNext]_vars => WatchInv'
  BY NextKeeps
<1>q. QED
  BY <1>1, InitWatch, PTL DEF DeliverySpec

(* No watch outlives the poll that set it, so none is left behind to swallow *)
(* a later completion of the same id, whatever polls overlap, fail or are    *)
(* aborted.                                                                  *)
THEOREM NoWatchLeftBehind == DeliverySpec => []NoOrphanWatch
<1>1. WatchInv => NoOrphanWatch
  BY DEF WatchInv
<1>q. QED
  BY <1>1, WatchInvHolds, PTL

----------------------------------------------------------------------------
(* Types, and what the manager's proofs say of its state here.               *)

\* tools refer to jobs that were registered
ToolsKnowJobs ==
  /\ \A p \in Polls : \A j \in polls[p].tracked : status[j] # "new"
  /\ \A j \in foreground : status[j] # "new"

\* the machinery in order, however late runs end and records expire
OrderInv == phase = "live" /\ RecordInv /\ QueueInv /\ SessionOK /\ ToolsKnowJobs

(* No record becomes new again.                                              *)
NoneRenewed == \A j \in Jobs : status[j] # "new" => status'[j] # "new"

LEMMA SameStatus ==
  ASSUME UNCHANGED status
  PROVE  NoneRenewed /\ FinishedStay
BY DEF NoneRenewed, FinishedStay

\* what a job tool is asked about
LEMMA ListedAreJobs ==
  ASSUME RecordInv
  PROVE  Listed \subseteq Jobs /\ \A j \in Listed : status[j] # "new" /\ idOf[j] \in Ids
BY JobsAssumption DEF RecordInv, RecordsOK, IdsAgree, Listed, Ids

\* what stays of the types when a step leaves the tools alone
LEMMA ToolsUntouched ==
  ASSUME SessionOK, ToolsKnowJobs, NoneRenewed, UNCHANGED toolVars
  PROVE  ToolsKnowJobs'
<1>1. /\ polls \in [Polls -> [tracked : SUBSET Jobs, watching : SUBSET Jobs]]
      /\ foreground \subseteq Jobs /\ polls' = polls /\ foreground' = foreground
  BY DEF SessionOK, toolVars
<1>q. QED
  BY <1>1 DEF ToolsKnowJobs, NoneRenewed

LEMMA SessionUntouched ==
  ASSUME SessionOK, UNCHANGED sessionVars
  PROVE  SessionOK'
BY DEF SessionOK, sessionVars

LEMMA TellTypes ==
  ASSUME SessionOK, NEW S, Tell(S)
  PROVE  told' \in [Jobs -> BOOLEAN]
BY DEF Tell, SessionOK

LEMMA InjectTypes ==
  ASSUME SessionOK, NEW S, Inject(S)
  PROVE  told' \in [Jobs -> BOOLEAN] /\ injected' \in [Jobs -> Nat]
BY DEF Inject, Tell, SessionOK

(* The manager's own steps, and the timers.                                  *)
LEMMA ManagerOrder ==
  ASSUME OrderInv, ManagerSteps
  PROVE  OrderInv'
<1>1. UNCHANGED sessionVars /\ (RunSteps \/ LoopSteps)
  BY DEF ManagerSteps
<1>2. /\ SessionOK' /\ UNCHANGED toolVars
  BY <1>1, SessionUntouched DEF OrderInv, sessionVars, toolVars
<1>3. MutesOK
  BY QueueInvMeans DEF OrderInv
<1>4. CASE RunSteps
  <2>1. RecordInv' /\ QueueInv'
    BY <1>3, <1>4, RunRecords, RunQueue DEF OrderInv
  <2>2. UNCHANGED phase /\ NoneRenewed
    <3>1. PICK j \in Jobs : \/ MarkRunning(j) \/ CancelledRunSettles(j)
                            \/ \E o \in Finished : RunSettles(j, o)
      BY <1>4, Zenon DEF RunSteps
    <3>2. CASE MarkRunning(j) \/ CancelledRunSettles(j)
      BY <3>2 DEF MarkRunning, CancelledRunSettles, NoneRenewed, disposeVars
    <3>3. CASE \E o \in Finished : RunSettles(j, o)
      BY <3>3 DEF RunSettles, NoneRenewed, disposeVars, Finished, OrderInv, RecordInv, RecordsOK
    <3>q. QED
      BY <3>1, <3>2, <3>3
  <2>q. QED
    BY <1>2, <2>1, <2>2, ToolsUntouched DEF OrderInv
<1>5. CASE LoopSteps
  <2>1. UNCHANGED <<recordVars, disposeVars>>
    BY <1>5 DEF LoopSteps, LoopWakes, LoopFinally
  <2>2. RecordInv' /\ QueueInv'
    BY <1>5, <2>1, RecordsUntouched, LoopQueue DEF OrderInv
  <2>3. UNCHANGED phase /\ NoneRenewed
    BY <2>1, SameStatus DEF recordVars, disposeVars
  <2>q. QED
    BY <1>2, <2>2, <2>3, ToolsUntouched DEF OrderInv
<1>q. QED
  BY <1>1, <1>4, <1>5

LEMMA EvictsOrder ==
  ASSUME OrderInv, NEW i \in Ids, Evicts(i)
  PROVE  OrderInv'
<1>1. EvictionTimer(i) /\ UNCHANGED sessionVars
  BY DEF Evicts
<1>2. UNCHANGED <<deliveryVars, drain, phase, status>>
  BY <1>1 DEF EvictionTimer, disposeVars
<1>3. MutesOK
  BY QueueInvMeans DEF OrderInv
<1>4. RecordInv' /\ FinishedStay /\ MutesOK'
  BY <1>1, <1>3, TimerRecords DEF OrderInv
<1>5. QueueInv'
  BY <1>2, <1>4, RecordStepQueue DEF OrderInv
<1>6. SessionOK' /\ UNCHANGED toolVars
  BY <1>1, SessionUntouched DEF OrderInv, sessionVars, toolVars
<1>q. QED
  BY <1>2, <1>4, <1>5, <1>6, SameStatus, ToolsUntouched DEF OrderInv

(* A completion is staged, and the flush is scheduled.                       *)
LEMMA CallDoneOrder ==
  ASSUME OrderInv, NEW c \in calls, CallDone(c)
  PROVE  OrderInv'
<1>1. CallSucceeds(c) /\ UNCHANGED <<turnVars, talkVars, toolVars>>
  BY DEF CallDone
<1>2. UNCHANGED <<recordVars, disposeVars>>
  BY <1>1 DEF CallSucceeds, CallEnds
<1>3. RecordInv' /\ QueueInv'
  BY <1>1, <1>2, RecordsUntouched, CallsQueue DEF OrderInv
<1>4. calls \subseteq Call
  BY QueueInvMeans DEF OrderInv, Wellformed
<1>5. c.job \in Jobs
  BY <1>4 DEF Call
<1>6. /\ entries' \in Seq(Jobs)
      /\ flushPending' \in BOOLEAN /\ flushTask' \in BOOLEAN
  <2>1. Append(entries, c.job) \in Seq(Jobs)
    BY <1>5 DEF OrderInv, SessionOK
  <2>q. QED
    BY <2>1 DEF CallDone, OrderInv, SessionOK, queueVars
<1>7. SessionOK'
  BY <1>1, <1>6 DEF OrderInv, SessionOK, turnVars, talkVars, toolVars
<1>8. UNCHANGED <<phase, status>>
  BY <1>2 DEF recordVars, disposeVars
<1>q. QED
  BY <1>1, <1>3, <1>7, <1>8, SameStatus, ToolsUntouched DEF OrderInv

(* The manager is left alone.                                                *)
LEMMA ManagerUntouched ==
  ASSUME OrderInv, UNCHANGED mgrVars
  PROVE  RecordInv' /\ QueueInv' /\ UNCHANGED phase /\ UNCHANGED status
<1>1. /\ UNCHANGED <<recordVars, disposeVars>>
      /\ UNCHANGED <<deliveryVars, drain, phase, status, suppressed, watched>>
  BY DEF mgrVars, recordVars, disposeVars, deliveryVars
<1>2. RecordInv' /\ FinishedStay
  BY <1>1, RecordsUntouched DEF OrderInv
<1>3. MutesOK'
  BY <1>1, QueueInvMeans DEF OrderInv, MutesOK
<1>q. QED
  BY <1>1, <1>2, <1>3, RecordStepQueue DEF OrderInv

LEMMA TurnOrder ==
  ASSUME OrderInv, IdleFlush \/ TurnSteps
  PROVE  OrderInv'
<1>1. UNCHANGED mgrVars /\ UNCHANGED toolVars
  BY DEF IdleFlush, TurnSteps, Prompt, ModelCallsTools, ToolsEnd, ModelStops, ModelFails,
         Settles, Abort
<1>2. RecordInv' /\ QueueInv' /\ UNCHANGED phase /\ UNCHANGED status
  BY <1>1, ManagerUntouched
<1>3. /\ session' \in {"idle", "model", "tools", "closing"} /\ aborting' \in BOOLEAN
      /\ aborts' \in 0 .. MaxAborts /\ errors' \in 0 .. MaxErrors
      /\ flushPending' \in BOOLEAN /\ flushTask' \in BOOLEAN
      /\ entries' \in {entries, <<>>}
      /\ UNCHANGED talkVars \/ \E S : Inject(S)
  <2>1. SessionOK
    BY DEF OrderInv
  <2>2. CASE IdleFlush
    <3>1. /\ flushTask' = FALSE /\ flushPending' = FALSE
          /\ UNCHANGED <<aborting, aborts, errors>>
          /\ FlushQueue
      BY <2>2 DEF IdleFlush
    <3>2. session' \in {session, "model"} /\ entries' \in {entries, <<>>}
      BY <3>1 DEF FlushQueue
    <3>3. UNCHANGED talkVars \/ Inject(Survivors)
      BY <3>1 DEF FlushQueue
    <3>4. UNCHANGED talkVars \/ \E S : Inject(S)
      BY <3>3
    <3>q. QED
      BY <2>1, <3>1, <3>2, <3>4 DEF SessionOK
  <2>3. CASE Prompt \/ ModelCallsTools \/ ModelFails \/ Settles
    <3>1. /\ session' \in {"idle", "model", "tools", "closing"} /\ aborting' \in {aborting, FALSE}
          /\ \/ errors' = errors
             \/ errors < MaxErrors /\ errors' = errors + 1
          /\ UNCHANGED <<entries, flushPending, flushTask, aborts, talkVars>>
      BY <2>3 DEF Prompt, ModelCallsTools, ModelFails, Settles, queueVars
    <3>2. errors' \in 0 .. MaxErrors
      BY <2>1, <3>1, SessionAssumption DEF SessionOK
    <3>3. aborting' \in BOOLEAN
      BY <2>1, <3>1, Zenon DEF SessionOK
    <3>q. QED
      BY <2>1, <3>1, <3>2, <3>3 DEF SessionOK
  <2>5. CASE Abort
    <3>1. /\ flushTask' = FALSE /\ aborts' = aborts + 1 /\ aborts < MaxAborts
          /\ UNCHANGED <<entries, flushPending, session, errors, talkVars>>
      BY <2>5 DEF Abort
    <3>2. aborting' \in BOOLEAN
      <4>1. aborting' = (session \in {"model", "tools"})
        BY <2>5 DEF Abort
      <4>2. CASE session \in {"model", "tools"}
        BY <4>1, <4>2
      <4>3. CASE session \notin {"model", "tools"}
        BY <4>1, <4>3
      <4>q. QED
        BY <4>2, <4>3
    <3>3. aborts' \in 0 .. MaxAborts
      BY <2>1, <3>1, SessionAssumption DEF SessionOK
    <3>q. QED
      BY <2>1, <3>1, <3>2, <3>3 DEF SessionOK
  <2>4. CASE ToolsEnd \/ ModelStops
    <3>1. /\ entries' = <<>> /\ Inject(Survivors)
          /\ UNCHANGED <<flushPending, flushTask, aborting, aborts, errors>>
          /\ session' \in {"model", "closing"}
      BY <2>4 DEF ToolsEnd, ModelStops, DrainAsides
    <3>2. \E S : Inject(S)
      BY <3>1
    <3>q. QED
      BY <2>1, <3>1, <3>2 DEF SessionOK
  <2>q. QED
    BY <2>2, <2>3, <2>4, <2>5 DEF TurnSteps
<1>4. told' \in [Jobs -> BOOLEAN] /\ injected' \in [Jobs -> Nat]
  BY <1>3, InjectTypes DEF OrderInv, SessionOK, talkVars
<1>5. SessionOK'
  <2>1. entries' \in Seq(Jobs)
    <3>1. entries \in Seq(Jobs) /\ <<>> \in Seq(Jobs)
      BY DEF OrderInv, SessionOK
    <3>q. QED
      BY <1>3, <3>1
  <2>2. polls' = polls /\ foreground' = foreground
    BY <1>1 DEF toolVars
  <2>q. QED
    BY <1>3, <1>4, <2>1, <2>2 DEF OrderInv, SessionOK
<1>q. QED
  BY <1>1, <1>2, <1>5, SameStatus, ToolsUntouched DEF OrderInv

----------------------------------------------------------------------------
\* records after a tool's step that only changes what is muted and queued
LEMMA MutingOrder ==
  ASSUME OrderInv, UNCHANGED <<recordVars, disposeVars, calls, loop, loopAt, drain>>, MutesOK',
         \/ deliveries' = deliveries
         \/ \E I, W : deliveries' = Unacknowledged(I, W)
  PROVE  RecordInv' /\ QueueInv' /\ UNCHANGED phase /\ UNCHANGED status
<1>1. RecordInv' /\ FinishedStay
  BY RecordsUntouched DEF OrderInv
<1>2. DrainOK' /\ UNCHANGED phase /\ UNCHANGED status
  BY QueueInvMeans DEF OrderInv, DrainOK, recordVars, disposeVars
<1>3. /\ Wellformed(deliveries', calls) /\ Busy(deliveries', calls) \subseteq Busy(deliveries, calls)
      /\ deliveries = <<>> => deliveries' = <<>>
  BY QueueInvMeans, UnacknowledgedOK DEF OrderInv
<1>q. QED
  BY <1>1, <1>2, <1>3, QuietKeeps DEF OrderInv

LEMMA RegisterOrder ==
  ASSUME OrderInv, NEW j \in Jobs, NEW ack \in BOOLEAN, Register(j, ack)
  PROVE  RecordInv' /\ QueueInv' /\ UNCHANGED phase /\ NoneRenewed /\ status'[j] # "new"
<1>1. RecordInv' /\ QueueInv'
  BY QueueInvMeans, RegisterRecords, RegisterQueue DEF OrderInv
<1>2. status' = [status EXCEPT ![j] = "running"] /\ UNCHANGED phase
  BY DEF Register
<1>3. status \in [Jobs -> Statuses]
  BY DEF OrderInv, RecordInv, RecordsOK
<1>q. QED
  BY <1>1, <1>2, <1>3 DEF NoneRenewed

\* a running job of the table is cancelled
LEMMA CancelOrder ==
  ASSUME OrderInv, NEW k, Cancel(k)
  PROVE  RecordInv' /\ QueueInv' /\ UNCHANGED phase /\ NoneRenewed
<1> DEFINE S == {k}
<1>1. k \in Listed /\ status[k] = "running" /\ CancelJobs(S)
  BY DEF Cancel
<1>2. S \in SUBSET Jobs /\ \A j \in S : status[j] = "running"
  BY <1>1, ListedAreJobs DEF OrderInv
<1> HIDE DEF S
<1>3. RecordInv' /\ FinishedStay /\ MutesOK'
  BY <1>1, <1>2, QueueInvMeans, CancelRecords DEF OrderInv
<1>4. UNCHANGED <<deliveryVars, drain, phase>>
  BY <1>1 DEF CancelJobs, disposeVars
<1>5. NoneRenewed
  BY <1>1 DEF CancelJobs, NoneRenewed
<1>q. QED
  BY <1>3, <1>4, <1>5, RecordStepQueue DEF OrderInv

LEMMA BashOrder ==
  ASSUME OrderInv, NEW j \in Jobs,
         StartBackground(j) \/ StartBash(j) \/ BashReturns(j) \/ BashBackgrounds(j) \/ BashAborts(j)
  PROVE  OrderInv'
<1>1. RecordInv' /\ QueueInv' /\ UNCHANGED phase /\ NoneRenewed
  <2>1. CASE StartBackground(j) \/ StartBash(j)
    BY <2>1, RegisterOrder DEF StartBackground, StartBash
  <2>2. CASE UNCHANGED mgrVars
    BY <2>2, ManagerUntouched, SameStatus
  <2>3. CASE ResumeDeliveries(idOf[j])
    <3>1. UNCHANGED <<recordVars, disposeVars>> /\ idOf[j] \in suppressed
      BY <2>3 DEF ResumeDeliveries
    <3>2. idOf[j] \in Ids
      BY <3>1, QueueInvMeans DEF OrderInv, MutesOK
    <3>3. RecordInv' /\ QueueInv'
      BY <2>3, <3>1, <3>2, RecordsUntouched, ResumeQueue DEF OrderInv
    <3>q. QED
      BY <3>1, <3>3, SameStatus DEF recordVars, disposeVars
  <2>4. CASE Cancel(table[idOf[j]])
    BY <2>4, CancelOrder
  <2>q. QED
    BY <2>1, <2>2, <2>3, <2>4 DEF BashReturns, BashBackgrounds, BashAborts
<1>2. /\ foreground' \in SUBSET (foreground \cup {k \in {j} : status'[k] # "new"})
      /\ UNCHANGED <<queueVars, turnVars, injected, polls>>
      /\ told' = told \/ \E S : Tell(S)
  <2>1. CASE StartBackground(j)
    BY <2>1 DEF StartBackground, sessionVars, queueVars, turnVars
  <2>2. CASE StartBash(j)
    <3>1. status'[j] # "new"
      BY <2>2, RegisterOrder DEF StartBash
    <3>q. QED
      BY <2>2, <3>1 DEF StartBash, talkVars
  <2>3. CASE BashReturns(j) \/ BashAborts(j)
    <3>1. \E S : Tell(S)
      BY <2>3, Zenon DEF BashReturns, BashAborts
    <3>q. QED
      BY <2>3, <3>1 DEF BashReturns, BashAborts
  <2>4. CASE BashBackgrounds(j)
    BY <2>4 DEF BashBackgrounds, talkVars
  <2>q. QED
    BY <2>1, <2>2, <2>3, <2>4
<1>3. told' \in [Jobs -> BOOLEAN]
  BY <1>2, TellTypes DEF OrderInv, SessionOK
<1>4. SessionOK'
  BY <1>2, <1>3 DEF OrderInv, SessionOK, queueVars, turnVars
<1>5. ToolsKnowJobs'
  BY <1>1, <1>2 DEF OrderInv, SessionOK, ToolsKnowJobs, NoneRenewed
<1>q. QED
  BY <1>1, <1>4, <1>5 DEF OrderInv

\* whoever holds the ids of registered jobs by now is registered
LEMMA LatestAreJobs ==
  ASSUME RecordInv, NEW S \in SUBSET Jobs, \A j \in S : status[j] # "new"
  PROVE  /\ Latest(S) \subseteq Jobs /\ Over(S) \subseteq Jobs
         /\ IdsOf(Over(S)) \subseteq Ids
<1>1. ASSUME NEW k \in Latest(S) PROVE k \in Jobs /\ status[k] # "new"
  <2>1. PICK j \in S : k = IF table[idOf[j]] # None THEN table[idOf[j]] ELSE j
    BY DEF Latest
  <2>2. idOf[j] \in Ids
    BY IdOfRegistered
  <2>3. CASE table[idOf[j]] # None
    <3>1. k = table[idOf[j]] /\ k \in Jobs /\ idOf[k] = idOf[j]
      BY <2>1, <2>2, <2>3 DEF RecordInv, RecordsOK, IdsAgree
    <3>q. QED
      BY <2>2, <3>1 DEF RecordInv, IdsAgree, Ids
  <2>4. CASE table[idOf[j]] = None
    BY <2>1, <2>4
  <2>q. QED
    BY <2>3, <2>4
<1>2. \A k \in Over(S) : k \in Jobs /\ idOf[k] \in Ids
  BY <1>1, IdOfRegistered DEF Over
<1>q. QED
  BY <1>1, <1>2 DEF IdsOf

LEMMA BuildOrder ==
  ASSUME OrderInv, NEW S \in SUBSET Jobs, \A j \in S : status[j] # "new",
         NEW W \in SUBSET Ids, BuildResult(S, W)
  PROVE  /\ RecordInv' /\ QueueInv' /\ UNCHANGED phase /\ UNCHANGED status
         /\ told' \in [Jobs -> BOOLEAN] /\ UNCHANGED injected
<1>1. /\ UNCHANGED <<recordVars, disposeVars, calls, loop, loopAt, drain>>
      /\ suppressed' = suppressed \cup IdsOf(Over(S)) /\ watched' = W
      /\ UNCHANGED injected
      /\ \E X : Tell(X)
  BY DEF BuildResult
<1>2. \/ deliveries' = deliveries
      \/ \E I, V : deliveries' = Unacknowledged(I, V)
  BY Zenon DEF BuildResult
<1>3. IdsOf(Over(S)) \subseteq Ids
  BY LatestAreJobs DEF OrderInv
<1>4. MutesOK'
  BY <1>1, <1>3, QueueInvMeans DEF OrderInv, MutesOK
<1>q. QED
  BY <1>1, <1>2, <1>4, MutingOrder, TellTypes DEF OrderInv

LEMMA ReadOrder ==
  ASSUME OrderInv, NEW S \in SUBSET Listed, ReadJobs(S)
  PROVE  OrderInv'
<1>1. BuildResult(S, watched) /\ UNCHANGED <<queueVars, turnVars, toolVars>>
  BY DEF ReadJobs
<1>2. S \in SUBSET Jobs /\ \A j \in S : status[j] # "new"
  BY ListedAreJobs DEF OrderInv
<1>3. watched \in SUBSET Ids
  BY QueueInvMeans DEF OrderInv, MutesOK
<1>4. /\ RecordInv' /\ QueueInv' /\ UNCHANGED phase /\ UNCHANGED status
      /\ told' \in [Jobs -> BOOLEAN] /\ UNCHANGED injected
  BY <1>1, <1>2, <1>3, BuildOrder
<1>5. SessionOK'
  BY <1>1, <1>4 DEF OrderInv, SessionOK, queueVars, turnVars, toolVars
<1>q. QED
  BY <1>1, <1>4, <1>5, SameStatus, ToolsUntouched DEF OrderInv

LEMMA PollReturnsOrder ==
  ASSUME OrderInv, NEW p \in Polls, PollReturns(p)
  PROVE  OrderInv'
<1> DEFINE S == polls[p].tracked
<1>1. /\ BuildResult(S, watched \ IdsOf(polls[p].watching))
      /\ polls' = [polls EXCEPT ![p] = NoPoll]
      /\ UNCHANGED <<queueVars, turnVars, foreground>>
  BY DEF PollReturns
<1>2. S \in SUBSET Jobs /\ \A j \in S : status[j] # "new"
  BY DEF OrderInv, SessionOK, ToolsKnowJobs
<1>3. watched \ IdsOf(polls[p].watching) \in SUBSET Ids
  BY QueueInvMeans DEF OrderInv, MutesOK
<1> HIDE DEF S
<1>4. /\ RecordInv' /\ QueueInv' /\ UNCHANGED phase /\ UNCHANGED status
      /\ told' \in [Jobs -> BOOLEAN] /\ UNCHANGED injected
  BY <1>1, <1>2, <1>3, BuildOrder
<1>5. /\ polls' \in [Polls -> [tracked : SUBSET Jobs, watching : SUBSET Jobs]]
      /\ \A q \in Polls : polls'[q] = polls[q] \/ polls'[q].tracked = {}
  BY <1>1 DEF OrderInv, SessionOK, NoPoll
<1>6. SessionOK'
  BY <1>1, <1>4, <1>5 DEF OrderInv, SessionOK, queueVars, turnVars
<1>7. ToolsKnowJobs'
  BY <1>1, <1>4, <1>5 DEF OrderInv, ToolsKnowJobs
<1>q. QED
  BY <1>4, <1>6, <1>7 DEF OrderInv

LEMMA PollStartsOrder ==
  ASSUME OrderInv, NEW p \in Polls, NEW S \in SUBSET Listed, PollStarts(p, S)
  PROVE  OrderInv'
<1> DEFINE running == {j \in S : status[j] = "running"}
<1>1. /\ polls' = [polls EXCEPT ![p] = [tracked |-> S, watching |-> running]]
      /\ WatchJobs(IdsOf(running))
      /\ UNCHANGED <<queueVars, turnVars, talkVars, foreground>>
  BY DEF PollStarts
<1>2. /\ S \subseteq Jobs /\ running \subseteq Jobs
      /\ \A j \in S : status[j] # "new" /\ idOf[j] \in Ids
  BY ListedAreJobs DEF OrderInv
<1>3. IdsOf(running) \subseteq Ids
  BY <1>2 DEF IdsOf
<1>4. RecordInv' /\ QueueInv' /\ UNCHANGED <<phase, status>>
  <2>1. UNCHANGED <<recordVars, disposeVars>>
    BY <1>1 DEF WatchJobs
  <2>q. QED
    BY <1>1, <1>3, <2>1, RecordsUntouched, MuteQueue DEF OrderInv, recordVars, disposeVars
<1>5. /\ polls' \in [Polls -> [tracked : SUBSET Jobs, watching : SUBSET Jobs]]
      /\ \A q \in Polls : polls'[q] = polls[q] \/ polls'[q].tracked = S
  BY <1>1, <1>2 DEF OrderInv, SessionOK
<1>6. SessionOK'
  BY <1>1, <1>5 DEF OrderInv, SessionOK, queueVars, turnVars, talkVars
<1>7. ToolsKnowJobs'
  BY <1>1, <1>2, <1>4, <1>5 DEF OrderInv, ToolsKnowJobs
<1>q. QED
  BY <1>4, <1>6, <1>7 DEF OrderInv

(* The job tool's cancel does both in one go.                                *)
LEMMA CancelToolOrder ==
  ASSUME OrderInv, NEW j \in Jobs, CancelTool(j)
  PROVE  OrderInv'
<1>1. /\ status[j] = "running" /\ status' = [status EXCEPT ![j] = "cancelled"]
      /\ timers' = timers \cup {idOf[j]} /\ suppressed' = suppressed \cup {idOf[j]}
      /\ deliveries' = Unacknowledged({idOf[j]}, watched)
      /\ UNCHANGED <<queued, settled, idOf, table, watched, calls, loop, loopAt, drain,
                     phase, waitFor>>
      /\ UNCHANGED sessionVars
  BY DEF CancelTool, disposeVars
<1>2. idOf[j] \in Ids
  BY <1>1, IdOfRegistered DEF OrderInv
<1>3. RecordInv' /\ FinishedStay /\ NoneRenewed
  BY <1>1, <1>2 DEF OrderInv, RecordInv, RecordsOK, IdsAgree, Statuses, FinishedStay, Finished,
                    NoneRenewed
<1>4. MutesOK' /\ DrainOK' /\ UNCHANGED <<calls, loop, loopAt, phase>>
  BY <1>1, <1>2, QueueInvMeans DEF OrderInv, MutesOK, DrainOK
<1>5. /\ Wellformed(deliveries', calls) /\ Busy(deliveries', calls) \subseteq Busy(deliveries, calls)
      /\ deliveries = <<>> => deliveries' = <<>>
  BY <1>1, QueueInvMeans, UnacknowledgedOK DEF OrderInv
<1>6. QueueInv'
  BY <1>3, <1>4, <1>5, QuietKeeps DEF OrderInv
<1>7. SessionOK' /\ UNCHANGED toolVars
  BY <1>1, SessionUntouched DEF OrderInv, sessionVars, toolVars
<1>q. QED
  BY <1>3, <1>4, <1>6, <1>7, ToolsUntouched DEF OrderInv

LEMMA NextOrder ==
  ASSUME OrderInv, [DeliveryNext]_vars
  PROVE  OrderInv'
<1>1. CASE ToolSteps
  <2>1. Listed \in SUBSET Listed
    OBVIOUS
  <2>q. QED
    BY <1>1, <2>1, BashOrder, CancelToolOrder, ReadOrder, PollStartsOrder, PollReturnsOrder
    DEF ToolSteps
<1>2. CASE UNCHANGED vars
  <2>1. UNCHANGED mgrVars /\ UNCHANGED sessionVars /\ UNCHANGED toolVars
    BY <1>2 DEF vars, mgrVars, sessionVars, toolVars
  <2>q. QED
    BY <2>1, ManagerUntouched, SessionUntouched, SameStatus, ToolsUntouched DEF OrderInv
<1>q. QED
  BY <1>1, <1>2, ManagerOrder, EvictsOrder, CallDoneOrder, TurnOrder DEF DeliveryNext

LEMMA InitOrder == DeliveryInit => OrderInv
<1> SUFFICES ASSUME DeliveryInit PROVE OrderInv
  OBVIOUS
<1>1. Init /\ phase = "live"
  BY DEF DeliveryInit, Init
<1>2. SessionOK
  <2>1. 0 \in 0 .. MaxAborts /\ 0 \in 0 .. MaxErrors /\ <<>> \in Seq(Jobs)
    BY SessionAssumption
  <2>q. QED
    BY <2>1 DEF DeliveryInit, SessionOK, NoPoll
<1>3. ToolsKnowJobs
  BY DEF DeliveryInit, ToolsKnowJobs, NoPoll
<1>q. QED
  BY <1>1, <1>2, <1>3, InitQueue DEF OrderInv

(* The manager stays in order under its real callers.                        *)
THEOREM OrderHolds == DeliverySpec => []OrderInv
<1>1. OrderInv /\ [DeliveryNext]_vars => OrderInv'
  BY NextOrder
<1>q. QED
  BY <1>1, InitOrder, PTL DEF DeliverySpec

(* Type correctness of the composition, whatever the timing.                 *)
THEOREM DeliveryTypes == DeliverySpec => []DeliveryTypeOK
<1>1. OrderInv => DeliveryTypeOK
  BY DEF OrderInv, RecordInv, QueueInv, DeliveryTypeOK, TypeOK
<1>q. QED
  BY <1>1, OrderHolds, PTL

----------------------------------------------------------------------------
(* What is on its way to the callback, and what a step may drop of it.       *)

OnTheWay == Busy(deliveries, calls)

(* The loop drops nothing but what is hidden.                                *)
LEMMA LoopFromSpares ==
  ASSUME NEW dels, NEW hid, NEW C, Wellformed(dels, C), LoopFrom(dels, hid, C)
  PROVE  Busy(dels, C) \subseteq OnTheWay' \cup hid
<1>1. dels \in Seq(Delivery)
  BY DEF Wellformed
<1>2. PICK k \in 0 .. Len(dels) :
        /\ \A m \in 1 .. k : dels[m].job \in hid
        /\ \/ /\ k = Len(dels)
              /\ deliveries' = <<>> /\ calls' = C
           \/ /\ k < Len(dels)
              /\ deliveries' = SubSeq(dels, k + 1, Len(dels)) /\ calls' = C
           \/ /\ k < Len(dels)
              /\ deliveries' = SubSeq(dels, k + 2, Len(dels))
              /\ calls' = C \cup {StartCall(dels[k + 1], "loop")}
  BY Zenon DEF LoopFrom
<1> SUFFICES ASSUME NEW j \in Busy(dels, C), j \notin hid PROVE j \in OnTheWay'
  OBVIOUS
<1>3. C \subseteq calls'
  BY <1>2
<1>4. CASE \E c \in C : j = c.job
  BY <1>3, <1>4 DEF OnTheWay, Busy
<1>5. CASE \E m \in 1 .. Len(dels) : j = dels[m].job
  <2>1. PICK m \in 1 .. Len(dels) : j = dels[m].job
    BY <1>5
  <2>2. m > k /\ m \in Nat /\ k \in Nat /\ Len(dels) \in Nat
    BY <1>1, <1>2, <2>1
  <2>3. CASE k < Len(dels) /\ deliveries' = SubSeq(dels, k + 1, Len(dels))
    <3>1. m - k \in 1 .. Len(deliveries') /\ deliveries'[m - k] = dels[m]
      BY <1>1, <2>2, <2>3
    <3>q. QED
      BY <2>1, <3>1 DEF OnTheWay, Busy
  <2>4. CASE /\ k < Len(dels) /\ deliveries' = SubSeq(dels, k + 2, Len(dels))
             /\ calls' = C \cup {StartCall(dels[k + 1], "loop")}
    <3>1. CASE m = k + 1
      <4>1. StartCall(dels[k + 1], "loop") \in calls' /\ StartCall(dels[k + 1], "loop").job = j
        BY <2>1, <2>4, <3>1 DEF StartCall
      <4>q. QED
        BY <4>1 DEF OnTheWay, Busy
    <3>2. CASE m # k + 1
      <4>1. m - k - 1 \in 1 .. Len(deliveries') /\ deliveries'[m - k - 1] = dels[m]
        BY <1>1, <2>2, <2>4, <3>2
      <4>q. QED
        BY <2>1, <4>1 DEF OnTheWay, Busy
    <3>q. QED
      BY <3>1, <3>2
  <2>q. QED
    BY <1>2, <2>2, <2>3, <2>4
<1>q. QED
  BY <1>4, <1>5 DEF Busy

LEMMA EnsureLoopSpares ==
  ASSUME NEW dels, NEW hid, NEW C, Wellformed(dels, C), EnsureLoop(dels, hid, C)
  PROVE  Busy(dels, C) \subseteq OnTheWay' \cup hid
<1>1. CASE loop = "off"
  BY <1>1, LoopFromSpares DEF EnsureLoop
<1>2. CASE loop # "off"
  BY <1>2 DEF EnsureLoop, OnTheWay
<1>q. QED
  BY <1>1, <1>2

(* The delivery of j is queued unless it is hidden.                          *)
LEMMA EnqueueSpares ==
  ASSUME OrderInv, NEW j \in Jobs, j \notin OnTheWay, NEW sup, EnqueueDelivery(j, sup)
  PROVE  /\ OnTheWay \cup {j} \subseteq OnTheWay' \cup HiddenBy(sup)
         /\ OnTheWay' \subseteq OnTheWay \cup {j}
         /\ j \in HiddenBy(sup) => OnTheWay' = OnTheWay
<1> DEFINE hid == HiddenBy(sup)
<1>1. Wellformed(deliveries, calls) /\ LoopOK
  BY QueueInvMeans DEF OrderInv
<1>2. CASE j \in hid
  BY <1>2 DEF EnqueueDelivery, deliveryVars, OnTheWay
<1>3. CASE j \notin hid
  <2> DEFINE d == [job |-> j, attempt |-> 0]
             q == Append(deliveries, d)
  <2>1. d \in Delivery /\ d.job = j
    BY LimitsAssumption DEF Delivery
  <2>2. EnsureLoop(q, hid, calls)
    BY <1>3 DEF EnqueueDelivery
  <2> HIDE DEF d, hid
  <2>3. Wellformed(q, calls) /\ Busy(q, calls) = OnTheWay \cup {j}
    BY <1>1, <2>1, OneMoreDelivery DEF OnTheWay
  <2> HIDE DEF q
  <2>4. Busy(q, calls) \subseteq OnTheWay' \cup hid
    BY <2>2, <2>3, EnsureLoopSpares
  <2>5. Handled(q, calls)
    BY <1>1, <2>2, <2>3, EnsureLoopHandles DEF LoopOK
  <2>q. QED
    BY <1>3, <2>3, <2>4, <2>5 DEF Handled, OnTheWay, hid
<1>q. QED
  BY <1>2, <1>3

LEMMA LoopSpares ==
  ASSUME OrderInv, LoopSteps
  PROVE  OnTheWay \subseteq OnTheWay' \cup Hidden /\ OnTheWay' \subseteq OnTheWay
<1>1. Wellformed(deliveries, calls)
  BY QueueInvMeans DEF OrderInv
<1>2. CASE LoopFrom(deliveries, Hidden, calls)
  <2>1. Handled(deliveries, calls)
    BY <1>1, <1>2, LoopFromHandles
  <2>q. QED
    BY <1>1, <1>2, <2>1, LoopFromSpares DEF Handled, OnTheWay
<1>3. CASE /\ deliveries # <<>> /\ Head(deliveries).job \in Hidden
           /\ LoopFrom(Tail(deliveries), Hidden, calls)
  <2>1. /\ Wellformed(Tail(deliveries), calls)
        /\ Busy(Tail(deliveries), calls) \subseteq OnTheWay
    BY <1>1, <1>3, HeadTaken DEF OnTheWay
  <2>2. Handled(Tail(deliveries), calls) /\ Busy(Tail(deliveries), calls) \subseteq OnTheWay' \cup Hidden
    BY <1>3, <2>1, LoopFromHandles, LoopFromSpares
  <2>3. OnTheWay \subseteq Busy(Tail(deliveries), calls) \cup Hidden
    <3>1. deliveries \in Seq(Delivery)
      BY <1>1 DEF Wellformed
    <3>2. ASSUME NEW k \in 1 .. Len(deliveries)
          PROVE  deliveries[k].job \in Busy(Tail(deliveries), calls) \cup Hidden
      <4>1. CASE k = 1
        BY <1>3, <3>1, <4>1
      <4>2. CASE k # 1
        <5>1. k - 1 \in 1 .. Len(Tail(deliveries)) /\ Tail(deliveries)[k - 1] = deliveries[k]
          BY <1>3, <3>1, <4>2
        <5>q. QED
          BY <5>1 DEF Busy
      <4>q. QED
        BY <4>1, <4>2
    <3>q. QED
      BY <3>2 DEF OnTheWay, Busy
  <2>q. QED
    BY <2>1, <2>2, <2>3 DEF Handled, OnTheWay
<1>4. CASE /\ deliveries # <<>> /\ deliveries' = Tail(deliveries)
           /\ calls' = calls \cup {StartCall(Head(deliveries), "loop")}
  <2>1. Busy(deliveries', calls') \subseteq Busy(deliveries, calls)
    BY <1>1, <1>4, HeadTaken
  <2>2. deliveries \in Seq(Delivery)
    BY <1>1 DEF Wellformed
  <2>3. ASSUME NEW k \in 1 .. Len(deliveries) PROVE deliveries[k].job \in OnTheWay'
    <3>1. CASE k = 1
      <4>1. /\ StartCall(Head(deliveries), "loop") \in calls'
            /\ StartCall(Head(deliveries), "loop").job = deliveries[k].job
        BY <1>4, <2>2, <3>1 DEF StartCall
      <4>q. QED
        BY <4>1 DEF OnTheWay, Busy
    <3>2. CASE k # 1
      <4>1. k - 1 \in 1 .. Len(deliveries') /\ deliveries'[k - 1] = deliveries[k]
        BY <1>4, <2>2, <3>2
      <4>q. QED
        BY <4>1 DEF OnTheWay, Busy
    <3>q. QED
      BY <3>1, <3>2
  <2>4. \A c \in calls : c.job \in OnTheWay'
    BY <1>4 DEF OnTheWay, Busy
  <2>q. QED
    BY <2>1, <2>3, <2>4 DEF OnTheWay, Busy
<1>5. CASE UNCHANGED <<deliveries, calls>>
  BY <1>5 DEF OnTheWay
<1>q. QED
  BY <1>2, <1>3, <1>4, <1>5 DEF LoopSteps, LoopWakes, LoopFinally

(* The end of a callback takes its own job off the way.                      *)
LEMMA CallSpares ==
  ASSUME OrderInv, NEW c \in calls, CallSucceeds(c)
  PROVE  /\ c.job \in OnTheWay
         /\ OnTheWay \subseteq OnTheWay' \cup Hidden \cup {c.job}
         /\ OnTheWay' \subseteq OnTheWay \ {c.job}
<1> DEFINE C == calls \ {c}
<1>1. Wellformed(deliveries, calls) /\ LoopOK
  BY QueueInvMeans DEF OrderInv
<1>2. /\ Wellformed(deliveries, C) /\ Busy(deliveries, C) \subseteq OnTheWay
      /\ c.job \notin Busy(deliveries, C)
  BY <1>1, FewerCalls DEF OnTheWay
<1>3. c.job \in OnTheWay /\ OnTheWay \subseteq Busy(deliveries, C) \cup {c.job}
  BY DEF OnTheWay, Busy
<1>4. \/ LoopFrom(deliveries, Hidden, C)
      \/ EnsureLoop(deliveries, Hidden, C)
      \/ deliveries' = deliveries /\ calls' = C
  BY DEF CallSucceeds, CallEnds
<1> HIDE DEF C
<1>5. /\ Busy(deliveries, C) \subseteq OnTheWay' \cup Hidden
      /\ OnTheWay' \subseteq Busy(deliveries, C)
  <2>1. CASE LoopFrom(deliveries, Hidden, C)
    BY <1>2, <2>1, LoopFromSpares, LoopFromHandles DEF Handled, OnTheWay
  <2>2. CASE EnsureLoop(deliveries, Hidden, C)
    BY <1>1, <1>2, <2>2, EnsureLoopSpares, EnsureLoopHandles DEF Handled, OnTheWay, LoopOK
  <2>3. CASE deliveries' = deliveries /\ calls' = C
    BY <2>3 DEF OnTheWay
  <2>q. QED
    BY <1>4, <2>1, <2>2, <2>3
<1>q. QED
  BY <1>2, <1>3, <1>5

(* An acknowledgement takes out what is suppressed, watched or acknowledged. *)
LEMMA AcknowledgementSpares ==
  ASSUME OrderInv, NEW I, NEW W, deliveries' = Unacknowledged(I, W), UNCHANGED calls
  PROVE  /\ OnTheWay' \subseteq OnTheWay
         /\ \A j \in OnTheWay : j \in OnTheWay' \/ idOf[j] \in suppressed \cup W \cup I
<1> DEFINE T == {d \in Delivery : idOf[d.job] \notin suppressed \cup W \cup I}
<1>1. deliveries \in Seq(Delivery)
  BY QueueInvMeans DEF OrderInv, Wellformed
<1>2. OnTheWay' \subseteq OnTheWay
  BY UnacknowledgedOK DEF OrderInv, OnTheWay
<1>3. deliveries' = Only(deliveries, T)
  BY DEF Unacknowledged
<1>4. ASSUME NEW k \in 1 .. Len(deliveries), idOf[deliveries[k].job] \notin suppressed \cup W \cup I
      PROVE  deliveries[k].job \in OnTheWay'
  <2>1. deliveries[k] \in T
    BY <1>1, <1>4
  <2> HIDE DEF T
  <2>2. \E m \in 1 .. Len(deliveries') : deliveries'[m] = deliveries[k]
    BY <1>1, <1>3, <2>1, OnlyElements
  <2>q. QED
    BY <2>2 DEF OnTheWay, Busy
<1>5. \A c \in calls : c.job \in OnTheWay'
  BY DEF OnTheWay, Busy
<1>q. QED
  BY <1>2, <1>4, <1>5 DEF OnTheWay, Busy

----------------------------------------------------------------------------
(* Who holds a result.                                                       *)

Tracked == UNION {polls[p].tracked : p \in Polls}

\* the record of a job whose id is in use is there
InUseListed == \A j \in InUse : status[j] # "new" /\ table[idOf[j]] = j

\* what is staged has ended, what is known has begun
StagedEnded == \A j \in Queued : status[j] \in Finished
ToldBegun == \A j \in Jobs : told[j] => status[j] # "new"

\* a job is staged once its callback is over
StagedOnce == \A j \in Queued : j \notin OnTheWay

\* a job whose result is known runs on, or is on its way or staged, only as long
\* as it is suppressed
ToldMuted ==
  ResumeIsPrompt =>
    \A j \in Jobs : told[j] /\ (status[j] = "running" \/ j \in OnTheWay \cup Queued) =>
                    idOf[j] \in suppressed

\* the foreground wait suppresses its job, so that its result goes nowhere else
ForegroundMuted ==
  \A j \in foreground : idOf[j] \in suppressed /\ j \notin OnTheWay /\ j \notin Queued

\* the record of a suppressed id is void, known, or waited for
MutedAccounted ==
  \A i \in suppressed : table[i] # None =>
    status[table[i]] = "cancelled" \/ told[table[i]] \/ table[i] \in foreground

WatchingTracked == \A p \in Polls : polls[p].watching \subseteq polls[p].tracked

HoldInv ==
  /\ InUseListed /\ StagedEnded /\ ToldBegun /\ StagedOnce /\ ToldMuted
  /\ ForegroundMuted /\ MutedAccounted /\ WatchingTracked
  /\ NothingLost

\* all that is known of the composition when nothing outlives its record
FullInv == OrderInv /\ IInv /\ WatchInv /\ HoldInv

(* The code's five-minute retention outlasts aborted runs, and whatever      *)
(* still holds an id.                                                        *)
InTime == AbortIsPrompt /\ TurnsAreShort

\* the words in which the steps are described
LEMMA InUseIs ==
  /\ InUse = OnTheWay \cup Queued \cup foreground \cup Tracked
  /\ NothingLost <=> \A j \in Jobs : status[j] \in Finished /\ ~told[j] =>
                        j \in OnTheWay \cup Queued \cup foreground \cup Tracked
BY DEF InUse, OnTheWay, Busy, PendingJobs, Tracked, NothingLost

LEMMA InUseIsPrimed ==
  /\ InUse' = OnTheWay' \cup Queued' \cup foreground' \cup Tracked'
  /\ NothingLost' <=> \A j \in Jobs : status'[j] \in Finished /\ ~told'[j] =>
                         j \in OnTheWay' \cup Queued' \cup foreground' \cup Tracked'
BY DEF InUse, OnTheWay, Busy, PendingJobs, Tracked, NothingLost

\* the sets are sets of jobs
LEMMA HoldersAreJobs ==
  ASSUME OrderInv
  PROVE  /\ OnTheWay \subseteq Jobs /\ Queued \subseteq Jobs /\ foreground \subseteq Jobs
         /\ Tracked \subseteq Jobs
         /\ \A j \in OnTheWay : status[j] \in Finished
<1>1. OnTheWay \subseteq Jobs /\ \A j \in OnTheWay : status[j] \in Finished
  BY QueueInvMeans, BusyAreJobs DEF OrderInv, OnTheWay
<1>2. Queued \subseteq Jobs
  <2>1. entries \in Seq(Jobs)
    BY DEF OrderInv, SessionOK
  <2>q. QED
    BY <2>1 DEF Queued
<1>3. foreground \subseteq Jobs /\ Tracked \subseteq Jobs
  BY DEF OrderInv, SessionOK, Tracked
<1>q. QED
  BY <1>1, <1>2, <1>3

LEMMA RecordTypes ==
  ASSUME OrderInv
  PROVE  /\ status \in [Jobs -> Statuses] /\ idOf \in [Jobs -> Ids \cup {0}]
         /\ table \in [Ids -> Jobs \cup {None}] /\ told \in [Jobs -> BOOLEAN]
         /\ suppressed \subseteq Ids /\ watched \subseteq Ids
         /\ \A j \in Jobs : status[j] # "new" => idOf[j] \in Ids
         /\ \A i \in Ids : table[i] # None => table[i] \in Jobs /\ idOf[table[i]] = i
BY QueueInvMeans, IdOfRegistered
DEF OrderInv, RecordInv, RecordsOK, IdsAgree, SessionOK, MutesOK

(* A result whose delivery is hidden is known, or somebody waits for it.     *)
LEMMA HiddenIsHeld ==
  ASSUME FullInv, NEW j \in Jobs, status[j] # "new", table[idOf[j]] = j, j \in Hidden
  PROVE  status[j] = "cancelled" \/ told[j] \/ j \in foreground \/ j \in Tracked
<1>1. idOf[j] \in suppressed \/ idOf[j] \in watched
  BY DEF Hidden, HiddenBy
<1>2. CASE idOf[j] \in suppressed
  BY <1>2, JobsAssumption DEF FullInv, HoldInv, MutedAccounted
<1>3. CASE idOf[j] \in watched
  <2>1. PICK p \in Polls : \E k \in polls[p].watching : idOf[k] = idOf[j]
    BY <1>3 DEF FullInv, WatchInv, NoOrphanWatch, IdsOf
  <2>2. PICK k \in polls[p].watching : idOf[k] = idOf[j]
    BY <2>1
  <2>3. k \in Tracked
    BY <2>2 DEF FullInv, HoldInv, WatchingTracked, Tracked
  <2>4. k \in InUse
    BY <2>3, InUseIs
  <2>5. table[idOf[k]] = k
    BY <2>4 DEF FullInv, HoldInv, InUseListed
  <2>q. QED
    BY <2>2, <2>3, <2>5
<1>q. QED
  BY <1>1, <1>2, <1>3

(* A finished result the model does not have, and whose delivery is hidden,  *)
(* is waited for by a tool.                                                  *)
LEMMA HiddenResult ==
  ASSUME FullInv, NEW j \in Jobs, status[j] \in Finished, ~told[j], j \in Hidden
  PROVE  j \in foreground \cup Tracked
<1>1. j \in InUse
  BY InUseIs DEF FullInv, HoldInv
<1>2. status[j] # "new" /\ table[idOf[j]] = j /\ status[j] # "cancelled"
  BY <1>1 DEF FullInv, HoldInv, InUseListed, Finished
<1>q. QED
  BY <1>2, HiddenIsHeld

\* the parts of the invariant that only the tools' own steps touch
LEMMA ToolsHold ==
  ASSUME FullInv, UNCHANGED <<status, idOf, table, suppressed, told, foreground, polls>>
  PROVE  ToldBegun' /\ MutedAccounted' /\ WatchingTracked' /\ Tracked' = Tracked
BY DEF FullInv, HoldInv, ToldBegun, MutedAccounted, WatchingTracked, Tracked

(* Results move on, and some that are hidden are dropped.                    *)
LEMMA MoveHold ==
  ASSUME FullInv, UNCHANGED <<status, idOf, table, suppressed, told, foreground, polls>>,
         OnTheWay' \cup Queued' \subseteq OnTheWay \cup Queued,
         OnTheWay \cup Queued \subseteq OnTheWay' \cup Queued' \cup Hidden,
         \A j \in Queued' : j \notin OnTheWay'
  PROVE  HoldInv'
<1>1. /\ OnTheWay \subseteq Jobs /\ Queued \subseteq Jobs
      /\ \A j \in OnTheWay : status[j] \in Finished
  BY HoldersAreJobs DEF FullInv
<1>2. ToldBegun' /\ MutedAccounted' /\ WatchingTracked' /\ Tracked' = Tracked
  BY ToolsHold
<1>3. InUse' \subseteq InUse /\ InUseListed'
  BY <1>2, InUseIs, InUseIsPrimed DEF FullInv, HoldInv, InUseListed
<1>4. StagedEnded' /\ StagedOnce' /\ ToldMuted' /\ ForegroundMuted'
  BY <1>1 DEF FullInv, HoldInv, StagedEnded, StagedOnce, ToldMuted, ForegroundMuted
<1>5. NothingLost'
  <2>1. SUFFICES ASSUME NEW j \in Jobs, status[j] \in Finished, ~told[j]
                 PROVE  j \in OnTheWay' \cup Queued' \cup foreground \cup Tracked
    BY <1>2, InUseIsPrimed
  <2>2. j \in OnTheWay \cup Queued \cup foreground \cup Tracked
    BY <2>1, InUseIs DEF FullInv, HoldInv
  <2>q. QED
    BY <2>1, <2>2, HiddenResult
<1>q. QED
  BY <1>2, <1>3, <1>4, <1>5 DEF HoldInv

(* What is staged and not hidden is told.                                    *)
LEMMA DrainHold ==
  ASSUME FullInv, UNCHANGED <<mgrVars, toolVars>>, entries' = <<>>, Tell(Survivors)
  PROVE  HoldInv'
<1>1. /\ OnTheWay \subseteq Jobs /\ Queued \subseteq Jobs
      /\ UNCHANGED <<status, idOf, table, suppressed, foreground, polls, deliveries, calls>>
  BY HoldersAreJobs DEF FullInv, mgrVars, toolVars
<1>2. OnTheWay' = OnTheWay /\ Tracked' = Tracked /\ Queued' = {}
  BY <1>1 DEF OnTheWay, Tracked, Queued
<1>3. \A j \in Jobs : told'[j] <=> told[j] \/ j \in Queued \ Hidden
  BY DEF Tell, Survivors
<1>4. InUseListed' /\ StagedEnded' /\ StagedOnce' /\ ForegroundMuted' /\ WatchingTracked'
  BY <1>1, <1>2, InUseIs, InUseIsPrimed
  DEF FullInv, HoldInv, InUseListed, StagedEnded, StagedOnce, ForegroundMuted, WatchingTracked
<1>5. ToldBegun' /\ ToldMuted'
  BY <1>1, <1>2, <1>3
  DEF FullInv, HoldInv, ToldBegun, ToldMuted, StagedEnded, StagedOnce, Finished
<1>6. MutedAccounted'
  <2>1. \A i \in suppressed : table[i] # None => table[i] \in Jobs
    BY RecordTypes DEF FullInv
  <2>q. QED
    BY <1>1, <1>3, <2>1 DEF FullInv, HoldInv, MutedAccounted
<1>7. NothingLost'
  <2>1. SUFFICES ASSUME NEW j \in Jobs, status[j] \in Finished, ~told[j],
                        j \in Queued => j \in Hidden
                 PROVE  j \in OnTheWay \cup foreground \cup Tracked
    BY <1>1, <1>2, <1>3, InUseIsPrimed
  <2>2. j \in OnTheWay \cup Queued \cup foreground \cup Tracked
    BY <2>1, InUseIs DEF FullInv, HoldInv
  <2>q. QED
    BY <2>1, <2>2, HiddenResult
<1>q. QED
  BY <1>4, <1>5, <1>6, <1>7 DEF HoldInv

(* The run of a live job ends: its result is queued, or it is hidden because *)
(* somebody waits for it.                                                    *)
LEMMA RunSettlesHold ==
  ASSUME FullInv, NEW j \in Jobs, NEW o \in Finished, RunSettles(j, o), UNCHANGED sessionVars
  PROVE  HoldInv'
<1>1. /\ status[j] = "running" /\ status' = [status EXCEPT ![j] = o]
      /\ EnqueueDelivery(j, suppressed)
      /\ UNCHANGED <<idOf, table, suppressed, watched>>
      /\ UNCHANGED <<entries, told, foreground, polls>>
  BY EvictionLater DEF RunSettles, sessionVars
<1>2. /\ OnTheWay \subseteq Jobs /\ Queued \subseteq Jobs /\ foreground \subseteq Jobs
      /\ Tracked \subseteq Jobs
      /\ \A k \in OnTheWay : status[k] \in Finished
  BY HoldersAreJobs DEF FullInv
<1>3. status \in [Jobs -> Statuses] /\ o # "new" /\ "running" \notin Finished /\ o # "running"
  BY RecordTypes DEF FullInv, Finished
<1>4. j \notin OnTheWay /\ j \notin Queued /\ table[idOf[j]] = j
  BY <1>1, <1>2, <1>3 DEF FullInv, HoldInv, StagedEnded, IInv, RunningListed
<1>5. /\ OnTheWay \cup {j} \subseteq OnTheWay' \cup Hidden
      /\ OnTheWay' \subseteq OnTheWay \cup {j}
      /\ idOf[j] \in suppressed => OnTheWay' = OnTheWay
  BY <1>1, <1>4, EnqueueSpares DEF FullInv, Hidden, HiddenBy
<1>6. Queued' = Queued /\ Tracked' = Tracked
  BY <1>1 DEF Queued, Tracked
<1>7. /\ status'[j] = o
      /\ \A k \in Jobs : k # j => status'[k] = status[k]
  BY <1>1, <1>3
<1>8. InUseListed'
  BY <1>1, <1>2, <1>3, <1>4, <1>5, <1>6, <1>7, InUseIs, InUseIsPrimed DEF FullInv, HoldInv, InUseListed
<1>9. StagedEnded' /\ ToldBegun' /\ StagedOnce' /\ ToldMuted'
  BY <1>1, <1>2, <1>3, <1>4, <1>5, <1>6, <1>7
  DEF FullInv, HoldInv, StagedEnded, ToldBegun, StagedOnce, ToldMuted
<1>10. ForegroundMuted' /\ WatchingTracked'
  BY <1>1, <1>5, <1>6 DEF FullInv, HoldInv, ForegroundMuted, WatchingTracked
<1>11. MutedAccounted'
  <2>1. \A i \in suppressed : table[i] # None => table[i] \in Jobs
    BY RecordTypes DEF FullInv
  <2>q. QED
    BY <1>1, <1>4, <1>7, <2>1 DEF FullInv, HoldInv, MutedAccounted
<1>12. NothingLost'
  <2>1. SUFFICES ASSUME NEW k \in Jobs, k = j \/ status[k] \in Finished, ~told[k]
                 PROVE  k \in OnTheWay' \cup Queued \cup foreground \cup Tracked
    BY <1>1, <1>6, <1>7, InUseIsPrimed
  <2>2. k \in OnTheWay \cup {j} \cup Queued \cup foreground \cup Tracked
    BY <2>1, InUseIs DEF FullInv, HoldInv
  <2>3. CASE k \in Hidden
    <3>1. status[k] # "new" /\ table[idOf[k]] = k /\ status[k] # "cancelled"
      BY <1>1, <1>4, <2>1, <2>2, InUseIs DEF FullInv, HoldInv, InUseListed, Finished
    <3>q. QED
      BY <2>1, <2>3, <3>1, HiddenIsHeld
  <2>q. QED
    BY <1>5, <2>2, <2>3
<1>q. QED
  BY <1>8, <1>9, <1>10, <1>11, <1>12 DEF HoldInv

----------------------------------------------------------------------------
(* One lemma per group of steps. *)

LEMMA ManagerHold ==
  ASSUME FullInv, ManagerSteps
  PROVE  HoldInv'
<1>1. UNCHANGED sessionVars /\ UNCHANGED <<entries, told, foreground, polls>> /\ Queued' = Queued
  BY DEF ManagerSteps, sessionVars, Queued
<1>2. CASE LoopSteps
  <2>1. UNCHANGED <<status, idOf, table, suppressed>>
    BY <1>2 DEF LoopSteps, LoopWakes, LoopFinally, recordVars, muteVars
  <2>2. OnTheWay \subseteq OnTheWay' \cup Hidden /\ OnTheWay' \subseteq OnTheWay
    BY <1>2, LoopSpares DEF FullInv
  <2>q. QED
    BY <1>1, <2>1, <2>2, MoveHold DEF FullInv, HoldInv, StagedOnce
<1>3. ASSUME NEW j \in Jobs, MarkRunning(j) \/ CancelledRunSettles(j) PROVE HoldInv'
  <2>1. UNCHANGED <<status, idOf, table, suppressed, deliveries, calls>>
    BY <1>3, EvictionLater DEF MarkRunning, CancelledRunSettles, muteVars, deliveryVars
  <2>2. OnTheWay' = OnTheWay
    BY <2>1 DEF OnTheWay
  <2>q. QED
    BY <1>1, <2>1, <2>2, MoveHold DEF FullInv, HoldInv, StagedOnce
<1>q. QED
  BY <1>1, <1>2, <1>3, RunSettlesHold DEF ManagerSteps, RunSteps

(* The callback stages its job, unless the id is hidden by now.              *)
LEMMA CallDoneHold ==
  ASSUME FullInv, NEW c \in calls, CallDone(c)
  PROVE  HoldInv'
<1>1. /\ CallSucceeds(c)
      /\ UNCHANGED <<status, idOf, table, suppressed, told, foreground, polls>>
  BY DEF CallDone, CallSucceeds, CallEnds, recordVars, muteVars, talkVars, toolVars
<1>2. /\ c.job \in OnTheWay
      /\ OnTheWay \subseteq OnTheWay' \cup Hidden \cup {c.job}
      /\ OnTheWay' \subseteq OnTheWay \ {c.job}
  BY <1>1, CallSpares DEF FullInv
<1>3. IF c.job \in Hidden THEN Queued' = Queued ELSE Queued' = Queued \cup {c.job}
  <2>1. CASE c.job \in Hidden
    BY <2>1 DEF CallDone, queueVars, Queued
  <2>2. CASE c.job \notin Hidden
    <3>1. entries' = Append(entries, c.job) /\ entries \in Seq(Jobs)
      BY <2>2 DEF CallDone, FullInv, OrderInv, SessionOK
    <3>2. c.job \in Jobs
      BY <1>2, HoldersAreJobs DEF FullInv
    <3>3. /\ Len(entries') = Len(entries) + 1 /\ Len(entries) \in Nat
          /\ entries'[Len(entries) + 1] = c.job
          /\ \A k \in 1 .. Len(entries) : entries'[k] = entries[k]
      BY <3>1, <3>2
    <3>4. \A k \in 1 .. Len(entries) + 1 : k \in 1 .. Len(entries) \/ k = Len(entries) + 1
      BY <3>3
    <3>5. /\ Len(entries) + 1 \in 1 .. Len(entries')
          /\ \A k \in 1 .. Len(entries) : k \in 1 .. Len(entries')
      BY <3>3
    <3>6. Queued' \subseteq Queued \cup {c.job}
      BY <3>3, <3>4 DEF Queued
    <3>7. Queued \cup {c.job} \subseteq Queued'
      <4>1. ASSUME NEW k \in 1 .. Len(entries) PROVE entries[k] \in Queued'
        BY <3>3, <3>5, <4>1 DEF Queued
      <4>2. c.job \in Queued'
        BY <3>3, <3>5 DEF Queued
      <4>q. QED
        BY <4>1, <4>2 DEF Queued
    <3>q. QED
      BY <2>2, <3>6, <3>7
  <2>q. QED
    BY <2>1, <2>2
<1>4. \A j \in Queued : j \notin OnTheWay
  BY DEF FullInv, HoldInv, StagedOnce
<1>q. QED
  BY <1>1, <1>2, <1>3, <1>4, MoveHold

LEMMA TurnHold ==
  ASSUME FullInv, IdleFlush \/ TurnSteps
  PROVE  HoldInv'
<1>1. UNCHANGED <<mgrVars, toolVars>>
  BY DEF IdleFlush, TurnSteps, Prompt, ModelCallsTools, ToolsEnd, ModelStops, ModelFails,
         Settles, Abort
<1>2. /\ UNCHANGED <<status, idOf, table, suppressed, foreground, polls>>
      /\ OnTheWay' = OnTheWay
  BY <1>1 DEF mgrVars, toolVars, OnTheWay
<1>3. CASE entries' = <<>> /\ Tell(Survivors)
  BY <1>1, <1>3, DrainHold
<1>4. CASE entries' = entries /\ told' = told
  BY <1>2, <1>4, MoveHold DEF FullInv, HoldInv, StagedOnce, Queued
<1>5. CASE entries' = <<>> /\ Survivors = {} /\ told' = told
  <2>1. Queued' = {} /\ Queued \subseteq Hidden
    BY <1>5 DEF Queued, Survivors
  <2>q. QED
    BY <1>2, <1>5, <2>1, MoveHold
<1>6. CASE IdleFlush
  BY <1>3, <1>4, <1>5, <1>6 DEF IdleFlush, FlushQueue, Inject, talkVars
<1>7. CASE ToolsEnd \/ ModelStops
  BY <1>3, <1>7 DEF ToolsEnd, ModelStops, DrainAsides, Inject
<1>8. CASE Prompt \/ ModelCallsTools \/ ModelFails \/ Settles \/ Abort
  BY <1>4, <1>8 DEF Prompt, ModelCallsTools, ModelFails, Settles, Abort, queueVars, talkVars
<1>q. QED
  BY <1>6, <1>7, <1>8 DEF TurnSteps

(* A timer takes no id away that is still in use.                            *)
LEMMA EvictsHold ==
  ASSUME FullInv, InTime, NEW i \in Ids, Evicts(i)
  PROVE  HoldInv'
<1>1. /\ table' = [table EXCEPT ![i] = None] /\ suppressed' = suppressed \ {i}
      /\ UNCHANGED <<status, idOf, deliveries, calls, entries, told, foreground, polls>>
      /\ \A j \in InUse : idOf[j] # i
  BY DEF Evicts, EvictionTimer, deliveryVars, sessionVars, InTime
<1>2. OnTheWay' = OnTheWay /\ Queued' = Queued /\ Tracked' = Tracked
  BY <1>1 DEF OnTheWay, Queued, Tracked
<1>3. InUse' = InUse
  BY <1>1, <1>2, InUseIs, InUseIsPrimed
<1>4. \A k \in Ids : table'[k] = IF k = i THEN None ELSE table[k]
  BY <1>1, RecordTypes DEF FullInv
<1>5. InUse \subseteq Jobs
  BY HoldersAreJobs, InUseIs DEF FullInv
<1>6. InUseListed'
  <2>1. \A j \in InUse : status[j] # "new" /\ idOf[j] \in Ids /\ table[idOf[j]] = j
    BY <1>5, RecordTypes DEF FullInv, HoldInv, InUseListed
  <2>q. QED
    BY <1>1, <1>3, <1>4, <2>1 DEF InUseListed
<1>7. ToldMuted' /\ ForegroundMuted'
  <2>1. IInv' /\ IdsAgree
    BY NextIInv, SessionAssumption DEF FullInv, InTime, Timely, Evicts, Next, IInv
  <2>2. \A k \in Jobs : status[k] = "running" => idOf[k] # i
    BY <1>1, <1>4, <2>1, JobsAssumption DEF IInv, RunningListed
  <2>q. QED
    BY <1>1, <1>2, <2>2, InUseIs DEF FullInv, HoldInv, ToldMuted, ForegroundMuted
<1>8. MutedAccounted'
  <2>1. suppressed \subseteq Ids
    BY RecordTypes DEF FullInv
  <2>q. QED
    BY <1>1, <1>4, <2>1 DEF FullInv, HoldInv, MutedAccounted
<1>9. StagedEnded' /\ ToldBegun' /\ StagedOnce' /\ WatchingTracked'
  BY <1>1, <1>2 DEF FullInv, HoldInv, StagedEnded, ToldBegun, StagedOnce, WatchingTracked
<1>10. NothingLost'
  BY <1>1, <1>2, InUseIs, InUseIsPrimed DEF FullInv, HoldInv
<1>q. QED
  BY <1>6, <1>7, <1>8, <1>9, <1>10 DEF HoldInv

----------------------------------------------------------------------------
(* The tools. *)

(* Jobs in use share no id, with each other or with a listed job.            *)
LEMMA OneHolder ==
  ASSUME FullInv, NEW j \in InUse, NEW k \in Jobs, table[idOf[k]] = k, idOf[j] = idOf[k]
  PROVE  j = k
BY DEF FullInv, HoldInv, InUseListed

LEMMA UnsettledNotEnded ==
  ASSUME FullInv, NEW j \in Jobs, ~settled[j]
  PROVE  status[j] \notin Finished /\ j \notin OnTheWay /\ j \notin Queued
<1>1. status[j] \notin Finished
  BY DEF FullInv, IInv, RunningUnsettled
<1>q. QED
  BY <1>1, HoldersAreJobs DEF FullInv, HoldInv, StagedEnded

(* A new job takes an id that nobody uses; the bash tool mutes it and waits. *)
LEMMA RegisterHold ==
  ASSUME FullInv, NEW j \in Jobs, NEW ack \in BOOLEAN, Register(j, ack),
         foreground' = IF ack THEN foreground \cup {j} ELSE foreground,
         UNCHANGED <<entries, told, polls>>
  PROVE  HoldInv'
<1>1. PICK i \in Ids :
        /\ table[i] = None
        /\ idOf' = [idOf EXCEPT ![j] = i]
        /\ table' = [table EXCEPT ![i] = j]
        /\ IF ack THEN /\ suppressed' = suppressed \cup {i}
                       /\ deliveries' = Unacknowledged({i}, watched)
           ELSE suppressed' = suppressed \ {i} /\ UNCHANGED deliveries
  BY DEF Register
<1>2. /\ status[j] = "new" /\ status' = [status EXCEPT ![j] = "running"]
      /\ UNCHANGED <<watched, calls>>
  BY DEF Register
<1>3. /\ OnTheWay \subseteq Jobs /\ Queued \subseteq Jobs /\ foreground \subseteq Jobs
      /\ Tracked \subseteq Jobs
      /\ \A k \in OnTheWay : status[k] \in Finished
  BY HoldersAreJobs DEF FullInv
<1>4. /\ status \in [Jobs -> Statuses] /\ idOf \in [Jobs -> Ids \cup {0}]
      /\ table \in [Ids -> Jobs \cup {None}] /\ suppressed \subseteq Ids
      /\ \A k \in Jobs : status[k] # "new" => idOf[k] \in Ids
      /\ \A n \in Ids : table[n] # None => table[n] \in Jobs /\ idOf[table[n]] = n
  BY RecordTypes DEF FullInv
<1>5. idOf[j] = 0 /\ 0 \notin Ids /\ None \notin Jobs /\ "new" \notin Finished
  BY <1>2, JobsAssumption DEF FullInv, IInv, IdsAgree, Ids, Finished
<1>6. /\ \A k \in Jobs : k # j => status'[k] = status[k] /\ idOf'[k] = idOf[k]
      /\ status'[j] = "running" /\ idOf'[j] = i /\ table'[i] = j
      /\ \A n \in Ids : n # i => table'[n] = table[n]
  BY <1>1, <1>2, <1>4
<1>7. ASSUME NEW k \in InUse
      PROVE  /\ k \in Jobs /\ k # j /\ idOf[k] \in Ids /\ idOf[k] # i
             /\ status[k] # "new" /\ table[idOf[k]] = k
  BY <1>1, <1>2, <1>3, <1>4, <1>5, InUseIs DEF FullInv, HoldInv, InUseListed
<1>8. /\ OnTheWay' \subseteq OnTheWay /\ OnTheWay \subseteq OnTheWay' \cup Hidden
  <2>1. CASE ack
    <3>1. deliveries' = Unacknowledged({i}, watched) /\ UNCHANGED calls
      BY <1>1, <1>2, <2>1
    <3>2. /\ OnTheWay' \subseteq OnTheWay
          /\ \A k \in OnTheWay : k \in OnTheWay' \/ idOf[k] \in suppressed \cup watched \cup {i}
      BY <3>1, AcknowledgementSpares DEF FullInv
    <3>3. ASSUME NEW k \in OnTheWay PROVE k \in OnTheWay' \cup Hidden
      <4>1. k \in InUse
        BY InUseIs
      <4>q. QED
        BY <3>2, <4>1, <1>3, <1>7 DEF Hidden, HiddenBy
    <3>q. QED
      BY <3>2, <3>3
  <2>2. CASE ~ack
    BY <1>1, <1>2, <2>2 DEF OnTheWay
  <2>q. QED
    BY <2>1, <2>2
<1>9. Queued' = Queued /\ Tracked' = Tracked
  BY DEF Queued, Tracked
<1>10. InUseListed'
  <2>1. InUse' \subseteq InUse \cup {j}
    BY <1>8, <1>9, InUseIs, InUseIsPrimed
  <2>q. QED
    BY <1>6, <1>7, <2>1 DEF InUseListed
<1>11. StagedEnded' /\ ToldBegun' /\ StagedOnce'
  BY <1>2, <1>3, <1>5, <1>6, <1>8, <1>9
  DEF FullInv, HoldInv, StagedEnded, ToldBegun, StagedOnce
<1>12. \A k \in InUse : idOf[k] \in suppressed => idOf'[k] \in suppressed'
  BY <1>1, <1>6, <1>7
<1>13. ToldMuted'
  <2>1. SUFFICES ASSUME ResumeIsPrompt, NEW k \in Jobs, told[k],
                        status'[k] = "running" \/ k \in OnTheWay \cup Queued
                 PROVE  idOf'[k] \in suppressed'
    BY <1>8, <1>9 DEF ToldMuted
  <2>2. k # j
    BY <1>2, <2>1 DEF FullInv, HoldInv, ToldBegun
  <2>3. idOf[k] \in suppressed
    BY <1>6, <2>1, <2>2 DEF FullInv, HoldInv, ToldMuted
  <2>4. CASE k \in OnTheWay \cup Queued
    BY <1>12, <2>3, <2>4, InUseIs
  <2>5. CASE status[k] = "running"
    <3>1. idOf[k] # i
      BY <1>1, <1>5, <2>5 DEF FullInv, IInv, RunningListed
    <3>q. QED
      BY <1>1, <1>6, <2>2, <2>3, <3>1
  <2>q. QED
    BY <1>6, <2>1, <2>2, <2>4, <2>5
<1>14. ForegroundMuted'
  <2>1. ASSUME NEW k \in foreground
        PROVE  idOf'[k] \in suppressed' /\ k \notin OnTheWay' /\ k \notin Queued'
    <3>1. k \in InUse /\ idOf[k] \in suppressed /\ k \notin OnTheWay /\ k \notin Queued
      BY InUseIs DEF FullInv, HoldInv, ForegroundMuted
    <3>q. QED
      BY <1>8, <1>9, <1>12, <3>1
  <2>2. ack => idOf'[j] \in suppressed'
    BY <1>1, <1>6
  <2>3. j \notin OnTheWay' /\ j \notin Queued'
    BY <1>2, <1>3, <1>5, <1>8, <1>9 DEF FullInv, HoldInv, StagedEnded
  <2>q. QED
    BY <2>1, <2>2, <2>3 DEF ForegroundMuted
<1>15. MutedAccounted'
  <2>1. SUFFICES ASSUME NEW n \in suppressed', table'[n] # None
                 PROVE  \/ status'[table'[n]] = "cancelled" \/ told[table'[n]]
                        \/ table'[n] \in foreground'
    BY DEF MutedAccounted
  <2>2. CASE n = i
    BY <1>1, <1>6, <2>1, <2>2
  <2>3. CASE n # i
    <3>1. n \in suppressed /\ n \in Ids /\ table'[n] = table[n]
      BY <1>1, <1>4, <1>6, <2>1, <2>3
    <3>2. table[n] \in Jobs /\ table[n] # j
      BY <1>4, <1>5, <2>1, <3>1
    <3>q. QED
      BY <1>6, <2>1, <3>1, <3>2 DEF FullInv, HoldInv, MutedAccounted
  <2>q. QED
    BY <2>2, <2>3
<1>16. WatchingTracked'
  BY DEF FullInv, HoldInv, WatchingTracked
<1>17. NothingLost'
  <2>1. SUFFICES ASSUME NEW k \in Jobs, status'[k] \in Finished, ~told[k]
                 PROVE  k \in OnTheWay' \cup Queued \cup foreground \cup Tracked
    BY <1>9, InUseIsPrimed
  <2>2. status[k] \in Finished
    BY <1>6, <2>1 DEF Finished
  <2>3. k \in OnTheWay \cup Queued \cup foreground \cup Tracked
    BY <2>1, <2>2, InUseIs DEF FullInv, HoldInv
  <2>q. QED
    BY <1>8, <2>1, <2>2, <2>3, HiddenResult
<1>q. QED
  BY <1>10, <1>11, <1>13, <1>14, <1>15, <1>16, <1>17 DEF HoldInv

(* A bash call stops waiting for j, and its answer shows the result, unless  *)
(* the job was cancelled.                                                    *)
LEMMA AnswerHold ==
  ASSUME FullInv, NEW j \in foreground, NEW T \in SUBSET {j}, j \in T \/ status[j] = "cancelled",
         foreground' = foreground \ {j}, Tell(T), UNCHANGED <<mgrVars, entries, polls>>
  PROVE  HoldInv'
<1>1. UNCHANGED <<status, idOf, table, suppressed, deliveries, calls, entries, polls>>
  BY DEF mgrVars
<1>2. \A k \in Jobs : told'[k] <=> told[k] \/ k \in T
  BY DEF Tell
<1>3. OnTheWay' = OnTheWay /\ Queued' = Queued /\ Tracked' = Tracked
  BY <1>1 DEF OnTheWay, Queued, Tracked
<1>4. j \in Jobs /\ status[j] # "new" /\ idOf[j] \in suppressed
  BY HoldersAreJobs DEF FullInv, OrderInv, ToolsKnowJobs, HoldInv, ForegroundMuted
<1>5. InUseListed'
  BY <1>1, <1>3, InUseIs, InUseIsPrimed DEF FullInv, HoldInv, InUseListed
<1>6. StagedEnded' /\ StagedOnce' /\ ForegroundMuted' /\ WatchingTracked'
  BY <1>1, <1>3
  DEF FullInv, HoldInv, StagedEnded, StagedOnce, ForegroundMuted, WatchingTracked
<1>7. ToldBegun' /\ ToldMuted'
  BY <1>1, <1>2, <1>3, <1>4 DEF FullInv, HoldInv, ToldBegun, ToldMuted
<1>8. MutedAccounted'
  <2>1. \A i \in suppressed : table[i] # None => table[i] \in Jobs
    BY RecordTypes DEF FullInv
  <2>q. QED
    BY <1>1, <1>2, <2>1 DEF FullInv, HoldInv, MutedAccounted
<1>9. NothingLost'
  <2>1. status[j] \in Finished => j \in T
    BY DEF Finished
  <2>q. QED
    BY <1>1, <1>2, <1>3, <2>1, InUseIs, InUseIsPrimed DEF FullInv, HoldInv
<1>q. QED
  BY <1>5, <1>6, <1>7, <1>8, <1>9 DEF HoldInv

(* The command's output is the tool's result: the model knows it from here.  *)
LEMMA BashReturnsHold ==
  ASSUME FullInv, NEW j \in Jobs, BashReturns(j)
  PROVE  HoldInv'
<1> DEFINE T == {j} \ {k \in Jobs : status[k] = "cancelled"}
<1>1. /\ j \in foreground /\ foreground' = foreground \ {j}
      /\ Tell(T) /\ UNCHANGED <<mgrVars, entries, polls>>
  BY DEF BashReturns, queueVars
<1>2. T \in SUBSET {j} /\ (j \in T \/ status[j] = "cancelled")
  OBVIOUS
<1> HIDE DEF T
<1>q. QED
  BY <1>1, <1>2, AnswerHold

(* The job goes on unmuted.  If it ended while it was muted, its result is   *)
(* queued now, or hidden because a poll waits for it.                        *)
LEMMA BashBackgroundsHold ==
  ASSUME FullInv, NEW j \in Jobs, BashBackgrounds(j)
  PROVE  HoldInv'
<1> DEFINE sup == suppressed \ {idOf[j]}
<1>1. /\ j \in foreground /\ (ResumeIsPrompt => ~told[j]) /\ foreground' = foreground \ {j}
      /\ UNCHANGED <<entries, told, polls>>
  BY DEF BashBackgrounds, WaitIsOver, queueVars, talkVars
<1>2. /\ idOf[j] \in suppressed /\ table[idOf[j]] = j
      /\ j \notin OnTheWay /\ j \notin Queued /\ j \in InUse
  BY <1>1, InUseIs DEF FullInv, HoldInv, ForegroundMuted, InUseListed
<1>3. ResumeDeliveries(idOf[j])
  BY <1>2 DEF BashBackgrounds
<1>4. suppressed' = sup /\ UNCHANGED <<status, idOf, table, watched>>
  BY <1>3 DEF ResumeDeliveries, recordVars
<1>5. \A k \in Jobs : k # j /\ table[idOf[k]] = k => idOf[k] # idOf[j]
  BY <1>2, OneHolder
<1>6. \A k \in InUse : k \in Jobs /\ table[idOf[k]] = k
  BY HoldersAreJobs, InUseIs DEF FullInv, HoldInv, InUseListed
<1>7. HiddenBy(sup) \subseteq Hidden
  BY DEF Hidden, HiddenBy
<1>8. /\ OnTheWay' \subseteq OnTheWay \cup (IF status[j] \in Finished THEN {j} ELSE {})
      /\ OnTheWay \subseteq OnTheWay' \cup Hidden
      /\ status[j] \in Finished => j \in OnTheWay' \/ j \in HiddenBy(sup)
  <2>1. CASE status[j] \in Finished
    <3>1. PendingJobs \cup InFlightJobs \subseteq OnTheWay
      BY DEF PendingJobs, InFlightJobs, OnTheWay, Busy
    <3>2. \A k \in PendingJobs \cup InFlightJobs : idOf[k] # idOf[j]
      BY <1>2, <1>5, <1>6, <3>1, InUseIs
    <3>3. EnqueueDelivery(j, sup)
      BY <1>2, <1>3, <2>1, <3>2, JobsAssumption DEF ResumeDeliveries
    <3> HIDE DEF sup
    <3>q. QED
      BY <1>2, <1>7, <2>1, <3>3, EnqueueSpares DEF FullInv
  <2>2. CASE status[j] \notin Finished
    <3>1. UNCHANGED <<deliveries, calls>>
      BY <1>2, <1>3, <2>2 DEF ResumeDeliveries, deliveryVars
    <3>q. QED
      BY <2>2, <3>1 DEF OnTheWay
  <2>q. QED
    BY <2>1, <2>2
<1>9. Queued' = Queued /\ Tracked' = Tracked
  BY <1>1 DEF Queued, Tracked
<1>10. InUse' \subseteq InUse /\ InUseListed'
  BY <1>1, <1>2, <1>4, <1>8, <1>9, InUseIs, InUseIsPrimed DEF FullInv, HoldInv, InUseListed
<1>11. StagedEnded' /\ ToldBegun' /\ StagedOnce' /\ WatchingTracked'
  BY <1>1, <1>2, <1>4, <1>8, <1>9
  DEF FullInv, HoldInv, StagedEnded, ToldBegun, StagedOnce, WatchingTracked
<1>12. ToldMuted'
  <2>1. SUFFICES ASSUME ResumeIsPrompt, NEW k \in Jobs, told[k],
                        status[k] = "running" \/ k \in OnTheWay' \cup Queued
                 PROVE  idOf[k] \in sup
    BY <1>1, <1>4, <1>9 DEF ToldMuted
  <2>2. k # j
    BY <1>1, <2>1
  <2>3. status[k] = "running" \/ k \in OnTheWay \cup Queued
    BY <1>8, <2>1, <2>2
  <2>4. table[idOf[k]] = k
    BY <1>6, <2>3, InUseIs DEF FullInv, IInv, RunningListed
  <2>q. QED
    BY <1>5, <2>1, <2>2, <2>3, <2>4 DEF FullInv, HoldInv, ToldMuted
<1>13. ForegroundMuted'
  <2>1. ASSUME NEW k \in foreground, k # j
        PROVE  idOf[k] \in sup /\ k \notin OnTheWay' /\ k \notin Queued
    BY <1>5, <1>6, <1>8, <2>1, InUseIs DEF FullInv, HoldInv, ForegroundMuted
  <2>q. QED
    BY <1>1, <1>4, <1>9, <2>1 DEF ForegroundMuted
<1>14. MutedAccounted'
  <2>1. SUFFICES ASSUME NEW n \in suppressed, n # idOf[j], table[n] # None
                 PROVE  \/ status[table[n]] = "cancelled" \/ told[table[n]]
                        \/ table[n] \in foreground \ {j}
    BY <1>1, <1>4 DEF MutedAccounted
  <2>2. idOf[table[n]] = n
    BY <2>1, RecordTypes DEF FullInv
  <2>q. QED
    BY <2>1, <2>2 DEF FullInv, HoldInv, MutedAccounted
<1>15. NothingLost'
  <2>1. SUFFICES ASSUME NEW k \in Jobs, status[k] \in Finished, ~told[k]
                 PROVE  k \in OnTheWay' \cup Queued \cup (foreground \ {j}) \cup Tracked
    BY <1>1, <1>4, <1>9, InUseIsPrimed
  <2>2. CASE k = j
    <3>1. CASE j \in HiddenBy(sup)
      <4>1. PICK p \in Polls : \E w \in polls[p].watching : idOf[w] = idOf[j]
        BY <3>1 DEF HiddenBy, FullInv, WatchInv, NoOrphanWatch, IdsOf
      <4>2. PICK w \in polls[p].watching : idOf[w] = idOf[j]
        BY <4>1
      <4>3. w \in Tracked
        BY <4>2 DEF FullInv, HoldInv, WatchingTracked, Tracked
      <4>4. w = j
        BY <1>5, <1>6, <4>2, <4>3, InUseIs
      <4>q. QED
        BY <2>2, <4>3, <4>4
    <3>q. QED
      BY <1>8, <2>1, <2>2, <3>1
  <2>3. CASE k # j
    <3>1. k \in OnTheWay \cup Queued \cup foreground \cup Tracked
      BY <2>1, InUseIs DEF FullInv, HoldInv
    <3>q. QED
      BY <1>8, <2>1, <2>3, <3>1, HiddenResult
  <2>q. QED
    BY <2>2, <2>3
<1>q. QED
  BY <1>10, <1>11, <1>12, <1>13, <1>14, <1>15 DEF HoldInv

(* Jobs that run are cancelled, and nothing is unmuted.                      *)
LEMMA CancelledHold ==
  ASSUME FullInv, NEW j \in Jobs, ~settled[j], table[idOf[j]] = j,
         status' = [status EXCEPT ![j] = "cancelled"],
         UNCHANGED <<idOf, table, entries, told, polls>>,
         suppressed' \in {suppressed, suppressed \cup {idOf[j]}},
         foreground' \in {foreground, foreground \ {j}},
         OnTheWay' \subseteq OnTheWay, OnTheWay \subseteq OnTheWay' \cup Hidden
  PROVE  HoldInv'
<1>1. status[j] \notin Finished /\ j \notin OnTheWay /\ j \notin Queued
  BY UnsettledNotEnded
<1>2. Queued' = Queued /\ Tracked' = Tracked
  BY DEF Queued, Tracked
<1>3. /\ OnTheWay \subseteq Jobs /\ Queued \subseteq Jobs /\ foreground \subseteq Jobs
      /\ Tracked \subseteq Jobs
  BY HoldersAreJobs DEF FullInv
<1>4. /\ status'[j] = "cancelled"
      /\ \A k \in Jobs : k # j => status'[k] = status[k]
  BY RecordTypes DEF FullInv
<1>5. InUseListed'
  <2>1. InUse' \subseteq InUse /\ InUse \subseteq Jobs
    BY <1>2, <1>3, InUseIs, InUseIsPrimed
  <2>q. QED
    BY <1>4, <2>1 DEF FullInv, HoldInv, InUseListed
<1>6. StagedEnded' /\ ToldBegun' /\ StagedOnce' /\ WatchingTracked'
  BY <1>1, <1>2, <1>3, <1>4
  DEF FullInv, HoldInv, StagedEnded, ToldBegun, StagedOnce, WatchingTracked
<1>7. ToldMuted' /\ ForegroundMuted'
  BY <1>2, <1>4 DEF FullInv, HoldInv, ToldMuted, ForegroundMuted
<1>8. MutedAccounted'
  <2>1. \A i \in Ids : table[i] # None => table[i] \in Jobs
    BY RecordTypes DEF FullInv
  <2>2. suppressed \subseteq Ids
    BY RecordTypes DEF FullInv
  <2>q. QED
    BY <1>4, <2>1, <2>2 DEF FullInv, HoldInv, MutedAccounted
<1>9. NothingLost'
  <2>1. SUFFICES ASSUME NEW k \in Jobs, status'[k] \in Finished, ~told[k]
                 PROVE  k \in OnTheWay' \cup Queued \cup foreground' \cup Tracked
    BY <1>2, InUseIsPrimed
  <2>2. status[k] \in Finished /\ k # j
    BY <1>4, <2>1 DEF Finished
  <2>3. k \in OnTheWay \cup Queued \cup foreground \cup Tracked
    BY <2>1, <2>2, InUseIs DEF FullInv, HoldInv
  <2>q. QED
    BY <2>1, <2>2, <2>3, HiddenResult
<1>q. QED
  BY <1>5, <1>6, <1>7, <1>8, <1>9 DEF HoldInv

LEMMA BashAbortsHold ==
  ASSUME FullInv, NEW j \in Jobs, BashAborts(j)
  PROVE  HoldInv'
<1> DEFINE T == IF status[j] \in Finished THEN {j} ELSE {}
<1>1. /\ j \in foreground /\ foreground' = foreground \ {j} /\ Tell(T)
      /\ UNCHANGED <<entries, polls>>
  BY DEF BashAborts, queueVars
<1>2. /\ table[idOf[j]] = j /\ j # None
      /\ status \in [Jobs -> Statuses] /\ told \in [Jobs -> BOOLEAN] /\ status[j] # "new"
  BY <1>1, InUseIs, JobsAssumption, RecordTypes
  DEF FullInv, HoldInv, InUseListed, OrderInv, ToolsKnowJobs
<1>3. CASE status[j] = "running"
  <2>1. CancelJobs({j})
    BY <1>2, <1>3 DEF BashAborts, Cancel
  <2>2. status' = [k \in Jobs |-> IF k \in {j} THEN "cancelled" ELSE status[k]]
    BY <2>1 DEF CancelJobs
  <2>3. /\ status' = [status EXCEPT ![j] = "cancelled"]
        /\ UNCHANGED <<idOf, table, suppressed, deliveries, calls>>
    BY <1>2, <2>1, <2>2, EvictionLater DEF CancelJobs, deliveryVars
  <2>4. T = {}
    BY <1>3 DEF Finished
  <2>5. told' = told
    BY <1>1, <1>2, <2>4 DEF Tell
  <2>6. ~settled[j] /\ OnTheWay' = OnTheWay
    BY <1>3, <2>3 DEF OnTheWay, FullInv, IInv, RunningUnsettled
  <2>q. QED
    BY <1>1, <1>2, <2>3, <2>5, <2>6, CancelledHold
<1>4. CASE status[j] # "running"
  <2>1. UNCHANGED mgrVars
    BY <1>2, <1>4 DEF BashAborts
  <2>2. T \in SUBSET {j} /\ (j \in T \/ status[j] = "cancelled")
    BY <1>2, <1>4 DEF Statuses, Finished
  <2> HIDE DEF T
  <2>q. QED
    BY <1>1, <2>1, <2>2, AnswerHold
<1>q. QED
  BY <1>3, <1>4

LEMMA CancelToolHold ==
  ASSUME FullInv, NEW j \in Jobs, CancelTool(j)
  PROVE  HoldInv'
<1>1. /\ status[j] = "running" /\ status' = [status EXCEPT ![j] = "cancelled"]
      /\ suppressed' = suppressed \cup {idOf[j]}
      /\ deliveries' = Unacknowledged({idOf[j]}, watched)
      /\ UNCHANGED <<idOf, table, calls>>
      /\ UNCHANGED <<entries, told, polls, foreground>>
  BY DEF CancelTool, sessionVars
<1>2. ~settled[j] /\ table[idOf[j]] = j
  BY <1>1 DEF FullInv, IInv, RunningUnsettled, RunningListed
<1>3. j \notin OnTheWay
  BY <1>2, UnsettledNotEnded
<1>4. /\ OnTheWay' \subseteq OnTheWay
      /\ \A k \in OnTheWay : k \in OnTheWay' \/ idOf[k] \in suppressed \cup watched \cup {idOf[j]}
  BY <1>1, AcknowledgementSpares DEF FullInv
<1>5. \A k \in OnTheWay : idOf[k] # idOf[j]
  BY <1>2, <1>3, InUseIs, OneHolder
<1>6. OnTheWay \subseteq OnTheWay' \cup Hidden
  BY <1>4, <1>5, HoldersAreJobs DEF FullInv, Hidden, HiddenBy
<1>q. QED
  BY <1>1, <1>2, <1>4, <1>6, CancelledHold

(* A job tool's report: what is over is acknowledged and known; the rest is  *)
(* left where it is.                                                         *)
LEMMA BuildHold ==
  ASSUME FullInv, NEW S \in SUBSET Jobs,
         \A j \in S : status[j] # "new" /\ table[idOf[j]] = j,
         NEW W \in SUBSET watched, BuildResult(S, W), UNCHANGED <<entries, foreground>>,
         Tracked' \subseteq Tracked, Tracked \subseteq Tracked' \cup S, WatchingTracked'
  PROVE  HoldInv'
<1> DEFINE O == {j \in S : status[j] # "running"}
<1>1. Over(S) = O
  BY JobsAssumption DEF Over, Latest
<1>2. /\ suppressed' = suppressed \cup IdsOf(O)
      /\ deliveries' = IF O = {} THEN deliveries ELSE Unacknowledged(IdsOf(O), W)
      /\ Tell({j \in O : status[j] \in Finished})
      /\ UNCHANGED <<status, idOf, table, calls>>
  BY <1>1 DEF BuildResult, recordVars
<1>3. \A j \in O : status[j] \in Finished \cup {"cancelled"} /\ table[idOf[j]] = j
  BY RecordTypes DEF FullInv, Statuses, Finished
<1>4. O \subseteq Jobs /\ \A j \in S : status[j] \in Finished => j \in O
  BY DEF Finished
<1> HIDE DEF O
<1>5. \A j \in Jobs : told'[j] <=> told[j] \/ (j \in O /\ status[j] \in Finished)
  BY <1>2 DEF Tell
<1>6. /\ OnTheWay' \subseteq OnTheWay
      /\ \A k \in OnTheWay : k \in OnTheWay' \/ idOf[k] \in suppressed \cup W \cup IdsOf(O)
  <2>1. CASE O = {}
    BY <1>2, <2>1 DEF OnTheWay
  <2>2. CASE O # {}
    BY <1>2, <2>2, AcknowledgementSpares DEF FullInv
  <2>q. QED
    BY <2>1, <2>2
<1>7. Queued' = Queued
  BY DEF Queued
<1>8. /\ OnTheWay \subseteq Jobs /\ Queued \subseteq Jobs /\ foreground \subseteq Jobs
      /\ Tracked \subseteq Jobs
  BY HoldersAreJobs DEF FullInv
<1>9. InUseListed'
  BY <1>2, <1>6, <1>7, InUseIs, InUseIsPrimed DEF FullInv, HoldInv, InUseListed
<1>10. StagedEnded' /\ StagedOnce' /\ ForegroundMuted'
  BY <1>2, <1>6, <1>7 DEF FullInv, HoldInv, StagedEnded, StagedOnce, ForegroundMuted
<1>11. ToldBegun'
  BY <1>2, <1>5 DEF FullInv, HoldInv, ToldBegun, Finished
<1>12. ToldMuted'
  BY <1>2, <1>5, <1>6, <1>7 DEF FullInv, HoldInv, ToldMuted, IdsOf
<1>13. MutedAccounted'
  <2>1. SUFFICES ASSUME NEW n \in suppressed', table[n] # None
                 PROVE  \/ status[table[n]] = "cancelled" \/ told'[table[n]]
                        \/ table[n] \in foreground
    BY <1>2 DEF MutedAccounted
  <2>2. CASE n \in suppressed
    <3>1. table[n] \in Jobs
      BY <2>1, <2>2, RecordTypes DEF FullInv
    <3>q. QED
      BY <1>5, <2>1, <2>2, <3>1 DEF FullInv, HoldInv, MutedAccounted
  <2>3. CASE n \in IdsOf(O)
    BY <1>3, <1>4, <1>5, <2>3 DEF IdsOf
  <2>q. QED
    BY <1>2, <2>1, <2>2, <2>3
<1>14. NothingLost'
  <2>1. SUFFICES ASSUME NEW k \in Jobs, status[k] \in Finished, ~told[k], k \notin O
                 PROVE  k \in OnTheWay' \cup Queued \cup foreground \cup Tracked'
    BY <1>2, <1>5, <1>7, InUseIsPrimed
  <2>2. k \in Tracked => k \in Tracked'
    BY <1>4, <2>1
  <2>3. k \in OnTheWay \cup Queued \cup foreground \cup Tracked
    BY <2>1, InUseIs DEF FullInv, HoldInv
  <2>4. CASE k \in OnTheWay
    <3>1. idOf[k] \notin IdsOf(O)
      <4>1. \A o \in O : idOf[o] = idOf[k] => k = o
        BY <1>3, <1>4, <2>4, InUseIs, OneHolder
      <4>q. QED
        BY <2>1, <4>1 DEF IdsOf
    <3>2. k \in OnTheWay' \/ k \in Hidden
      BY <1>6, <2>4, <3>1 DEF Hidden, HiddenBy
    <3>q. QED
      BY <2>1, <2>2, <3>2, HiddenResult
  <2>q. QED
    BY <2>2, <2>3, <2>4
<1>q. QED
  BY <1>9, <1>10, <1>11, <1>12, <1>13, <1>14 DEF HoldInv

LEMMA ListedHold ==
  ASSUME FullInv
  PROVE  Listed \subseteq Jobs /\ \A j \in Listed : status[j] # "new" /\ table[idOf[j]] = j
<1>1. Listed \subseteq Jobs /\ \A j \in Listed : status[j] # "new"
  BY ListedAreJobs DEF FullInv, OrderInv
<1>2. \A i \in Ids : table[i] # None => idOf[table[i]] = i
  BY RecordTypes DEF FullInv
<1>q. QED
  BY <1>1, <1>2 DEF Listed

LEMMA ReadJobsHold ==
  ASSUME FullInv, NEW S \in SUBSET Listed, ReadJobs(S)
  PROVE  HoldInv'
<1>1. BuildResult(S, watched) /\ UNCHANGED <<entries, foreground, polls>>
  BY DEF ReadJobs, queueVars, toolVars
<1>2. S \in SUBSET Jobs /\ \A j \in S : status[j] # "new" /\ table[idOf[j]] = j
  BY ListedHold
<1>3. Tracked' = Tracked /\ WatchingTracked'
  BY <1>1 DEF Tracked, FullInv, HoldInv, WatchingTracked
<1>q. QED
  BY <1>1, <1>2, <1>3, BuildHold

LEMMA PollReturnsHold ==
  ASSUME FullInv, NEW p \in Polls, PollReturns(p)
  PROVE  HoldInv'
<1> DEFINE S == polls[p].tracked
           W == watched \ IdsOf(polls[p].watching)
<1>1. /\ BuildResult(S, W) /\ UNCHANGED <<entries, foreground>>
      /\ polls' = [polls EXCEPT ![p] = NoPoll]
  BY DEF PollReturns, queueVars
<1>2. polls \in [Polls -> [tracked : SUBSET Jobs, watching : SUBSET Jobs]]
  BY DEF FullInv, WatchInv, PollsOK
<1>3. S \subseteq InUse /\ S \in SUBSET Jobs
  BY <1>2, InUseIs DEF Tracked
<1>4. \A j \in S : status[j] # "new" /\ table[idOf[j]] = j
  BY <1>3 DEF FullInv, HoldInv, InUseListed
<1>5. /\ polls'[p].tracked = {} /\ polls'[p].watching = {}
      /\ \A q \in Polls \ {p} : polls'[q] = polls[q]
  BY <1>1, <1>2 DEF NoPoll
<1>6. WatchingTracked'
  BY <1>5 DEF FullInv, HoldInv, WatchingTracked
<1>7. Tracked' \subseteq Tracked /\ Tracked \subseteq Tracked' \cup S
  BY <1>5 DEF Tracked
<1> HIDE DEF S, W
<1>8. W \in SUBSET watched
  BY DEF W
<1>q. QED
  BY <1>1, <1>3, <1>4, <1>6, <1>7, <1>8, BuildHold

LEMMA PollStartsHold ==
  ASSUME FullInv, NEW p \in Polls, NEW S \in SUBSET Listed, PollStarts(p, S)
  PROVE  HoldInv'
<1> DEFINE running == {j \in S : status[j] = "running"}
<1>1. /\ polls[p] = NoPoll
      /\ polls' = [polls EXCEPT ![p] = [tracked |-> S, watching |-> running]]
      /\ UNCHANGED <<status, idOf, table, suppressed, deliveries, calls>>
      /\ UNCHANGED <<entries, told, foreground>>
  BY DEF PollStarts, WatchJobs, recordVars, deliveryVars, queueVars, talkVars
<1>2. polls \in [Polls -> [tracked : SUBSET Jobs, watching : SUBSET Jobs]]
  BY DEF FullInv, WatchInv, PollsOK
<1>3. /\ polls'[p].tracked = S /\ polls'[p].watching = running
      /\ \A q \in Polls \ {p} : polls'[q] = polls[q]
  BY <1>1, <1>2
<1>4. polls[p].tracked = {}
  BY <1>1 DEF NoPoll
<1>5. Tracked' = Tracked \cup S
  BY <1>3, <1>4 DEF Tracked
<1>6. OnTheWay' = OnTheWay /\ Queued' = Queued
  BY <1>1 DEF OnTheWay, Queued
<1>7. WatchingTracked'
  BY <1>3 DEF FullInv, HoldInv, WatchingTracked
<1>8. InUseListed'
  <2>1. InUse' = InUse \cup S
    BY <1>1, <1>5, <1>6, InUseIs, InUseIsPrimed
  <2>q. QED
    BY <1>1, <2>1, ListedHold DEF FullInv, HoldInv, InUseListed
<1>9. StagedEnded' /\ ToldBegun' /\ StagedOnce' /\ ToldMuted' /\ ForegroundMuted' /\ MutedAccounted'
  BY <1>1, <1>6 DEF FullInv, HoldInv, StagedEnded, ToldBegun, StagedOnce, ToldMuted,
                    ForegroundMuted, MutedAccounted
<1>10. NothingLost'
  BY <1>1, <1>5, <1>6, InUseIs, InUseIsPrimed DEF FullInv, HoldInv
<1>q. QED
  BY <1>7, <1>8, <1>9, <1>10 DEF HoldInv

----------------------------------------------------------------------------
(* The records, which the tools change only through the manager's methods.   *)

LEMMA ToolsIInv ==
  ASSUME FullInv, Timely, ToolSteps
  PROVE  IInv'
<1>0. IInv
  BY DEF FullInv
<1>1. ASSUME NEW j \in Jobs, StartBackground(j) \/ StartBash(j) PROVE IInv'
  BY <1>0, <1>1, RegisterIInv DEF StartBackground, StartBash
<1>2. CASE UNCHANGED <<recordVars, disposeVars>>
  BY <1>0, <1>2, OthersIInv
<1>3. CASE UNCHANGED mgrVars
  BY <1>2, <1>3 DEF mgrVars, recordVars, disposeVars
<1>4. ASSUME NEW k, Cancel(k) PROVE IInv'
  <2> DEFINE S == {k}
  <2>1. CancelJobs(S) /\ k \in Listed /\ status[k] = "running"
    BY <1>4 DEF Cancel
  <2>2. S \in SUBSET Jobs /\ \A x \in S : status[x] = "running"
    BY <2>1, ListedHold
  <2> HIDE DEF S
  <2>q. QED
    BY <1>0, <2>1, <2>2, CancelJobsIInv
<1>5. ASSUME NEW j \in Jobs, CancelTool(j) PROVE IInv'
  <2> DEFINE S == {j}
  <2>1. /\ status[j] = "running" /\ ~settled[j]
        /\ status' = [status EXCEPT ![j] = "cancelled"]
        /\ timers' = timers \cup {idOf[j]}
        /\ UNCHANGED <<queued, settled, idOf, table, disposeVars>>
    BY <1>0, <1>5 DEF CancelTool, IInv, RunningUnsettled
  <2>2. S \in SUBSET Jobs /\ \A x \in S : status[x] = "running" /\ ~settled[x]
    BY <2>1
  <2>3. /\ status' = [x \in Jobs |-> IF x \in S THEN "cancelled" ELSE status[x]]
        /\ settled' = [x \in Jobs |-> settled[x] \/ (FALSE /\ x \in S)]
        /\ timers' = timers \cup {idOf[x] : x \in S}
    BY <1>0, <2>1 DEF IInv, RecordsOK
  <2>4. "cancelled" \in Statuses \ {"new", "running"}
    BY DEF Statuses
  <2> HIDE DEF S
  <2>q. QED
    BY <1>0, <2>1, <2>2, <2>3, <2>4, SettleOrCancelIInv
<1>6. ASSUME NEW j \in Jobs, BashReturns(j) \/ BashBackgrounds(j) \/ BashAborts(j) PROVE IInv'
  <2>1. \/ UNCHANGED mgrVars \/ ResumeDeliveries(idOf[j]) \/ Cancel(table[idOf[j]])
    BY <1>6 DEF BashReturns, BashBackgrounds, BashAborts
  <2>q. QED
    BY <1>2, <1>3, <1>4, <2>1 DEF ResumeDeliveries
<1>7. CASE \/ \E S : ReadJobs(S)
           \/ \E p \in Polls : PollReturns(p) \/ \E S : PollStarts(p, S)
  <2>1. UNCHANGED <<recordVars, disposeVars>>
    BY <1>7 DEF ReadJobs, PollReturns, BuildResult, PollStarts, WatchJobs
  <2>q. QED
    BY <1>2, <2>1
<1>q. QED
  BY <1>1, <1>5, <1>6, <1>7 DEF ToolSteps

LEMMA NextFull ==
  ASSUME FullInv, InTime, [DeliveryNext]_vars
  PROVE  FullInv'
<1>0. IInv /\ Timely
  BY SessionAssumption DEF FullInv, InTime, Timely
<1>1. ASSUME ManagerSteps PROVE IInv' /\ HoldInv'
  BY <1>0, <1>1, NextIInv, ManagerHold DEF ManagerSteps, Next
<1>2. ASSUME \E i \in Ids : Evicts(i) PROVE IInv' /\ HoldInv'
  BY <1>0, <1>2, NextIInv, EvictsHold DEF Evicts, Next
<1>3. ASSUME \E c \in calls : CallDone(c) PROVE IInv' /\ HoldInv'
  BY <1>0, <1>3, NextIInv, CallDoneHold DEF CallDone, Next
<1>4. ASSUME IdleFlush \/ TurnSteps PROVE IInv' /\ HoldInv'
  <2>1. UNCHANGED mgrVars
    BY <1>4 DEF IdleFlush, TurnSteps, Prompt, ModelCallsTools, ToolsEnd, ModelStops, ModelFails,
                Settles, Abort
  <2>q. QED
    BY <1>0, <1>4, <2>1, NextIInv, TurnHold
<1>5. ASSUME ToolSteps PROVE IInv' /\ HoldInv'
  <2>1. ASSUME NEW j \in Jobs, StartBackground(j) \/ StartBash(j) PROVE HoldInv'
    BY <2>1, RegisterHold DEF StartBackground, StartBash, sessionVars, queueVars, talkVars
  <2>2. Listed \in SUBSET Listed
    OBVIOUS
  <2>3. HoldInv'
    BY <1>5, <2>1, <2>2, BashReturnsHold, BashBackgroundsHold, BashAbortsHold, CancelToolHold,
       ReadJobsHold, PollReturnsHold, PollStartsHold DEF ToolSteps
  <2>q. QED
    BY <1>0, <1>5, <2>3, ToolsIInv
<1>6. ASSUME UNCHANGED vars PROVE IInv' /\ HoldInv'
  <2>1. UNCHANGED mgrVars /\ UNCHANGED sessionVars
    BY <1>6 DEF vars
  <2>2. /\ UNCHANGED <<status, idOf, table, suppressed, told, foreground, polls>>
        /\ OnTheWay' = OnTheWay /\ Queued' = Queued
    BY <2>1 DEF mgrVars, sessionVars, OnTheWay, Queued
  <2>q. QED
    BY <1>0, <2>1, <2>2, NextIInv, MoveHold DEF FullInv, HoldInv, StagedOnce
<1>7. IInv' /\ HoldInv'
  BY <1>1, <1>2, <1>3, <1>4, <1>5, <1>6 DEF DeliveryNext
<1>8. OrderInv' /\ WatchInv'
  BY NextOrder, NextKeeps DEF FullInv
<1>q. QED
  BY <1>7, <1>8 DEF FullInv

LEMMA InitFull == DeliveryInit => FullInv
<1> SUFFICES ASSUME DeliveryInit PROVE FullInv
  OBVIOUS
<1>1. OrderInv /\ IInv
  BY InitOrder, InitIInv DEF DeliveryInit
<1>2. WatchInv
  BY InitWatch
<1>3. OnTheWay = {} /\ Queued = {} /\ Tracked = {} /\ foreground = {}
  <2>1. deliveries = <<>> /\ calls = {} /\ entries = <<>> /\ foreground = {}
        /\ \A p \in Polls : polls[p].tracked = {}
    BY DEF DeliveryInit, Init, NoPoll
  <2>q. QED
    BY <2>1 DEF OnTheWay, Busy, Queued, Tracked
<1>4. HoldInv
  <2>1. /\ \A j \in Jobs : status[j] = "new" /\ ~told[j]
        /\ suppressed = {} /\ \A p \in Polls : polls[p].watching = {}
    BY DEF DeliveryInit, Init, NoPoll
  <2>q. QED
    BY <1>3, <2>1, InUseIs
    DEF HoldInv, InUseListed, StagedEnded, ToldBegun, StagedOnce, ToldMuted, ForegroundMuted,
        MutedAccounted, WatchingTracked, Finished
<1>q. QED
  BY <1>1, <1>2, <1>4 DEF FullInv

(* Everything known of the composition holds of every instance of it, when   *)
(* aborted runs end, and ids go out of use, within the retention.            *)
THEOREM DeliveryInvHolds ==
  ASSUME InTime
  PROVE  DeliverySpec => []FullInv
<1>1. FullInv /\ [DeliveryNext]_vars => FullInv'
  BY NextFull
<1>q. QED
  BY <1>1, InitFull, PTL DEF DeliverySpec

(* A finished result the model does not have is always held by somebody who  *)
(* will hand it on: no suppression, watch, acknowledgement or resumption     *)
(* drops it, whatever polls, foreground waits and aborts overlap.            *)
THEOREM NothingIsLost ==
  ASSUME InTime
  PROVE  DeliverySpec => []NothingLost
<1>1. FullInv => NothingLost
  BY DEF FullInv, HoldInv
<1>q. QED
  BY <1>1, DeliveryInvHolds, PTL

----------------------------------------------------------------------------
(* The refinement of the inbox. *)

\* what the inbox shows of a job with status st whose result is told, or not
View(st, known) ==
  IF known THEN "known" ELSE IF st = "new" THEN "absent" ELSE IF st = "running" THEN "running"
  ELSE IF st = "cancelled" THEN "void" ELSE "ready"

LEMMA InboxShows ==
  ASSUME OrderInv
  PROVE  InboxResult = [j \in Jobs |-> View(status[j], told[j])]
<1>1. status \in [Jobs -> Statuses]
  BY RecordTypes
<1>2. ASSUME NEW j \in Jobs
      PROVE  (IF told[j] THEN "known"
              ELSE CASE status[j] = "new" -> "absent"
                     [] status[j] = "running" -> "running"
                     [] status[j] = "cancelled" -> "void"
                     [] status[j] \in Finished -> "ready")
             = View(status[j], told[j])
  BY <1>1 DEF View, Statuses, Finished
<1>q. QED
  BY <1>2 DEF InboxResult

LEMMA InboxShowsNext ==
  ASSUME OrderInv'
  PROVE  InboxResult' = [j \in Jobs |-> View(status'[j], told'[j])]
<1>1. status' \in [Jobs -> Statuses]
  BY DEF OrderInv, RecordInv, RecordsOK
<1>2. ASSUME NEW j \in Jobs
      PROVE  (IF told'[j] THEN "known"
              ELSE CASE status'[j] = "new" -> "absent"
                     [] status'[j] = "running" -> "running"
                     [] status'[j] = "cancelled" -> "void"
                     [] status'[j] \in Finished -> "ready")
             = View(status'[j], told'[j])
  BY <1>1 DEF View, Statuses, Finished
<1>q. QED
  BY <1>2 DEF InboxResult

(* A change of what the inbox shows of the jobs of S, all alike.             *)
LEMMA ViewBecomes ==
  ASSUME OrderInv, OrderInv', NEW S \in SUBSET Jobs, S # {}, NEW from, NEW to,
         \A j \in S : View(status[j], told[j]) = from /\ View(status'[j], told'[j]) = to,
         \A j \in Jobs \ S : status'[j] = status[j] /\ told'[j] = told[j]
  PROVE  Inbox!Become(S, from, to)
<1>1. /\ InboxResult = [j \in Jobs |-> View(status[j], told[j])]
      /\ InboxResult' = [j \in Jobs |-> View(status'[j], told'[j])]
  BY InboxShows, InboxShowsNext
<1>2. \A j \in S : InboxResult[j] = from
  BY <1>1
<1>3. InboxResult' = [j \in Jobs |-> IF j \in S THEN to ELSE InboxResult[j]]
  BY <1>1
<1>q. QED
  BY <1>2, <1>3 DEF Inbox!Become

(* Steps after which the inbox shows what it showed.                         *)
LEMMA ViewSame ==
  ASSUME OrderInv, OrderInv', UNCHANGED injected,
         \A j \in Jobs : View(status'[j], told'[j]) = View(status[j], told[j])
  PROVE  UNCHANGED Inbox!inboxVars
<1>1. /\ InboxResult = [j \in Jobs |-> View(status[j], told[j])]
      /\ InboxResult' = [j \in Jobs |-> View(status'[j], told'[j])]
  BY InboxShows, InboxShowsNext
<1>2. InboxResult' = InboxResult
  BY <1>1
<1>q. QED
  BY <1>2 DEF Inbox!inboxVars

LEMMA ViewStays ==
  ASSUME OrderInv, OrderInv', UNCHANGED <<status, injected>>,
         \A j \in Jobs : told'[j] = told[j]
  PROVE  UNCHANGED Inbox!inboxVars
BY ViewSame

InboxStep == Inbox!InboxNext \/ UNCHANGED Inbox!inboxVars

LEMMA RegisterBegins ==
  ASSUME OrderInv, OrderInv', ToldBegun, NEW j \in Jobs, NEW ack \in BOOLEAN, Register(j, ack),
         UNCHANGED <<told, injected>>
  PROVE  InboxStep
<1> DEFINE S == {j}
<1>1. status[j] = "new" /\ status' = [status EXCEPT ![j] = "running"] /\ ~told[j]
  BY DEF Register, ToldBegun
<1>2. \A k \in S : View(status[k], told[k]) = "absent" /\ View(status'[k], told'[k]) = "running"
  BY <1>1, RecordTypes DEF View
<1>3. \A k \in Jobs \ S : status'[k] = status[k] /\ told'[k] = told[k]
  BY <1>1, RecordTypes
<1>4. S \in SUBSET Jobs /\ S # {}
  OBVIOUS
<1>5. Inbox!Become(S, "absent", "running")
  <2> HIDE DEF S
  <2>q. QED
    BY <1>2, <1>3, <1>4, ViewBecomes
<1>q. QED
  BY <1>5 DEF InboxStep, Inbox!InboxNext, Inbox!Begin

LEMMA RunSettlesFinishes ==
  ASSUME FullInv, OrderInv', NEW j \in Jobs, NEW o \in Finished, RunSettles(j, o),
         UNCHANGED <<told, injected>>
  PROVE  InboxStep
<1> DEFINE S == {j}
<1>0. OrderInv
  BY DEF FullInv
<1>1. status[j] = "running" /\ status' = [status EXCEPT ![j] = o]
  BY DEF RunSettles
<1>2. \A k \in Jobs \ S : status'[k] = status[k] /\ told'[k] = told[k]
  BY <1>0, <1>1, RecordTypes
<1>3. CASE told[j]
  <2>1. \A k \in Jobs : View(status'[k], told'[k]) = View(status[k], told[k])
    BY <1>2, <1>3 DEF View
  <2>q. QED
    BY <1>0, <2>1, ViewSame DEF InboxStep
<1>4. CASE ~told[j]
  <2>1. \A k \in S : View(status[k], told[k]) = "running" /\ View(status'[k], told'[k]) = "ready"
    BY <1>0, <1>1, <1>4, RecordTypes DEF View, Finished
  <2>2. S \in SUBSET Jobs /\ S # {}
    OBVIOUS
  <2>3. Inbox!Become(S, "running", "ready")
    <3> HIDE DEF S
    <3>q. QED
      BY <1>0, <1>2, <2>1, <2>2, ViewBecomes
  <2>q. QED
    BY <2>3 DEF InboxStep, Inbox!InboxNext, Inbox!Finish
<1>q. QED
  BY <1>3, <1>4

LEMMA CancelVoids ==
  ASSUME OrderInv, OrderInv', NEW j \in Jobs, status[j] = "running",
         status' = [status EXCEPT ![j] = "cancelled"], UNCHANGED <<told, injected>>
  PROVE  InboxStep
<1> DEFINE S == {j}
<1>1. \A k \in Jobs \ S : status'[k] = status[k] /\ told'[k] = told[k]
  BY RecordTypes
<1>2. CASE told[j]
  <2>1. \A k \in Jobs : View(status'[k], told'[k]) = View(status[k], told[k])
    BY <1>1, <1>2 DEF View
  <2>q. QED
    BY <2>1, ViewSame DEF InboxStep
<1>3. CASE ~told[j]
  <2>1. \A k \in S : View(status[k], told[k]) = "running" /\ View(status'[k], told'[k]) = "void"
    BY <1>3, RecordTypes DEF View
  <2>2. S \in SUBSET Jobs /\ S # {}
    OBVIOUS
  <2> HIDE DEF S
  <2>3. Inbox!Become(S, "running", "void")
    BY <1>1, <2>1, <2>2, ViewBecomes
  <2>q. QED
    BY <2>2, <2>3 DEF InboxStep, Inbox!InboxNext, Inbox!Void
<1>q. QED
  BY <1>2, <1>3

(* The bash call that waits for a running job shows its result.              *)
LEMMA AnswerShows ==
  ASSUME OrderInv, OrderInv', NEW j \in Jobs, status[j] = "running", Tell({j}),
         UNCHANGED <<status, injected>>
  PROVE  InboxStep
<1> DEFINE S == {j}
<1>1. \A k \in Jobs : told'[k] = (told[k] \/ k = j)
  BY DEF Tell
<1>2. told \in [Jobs -> BOOLEAN]
  BY RecordTypes
<1>3. CASE told[j]
  <2>1. \A k \in Jobs : told'[k] = told[k]
    BY <1>1, <1>2, <1>3
  <2>q. QED
    BY <2>1, ViewStays DEF InboxStep
<1>4. CASE ~told[j]
  <2>1. \A k \in S : View(status[k], told[k]) = "running" /\ View(status'[k], told'[k]) = "known"
    BY <1>1, <1>4 DEF View
  <2>2. \A k \in Jobs \ S : status'[k] = status[k] /\ told'[k] = told[k]
    BY <1>1, <1>2
  <2>3. S \in SUBSET Jobs /\ S # {}
    OBVIOUS
  <2>4. Inbox!Become(S, "running", "known")
    <3> HIDE DEF S
    <3>q. QED
      BY <2>1, <2>2, <2>3, ViewBecomes
  <2>q. QED
    BY <2>4 DEF InboxStep, Inbox!InboxNext, Inbox!Answer
<1>q. QED
  BY <1>3, <1>4

(* A tool shows results: those that were not known yet are reported.         *)
LEMMA TellReports ==
  ASSUME OrderInv, OrderInv', NEW T, \A j \in T : status[j] \in Finished, Tell(T),
         UNCHANGED <<status, injected>>
  PROVE  InboxStep
<1> DEFINE S == {j \in Jobs : j \in T /\ ~told[j]}
<1>1. \A j \in Jobs : told'[j] = (told[j] \/ j \in T)
  BY DEF Tell
<1>2. told \in [Jobs -> BOOLEAN]
  BY RecordTypes
<1>3. CASE S = {}
  <2>1. \A j \in Jobs : told'[j] = told[j]
    BY <1>1, <1>2, <1>3
  <2>q. QED
    BY <2>1, ViewStays DEF InboxStep
<1>4. CASE S # {}
  <2>1. \A k \in S : View(status[k], told[k]) = "ready" /\ View(status'[k], told'[k]) = "known"
    BY <1>1 DEF View, Finished
  <2>2. \A k \in Jobs \ S : status'[k] = status[k] /\ told'[k] = told[k]
    BY <1>1, <1>2
  <2>3. S \in SUBSET Jobs
    OBVIOUS
  <2> HIDE DEF S
  <2>4. Inbox!Become(S, "ready", "known")
    BY <1>4, <2>1, <2>2, <2>3, ViewBecomes
  <2>q. QED
    BY <2>3, <2>4 DEF InboxStep, Inbox!InboxNext, Inbox!Report
<1>q. QED
  BY <1>3, <1>4

(* What a drain injects is finished, and the model did not know it: whoever  *)
(* told it before has muted it.                                              *)
LEMMA SurvivorsAreNews ==
  ASSUME FullInv, ResumeIsPrompt
  PROVE  /\ Survivors \subseteq Jobs
         /\ \A j \in Survivors : status[j] \in Finished /\ ~told[j]
<1>1. Queued \subseteq Jobs
  BY HoldersAreJobs DEF FullInv
<1>q. QED
  BY <1>1 DEF FullInv, HoldInv, StagedEnded, ToldMuted, Survivors, Hidden, HiddenBy

LEMMA InjectDelivers ==
  ASSUME FullInv, OrderInv', ResumeIsPrompt, Inject(Survivors), UNCHANGED status
  PROVE  InboxStep
<1> DEFINE S == Survivors
<1>0. OrderInv
  BY DEF FullInv
<1>1. /\ \A j \in Jobs : told'[j] = (told[j] \/ j \in S)
      /\ injected' = [j \in Jobs |-> IF j \in S THEN injected[j] + 1 ELSE injected[j]]
  BY DEF Inject, Tell
<1>2. told \in [Jobs -> BOOLEAN] /\ injected \in [Jobs -> Nat]
  BY <1>0, RecordTypes DEF OrderInv, SessionOK
<1>3. S \in SUBSET Jobs /\ \A j \in S : status[j] \in Finished /\ ~told[j]
  BY SurvivorsAreNews
<1> HIDE DEF S
<1>4. CASE S = {}
  <2>1. (\A j \in Jobs : told'[j] = told[j]) /\ injected' = injected
    BY <1>1, <1>2, <1>4
  <2>q. QED
    BY <1>0, <2>1, ViewStays DEF InboxStep
<1>5. CASE S # {}
  <2>1. \A k \in S : View(status[k], told[k]) = "ready" /\ View(status'[k], told'[k]) = "known"
    BY <1>1, <1>3 DEF View, Finished
  <2>2. \A k \in Jobs \ S : status'[k] = status[k] /\ told'[k] = told[k]
    BY <1>1, <1>2
  <2>3. Inbox!Become(S, "ready", "known")
    BY <1>0, <1>3, <1>5, <2>1, <2>2, ViewBecomes
  <2>q. QED
    BY <1>1, <1>3, <2>3 DEF InboxStep, Inbox!InboxNext, Inbox!Deliver
<1>q. QED
  BY <1>4, <1>5

\* the jobs a tool's report shows are over
LEMMA BuildReports ==
  ASSUME FullInv, OrderInv', NEW S, NEW W, BuildResult(S, W)
  PROVE  InboxStep
<1> DEFINE T == {j \in Over(S) : status[j] \in Finished}
<1>1. Tell(T) /\ UNCHANGED <<status, injected>>
  BY DEF BuildResult, recordVars
<1>2. \A j \in T : status[j] \in Finished
  OBVIOUS
<1> HIDE DEF T
<1>q. QED
  BY <1>1, <1>2, TellReports DEF FullInv

LEMMA ToolsRefine ==
  ASSUME FullInv, OrderInv', ToolSteps
  PROVE  InboxStep
<1>0. OrderInv
  BY DEF FullInv
<1>1. ASSUME NEW j \in Jobs, StartBackground(j) \/ StartBash(j) PROVE InboxStep
  BY <1>0, <1>1, RegisterBegins
  DEF StartBackground, StartBash, sessionVars, talkVars, FullInv, HoldInv
<1>2. CASE UNCHANGED <<status, told, injected>>
  BY <1>0, <1>2, ViewStays DEF InboxStep
<1>3. ASSUME NEW j \in Jobs, BashReturns(j) PROVE InboxStep
  <2> DEFINE T == {j} \ {k \in Jobs : status[k] = "cancelled"}
  <2>1. Tell(T) /\ UNCHANGED <<status, injected>> /\ j \in foreground
    BY <1>3 DEF BashReturns, mgrVars
  <2>2. CASE status[j] = "running"
    <3>1. T = {j}
      BY <2>2
    <3>q. QED
      BY <1>0, <2>1, <2>2, <3>1, AnswerShows
  <2>3. CASE status[j] # "running"
    <3>1. \A k \in T : status[k] \in Finished
      BY <1>0, <2>1, <2>3, RecordTypes DEF Statuses, Finished, OrderInv, ToolsKnowJobs
    <3> HIDE DEF T
    <3>q. QED
      BY <1>0, <2>1, <3>1, TellReports
  <2>q. QED
    BY <2>2, <2>3
<1>4. ASSUME NEW j \in Jobs, BashBackgrounds(j) PROVE InboxStep
  BY <1>2, <1>4 DEF BashBackgrounds, ResumeDeliveries, mgrVars, recordVars, talkVars
<1>5. ASSUME NEW j \in Jobs, BashAborts(j) PROVE InboxStep
  <2> DEFINE T == IF status[j] \in Finished THEN {j} ELSE {}
  <2>1. Tell(T) /\ UNCHANGED injected /\ table[idOf[j]] = j /\ j # None
    BY <1>5, InUseIs, JobsAssumption DEF BashAborts, FullInv, HoldInv, InUseListed
  <2>2. CASE status[j] # "running"
    <3>1. UNCHANGED status
      BY <1>5, <2>1, <2>2 DEF BashAborts, mgrVars
    <3>2. \A k \in T : status[k] \in Finished
      OBVIOUS
    <3> HIDE DEF T
    <3>q. QED
      BY <1>0, <2>1, <3>1, <3>2, TellReports
  <2>3. CASE status[j] = "running"
    <3>1. CancelJobs({j})
      BY <1>5, <2>1, <2>3 DEF BashAborts, Cancel
    <3>2. status' = [x \in Jobs |-> IF x \in {j} THEN "cancelled" ELSE status[x]]
      BY <3>1 DEF CancelJobs
    <3>3. status' = [status EXCEPT ![j] = "cancelled"]
      BY <1>0, <3>2, RecordTypes
    <3>4. T = {}
      BY <2>3 DEF Finished
    <3>5. told' = told
      BY <1>0, <2>1, <3>4, RecordTypes DEF Tell
    <3>q. QED
      BY <1>0, <2>1, <2>3, <3>3, <3>5, CancelVoids
  <2>q. QED
    BY <2>2, <2>3
<1>6. ASSUME NEW j \in Jobs, CancelTool(j) PROVE InboxStep
  BY <1>0, <1>6, CancelVoids DEF CancelTool, sessionVars
<1>7. ASSUME NEW S, ReadJobs(S) PROVE InboxStep
  BY <1>7, BuildReports DEF ReadJobs
<1>8. ASSUME NEW p \in Polls, PollReturns(p) PROVE InboxStep
  BY <1>8, BuildReports DEF PollReturns
<1>9. ASSUME NEW p \in Polls, NEW S, PollStarts(p, S) PROVE InboxStep
  BY <1>2, <1>9 DEF PollStarts, WatchJobs, recordVars, talkVars
<1>q. QED
  BY <1>1, <1>3, <1>4, <1>5, <1>6, <1>7, <1>8, <1>9 DEF ToolSteps

LEMMA NextRefines ==
  ASSUME FullInv, OrderInv', ResumeIsPrompt, [DeliveryNext]_vars
  PROVE  [Inbox!InboxNext]_(Inbox!inboxVars)
<1> SUFFICES InboxStep
  BY DEF InboxStep
<1>0. OrderInv
  BY DEF FullInv
<1>1. CASE UNCHANGED <<status, told, injected>>
  BY <1>0, <1>1, ViewStays DEF InboxStep
<1>2. ASSUME ManagerSteps PROVE InboxStep
  <2>1. UNCHANGED <<told, injected>>
    BY <1>2 DEF ManagerSteps, sessionVars
  <2>2. CASE LoopSteps
    BY <1>1, <2>1, <2>2 DEF LoopSteps, LoopWakes, LoopFinally, recordVars
  <2>3. ASSUME NEW j \in Jobs, MarkRunning(j) \/ CancelledRunSettles(j) PROVE InboxStep
    BY <1>1, <2>1, <2>3 DEF MarkRunning, CancelledRunSettles
  <2>q. QED
    BY <1>2, <2>1, <2>2, <2>3, RunSettlesFinishes DEF ManagerSteps, RunSteps
<1>3. ASSUME NEW i \in Ids, Evicts(i) PROVE InboxStep
  BY <1>1, <1>3 DEF Evicts, EvictionTimer, sessionVars
<1>4. ASSUME NEW c \in calls, CallDone(c) PROVE InboxStep
  BY <1>1, <1>4 DEF CallDone, CallSucceeds, CallEnds, recordVars, talkVars
<1>5. ASSUME IdleFlush \/ TurnSteps PROVE InboxStep
  <2>1. UNCHANGED status
    BY <1>5 DEF IdleFlush, TurnSteps, Prompt, ModelCallsTools, ToolsEnd, ModelStops, ModelFails,
                Settles, Abort, mgrVars
  <2>2. UNCHANGED <<told, injected>> \/ Inject(Survivors)
    BY <1>5 DEF IdleFlush, FlushQueue, TurnSteps, Prompt, ModelCallsTools, ToolsEnd, ModelStops,
                ModelFails, Settles, Abort, DrainAsides, talkVars
  <2>q. QED
    BY <1>1, <2>1, <2>2, InjectDelivers
<1>6. ASSUME UNCHANGED vars PROVE InboxStep
  BY <1>1, <1>6 DEF vars, mgrVars, sessionVars
<1>q. QED
  BY <1>2, <1>3, <1>4, <1>5, <1>6, ToolsRefine DEF DeliveryNext

LEMMA InitRefines == DeliveryInit => Inbox!InboxInit
<1> SUFFICES ASSUME DeliveryInit PROVE Inbox!InboxInit
  OBVIOUS
<1>1. \A j \in Jobs : View(status[j], told[j]) = "absent"
  BY DEF DeliveryInit, Init, View
<1>2. InboxResult = [j \in Jobs |-> "absent"]
  BY <1>1, InitOrder, InboxShows
<1>q. QED
  BY <1>2 DEF DeliveryInit, Inbox!InboxInit

(* The manager, the yield queue, the tools and the turn together implement   *)
(* the inbox: a result becomes known by the bash call that waits for it, or  *)
(* after its job finished, and is injected unasked only after that and only  *)
(* while the model does not know it, so at most once.                        *)
THEOREM DeliveryImplementsInbox ==
  ASSUME InTime, ResumeIsPrompt
  PROVE  DeliverySpec => ImplementsInbox
<1>1. FullInv /\ FullInv' /\ [DeliveryNext]_vars => [Inbox!InboxNext]_(Inbox!inboxVars)
  BY NextRefines DEF FullInv
<1>q. QED
  BY <1>1, InitRefines, DeliveryInvHolds, PTL DEF DeliverySpec, ImplementsInbox, Inbox!InboxSpec

----------------------------------------------------------------------------
(* What follows. *)

\* an injected result is known, and was injected once
InjectedIsKnown ==
  \A j \in Jobs : injected[j] = 0 \/ (injected[j] = 1 /\ InboxResult[j] = "known")

\* the text of no result is injected twice
InjectedOnce == \A j \in Jobs : injected[j] <= 1

\* the abstract specification alone is the reason
LEMMA InboxInjectsOnce ==
  ASSUME InjectedIsKnown, [Inbox!InboxNext]_(Inbox!inboxVars)
  PROVE  InjectedIsKnown'
<1>1. CASE UNCHANGED Inbox!inboxVars
  BY <1>1 DEF InjectedIsKnown, Inbox!inboxVars
<1>2. ASSUME NEW S, NEW from, NEW to, from # "known", Inbox!Become(S, from, to),
             \/ UNCHANGED injected
             \/ /\ to = "known"
                /\ injected' = [j \in Jobs |-> IF j \in S THEN injected[j] + 1 ELSE injected[j]]
      PROVE  InjectedIsKnown'
  <2>1. SUFFICES ASSUME NEW j \in Jobs
                 PROVE  injected'[j] = 0 \/ (injected'[j] = 1 /\ InboxResult'[j] = "known")
    BY DEF InjectedIsKnown
  <2>2. InboxResult'[j] = IF j \in S THEN to ELSE InboxResult[j]
    BY <1>2 DEF Inbox!Become
  <2>3. CASE j \in S
    <3>1. InboxResult[j] = from /\ injected[j] = 0
      BY <1>2, <2>3 DEF Inbox!Become, InjectedIsKnown
    <3>q. QED
      BY <1>2, <2>2, <2>3, <3>1
  <2>4. CASE j \notin S
    BY <1>2, <2>2, <2>4 DEF InjectedIsKnown
  <2>q. QED
    BY <2>3, <2>4
<1>3. CASE Inbox!InboxNext
  BY <1>2, <1>3 DEF Inbox!InboxNext, Inbox!Begin, Inbox!Finish, Inbox!Answer, Inbox!Void,
                    Inbox!Report, Inbox!Deliver
<1>q. QED
  BY <1>1, <1>3

(* No result is injected twice, whatever is told, muted, staged or resumed   *)
(* in between: "so the result is still delivered exactly once".              *)
THEOREM NoResultInjectedTwice ==
  ASSUME InTime, ResumeIsPrompt
  PROVE  DeliverySpec => []InjectedOnce
<1>1. DeliveryInit => InjectedIsKnown
  BY DEF DeliveryInit, InjectedIsKnown
<1>2. InjectedIsKnown => InjectedOnce
  BY DEF InjectedIsKnown, InjectedOnce
<1>q. QED
  BY <1>1, <1>2, InboxInjectsOnce, DeliveryImplementsInbox, PTL
  DEF DeliverySpec, ImplementsInbox, Inbox!InboxSpec

(* What the manager promises any client it promises its real callers: its    *)
(* deliveries are driven, single, and of finished jobs.                      *)
THEOREM DeliveriesStayInOrder ==
  DeliverySpec => [](DeliveriesDriven /\ OneDeliveryPerJob /\ OnlyFinishedDelivered)
<1>1. OrderInv => DeliveriesDriven /\ OneDeliveryPerJob /\ OnlyFinishedDelivered
  BY DEF OrderInv, QueueInv
<1>q. QED
  BY <1>1, OrderHolds, PTL

(* A running job stays in the table under the tools and the session too, so  *)
(* that a poll, a cancel and the abort of a foreground wait can reach it.    *)
THEOREM ToolsReachRunningJobs ==
  ASSUME InTime
  PROVE  DeliverySpec => []RunningListed
<1>1. FullInv => RunningListed
  BY DEF FullInv, IInv
<1>q. QED
  BY <1>1, DeliveryInvHolds, PTL
=============================================================================
