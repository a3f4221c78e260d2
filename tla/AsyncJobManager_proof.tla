----------------------- MODULE AsyncJobManager_proof -----------------------
(***************************************************************************)
(* Proofs about AsyncJobManager: with retention and with runs that obey     *)
(* their abort signal before their record expires, no running job ever      *)
(* leaves the table, so dispose stops them all, and no more jobs run than   *)
(* the limit on registrations and the permits of each task tool allow.      *)
(***************************************************************************)
EXTENDS AsyncJobManager, FiniteSetTheorems, TLAPS

\* an id is set exactly when the job was registered, and records know their id
IdsAgree ==
  /\ \A j \in Jobs : status[j] = "new" <=> idOf[j] = 0
  /\ \A i \in Ids : table[i] # None => idOf[table[i]] = i

\* a job is new or running only before its run settles, and finished only after
RunningUnsettled ==
  \A j \in Jobs : /\ status[j] \in {"new", "running"} => ~settled[j]
                  /\ status[j] \in Finished => settled[j]

\* until everything is cleared, a timer's id is held, and not by a running job
TimersSpareRunning ==
  phase # "closed" =>
    \A i \in timers : table[i] # None /\ status[table[i]] # "running"

\* a cancelled job whose run goes on keeps its id until everything is cleared
CancelledKeepsId ==
  phase # "closed" =>
    \A j \in Jobs : status[j] = "cancelled" /\ ~settled[j] => table[idOf[j]] = j

\* the inductive invariant
IInv ==
  /\ RecordsOK
  /\ IdsAgree
  /\ RunningUnsettled
  /\ TimersSpareRunning
  /\ CancelledKeepsId
  /\ RunningListed
  /\ DisposeCancelsAll

(* The assumption on time under which the table is safe.                     *)
Timely == Retains /\ AbortIsPrompt

LEMMA InitIInv == Init => IInv
BY JobsAssumption
DEF Init, IInv, RecordsOK, IdsAgree, RunningUnsettled, TimersSpareRunning, CancelledKeepsId,
    RunningListed, DisposeCancelsAll, Statuses, Ids, Finished

(* Steps that leave the job records and the phase alone: those of the        *)
(* delivery loop, of the callbacks, of the drain and of the muting methods.  *)
LEMMA OthersIInv ==
  ASSUME IInv, UNCHANGED <<recordVars, disposeVars>>
  PROVE  IInv'
BY DEF IInv, RecordsOK, IdsAgree, RunningUnsettled, TimersSpareRunning, CancelledKeepsId,
       RunningListed, DisposeCancelsAll, recordVars, disposeVars

(* A job's id is a key of the table from its registration on.                *)
LEMMA RegisteredId ==
  ASSUME IInv, NEW j \in Jobs, status[j] # "new"
  PROVE  idOf[j] \in Ids
BY DEF IInv, RecordsOK, IdsAgree

(* A new record takes a free id, so it takes it from no one, and no timer is *)
(* pending on a free id.                                                     *)
LEMMA RegisterIInv ==
  ASSUME IInv, NEW j \in Jobs, NEW ack \in BOOLEAN, Register(j, ack)
  PROVE  IInv'
<1>1. PICK i \in Ids : /\ table[i] = None
                       /\ idOf' = [idOf EXCEPT ![j] = i]
                       /\ table' = [table EXCEPT ![i] = j]
  BY DEF Register
<1>2. /\ phase = "live" /\ status[j] = "new"
      /\ status' = [status EXCEPT ![j] = "running"]
      /\ queued' = [queued EXCEPT ![j] = j \in Spawns]
      /\ UNCHANGED <<settled, timers, phase, waitFor>>
  BY DEF Register
<1>3. /\ 0 \notin Ids /\ None \notin Jobs
      /\ \A k \in Jobs : status[k] # "new" => idOf[k] \in Ids
  BY RegisteredId, JobsAssumption DEF Ids
<1>4. RecordsOK'
  BY <1>1, <1>2 DEF IInv, RecordsOK, Statuses
<1>5. IdsAgree'
  <2>1. ASSUME NEW k \in Jobs PROVE (status[k] = "new" <=> idOf[k] = 0)'
    BY <1>1, <1>2, <1>3 DEF IInv, RecordsOK, IdsAgree
  <2>2. ASSUME NEW n \in Ids, table'[n] # None PROVE idOf'[table'[n]] = n
    <3>1. CASE n = i
      BY <3>1, <1>1 DEF IInv, RecordsOK
    <3>2. CASE n # i
      <4>1. table'[n] = table[n] /\ table[n] \in Jobs /\ idOf[table[n]] = n
        BY <3>2, <1>1, <2>2 DEF IInv, RecordsOK, IdsAgree
      <4>2. idOf[j] = 0
        BY <1>2 DEF IInv, IdsAgree
      <4>q. QED
        BY <4>1, <4>2, <1>1, <1>3 DEF IInv, RecordsOK
    <3>q. QED
      BY <3>1, <3>2
  <2>q. QED
    BY <2>1, <2>2 DEF IdsAgree
<1>6. RunningUnsettled'
  BY <1>2 DEF IInv, RecordsOK, RunningUnsettled, Finished
<1>7. TimersSpareRunning'
  <2>1. ASSUME NEW n \in timers PROVE table'[n] # None /\ status'[table'[n]] # "running"
    <3>1. n \in Ids /\ table[n] # None /\ status[table[n]] # "running"
      BY <1>2, <2>1 DEF IInv, RecordsOK, TimersSpareRunning
    <3>2. table[n] \in Jobs /\ idOf[table[n]] = n /\ idOf[j] = 0
      BY <3>1, <1>2 DEF IInv, RecordsOK, IdsAgree
    <3>q. QED
      BY <3>1, <3>2, <1>1, <1>2, <1>3 DEF IInv, RecordsOK
  <2>q. QED
    BY <2>1, <1>2 DEF TimersSpareRunning
<1>8. CancelledKeepsId' /\ RunningListed'
  <2>1. ASSUME NEW k \in Jobs, k # j, status[k] # "new", table[idOf[k]] = k
        PROVE  table'[idOf'[k]] = k
    BY <2>1, <1>1, <1>3 DEF IInv, RecordsOK
  <2>2. table'[idOf'[j]] = j
    BY <1>1 DEF IInv, RecordsOK
  <2>3. \A k \in Jobs : k # j => status'[k] = status[k]
    BY <1>2 DEF IInv, RecordsOK
  <2>4. CancelledKeepsId'
    BY <2>1, <2>2, <2>3, <1>2 DEF IInv, CancelledKeepsId
  <2>5. RunningListed'
    BY <2>1, <2>2, <2>3 DEF IInv, RunningListed
  <2>q. QED
    BY <2>4, <2>5
<1>9. DisposeCancelsAll'
  BY <1>2 DEF DisposeCancelsAll
<1>q. QED
  BY <1>4, <1>5, <1>6, <1>7, <1>8, <1>9 DEF IInv

(* The records that a status change of jobs, all of them listed, and the     *)
(* retention timers it starts leave alone.                                   *)
LEMMA SettleOrCancelIInv ==
  ASSUME IInv, NEW S \in SUBSET Jobs, NEW st \in Statuses \ {"new", "running"},
         NEW over \in BOOLEAN,
         \A j \in S : status[j] \in {"running", "cancelled"} /\ ~settled[j],
         st = "cancelled" \/ over,
         status' = [j \in Jobs |-> IF j \in S THEN st ELSE status[j]],
         settled' = [j \in Jobs |-> settled[j] \/ (over /\ j \in S)],
         timers' = timers \cup {idOf[j] : j \in S},
         UNCHANGED <<queued, idOf, table, disposeVars>>
  PROVE  IInv'
<1>1. \A j \in Jobs : status[j] # "new" => idOf[j] \in Ids
  BY RegisteredId
<1>2. RecordsOK'
  BY <1>1 DEF IInv, RecordsOK, disposeVars
<1>3. IdsAgree'
  BY DEF IInv, RecordsOK, IdsAgree, Statuses
<1>4. RunningUnsettled'
  BY DEF IInv, RecordsOK, RunningUnsettled, Statuses, Finished
<1>5. TimersSpareRunning'
  <2>1. ASSUME NEW n \in timers', phase # "closed"
        PROVE  table[n] # None /\ status'[table[n]] # "running"
    <3>1. CASE n \in timers
      BY <2>1, <3>1 DEF IInv, RecordsOK, TimersSpareRunning, Statuses
    <3>2. CASE n \notin timers
      <4>1. PICK j \in S : n = idOf[j]
        BY <2>1, <3>2
      <4>2. table[n] = j
        BY <2>1, <4>1 DEF IInv, CancelledKeepsId, RunningListed
      <4>q. QED
        BY <4>1, <4>2, JobsAssumption
    <3>q. QED
      BY <3>1, <3>2
  <2>q. QED
    BY <2>1 DEF TimersSpareRunning, disposeVars
<1>6. CancelledKeepsId' /\ RunningListed'
  BY DEF IInv, RecordsOK, CancelledKeepsId, RunningListed, Statuses, disposeVars
<1>7. DisposeCancelsAll'
  BY DEF IInv, RecordsOK, DisposeCancelsAll, Statuses, disposeVars
<1>q. QED
  BY <1>2, <1>3, <1>4, <1>5, <1>6, <1>7 DEF IInv

LEMMA RunSettlesIInv ==
  ASSUME IInv, Timely, NEW j \in Jobs, NEW o \in Finished, RunSettles(j, o)
  PROVE  IInv'
<1> DEFINE S == {j}
<1>0. S \in SUBSET Jobs /\ \A k \in S : status[k] = "running" /\ ~settled[k]
  BY DEF RunSettles, CanSettle
<1>1. /\ o \in Statuses \ {"new", "running"}
      /\ timers' = timers \cup {idOf[k] : k \in S}
      /\ UNCHANGED <<queued, idOf, table, disposeVars>>
  BY DEF RunSettles, CanSettle, ScheduleEviction, Timely, Finished, Statuses
<1>2. /\ status' = [k \in Jobs |-> IF k \in S THEN o ELSE status[k]]
      /\ settled' = [k \in Jobs |-> settled[k] \/ (TRUE /\ k \in S)]
  BY DEF RunSettles, IInv, RecordsOK
<1> HIDE DEF S
<1>q. QED
  BY <1>0, <1>1, <1>2, SettleOrCancelIInv

LEMMA CancelledRunSettlesIInv ==
  ASSUME IInv, Timely, NEW j \in Jobs, CancelledRunSettles(j)
  PROVE  IInv'
<1> DEFINE S == {j}
<1>0. S \in SUBSET Jobs /\ \A k \in S : status[k] = "cancelled" /\ ~settled[k]
  BY DEF CancelledRunSettles, CanSettle
<1>1. /\ "cancelled" \in Statuses \ {"new", "running"}
      /\ timers' = timers \cup {idOf[k] : k \in S}
      /\ UNCHANGED <<queued, idOf, table, disposeVars>>
  BY DEF CancelledRunSettles, CanSettle, ScheduleEviction, Timely, Statuses
<1>2. /\ status' = [k \in Jobs |-> IF k \in S THEN "cancelled" ELSE status[k]]
      /\ settled' = [k \in Jobs |-> settled[k] \/ (TRUE /\ k \in S)]
  BY DEF CancelledRunSettles, CanSettle, IInv, RecordsOK
<1> HIDE DEF S
<1>q. QED
  BY <1>0, <1>1, <1>2, SettleOrCancelIInv

LEMMA CancelJobsIInv ==
  ASSUME IInv, Timely, NEW S \in SUBSET Jobs, \A j \in S : status[j] = "running",
         CancelJobs(S)
  PROVE  IInv'
<1>1. /\ \A j \in S : status[j] \in {"running", "cancelled"} /\ ~settled[j]
      /\ "cancelled" \in Statuses \ {"new", "running"}
      /\ status' = [k \in Jobs |-> IF k \in S THEN "cancelled" ELSE status[k]]
      /\ timers' = timers \cup {idOf[k] : k \in S}
      /\ UNCHANGED <<queued, idOf, table, disposeVars>>
  BY DEF CancelJobs, ScheduleEviction, Timely, Statuses, IInv, RunningUnsettled
<1>2. settled' = [k \in Jobs |-> settled[k] \/ (FALSE /\ k \in S)]
  BY DEF CancelJobs, IInv, RecordsOK
<1>q. QED
  BY <1>1, <1>2, SettleOrCancelIInv

(* A timer takes a record away only when the job's run is over: here the     *)
(* assumption that runs obey their abort signal in time is used.             *)
LEMMA EvictionTimerIInv ==
  ASSUME IInv, Timely, NEW i \in Ids, EvictionTimer(i)
  PROVE  IInv'
<1>1. /\ i \in timers /\ timers' = timers \ {i}
      /\ table' = [table EXCEPT ![i] = None]
      /\ UNCHANGED <<status, queued, settled, idOf, disposeVars>>
      /\ \A j \in Jobs : status[j] = "cancelled" /\ idOf[j] = i => settled[j]
  BY DEF EvictionTimer, Timely
<1>2. \A j \in Jobs : status[j] # "new" => idOf[j] \in Ids
  BY RegisteredId
<1>3. RecordsOK'
  BY <1>1 DEF IInv, RecordsOK, disposeVars
<1>4. IdsAgree'
  BY <1>1 DEF IInv, RecordsOK, IdsAgree
<1>5. RunningUnsettled' /\ DisposeCancelsAll'
  BY <1>1 DEF IInv, RunningUnsettled, DisposeCancelsAll, disposeVars
<1>6. TimersSpareRunning'
  BY <1>1 DEF IInv, RecordsOK, TimersSpareRunning, disposeVars
<1>7. CancelledKeepsId'
  BY <1>1, <1>2 DEF IInv, RecordsOK, CancelledKeepsId, disposeVars
<1>8. RunningListed'
  <2>1. SUFFICES ASSUME NEW j \in Jobs, status[j] = "running" PROVE table'[idOf[j]] = j
    BY <1>1 DEF RunningListed
  <2>2. phase = "live" /\ table[idOf[j]] = j /\ idOf[j] \in Ids
    BY <2>1, <1>2 DEF IInv, DisposeCancelsAll, RunningListed
  <2>3. idOf[j] # i
    BY <2>1, <2>2, <1>1 DEF IInv, TimersSpareRunning
  <2>q. QED
    BY <2>2, <2>3, <1>1 DEF IInv, RecordsOK
<1>q. QED
  BY <1>3, <1>4, <1>5, <1>6, <1>7, <1>8 DEF IInv

(* dispose looks for running jobs in the table only: RunningListed is what   *)
(* makes it find them all.                                                   *)
LEMMA DisposeBeginsIInv ==
  ASSUME IInv, Timely, DisposeBegins
  PROVE  IInv'
<1>1. /\ phase = "live" /\ phase' = "waiting"
      /\ status' = [j \in Jobs |-> IF j \in AllRunning THEN "cancelled" ELSE status[j]]
      /\ timers' = {idOf[j] : j \in AllRunning}
      /\ waitFor' = {table'[i] : i \in Ids} \ {None}
      /\ UNCHANGED <<queued, settled, idOf, table>>
  BY DEF DisposeBegins, Timely
<1>2. \A j \in Jobs : status[j] # "new" => idOf[j] \in Ids
  BY RegisteredId
<1>3. \A j \in Jobs : status[j] = "running" <=> j \in AllRunning
  <2>1. ASSUME NEW j \in Jobs, status[j] = "running" PROVE j \in AllRunning
    BY <2>1, <1>2, JobsAssumption DEF IInv, RunningListed, AllRunning, Listed, RecordsOK
  <2>q. QED
    BY <2>1 DEF AllRunning
<1>4. AllRunning \subseteq Jobs
  BY DEF AllRunning, Listed, IInv, RecordsOK
<1>5. RecordsOK'
  BY <1>1, <1>2, <1>3, <1>4 DEF IInv, RecordsOK, Statuses
<1>6. IdsAgree' /\ RunningUnsettled' /\ RunningListed' /\ DisposeCancelsAll'
  BY <1>1, <1>3, <1>4
  DEF IInv, RecordsOK, IdsAgree, RunningUnsettled, RunningListed, DisposeCancelsAll, Statuses,
      Finished
<1>7. TimersSpareRunning'
  <2>1. SUFFICES ASSUME NEW j \in AllRunning
                 PROVE  table[idOf[j]] # None /\ status'[table[idOf[j]]] # "running"
    BY <1>1 DEF TimersSpareRunning
  <2>2. table[idOf[j]] = j /\ j \in Jobs
    BY <1>3, <1>4 DEF IInv, RunningListed
  <2>q. QED
    BY <2>2, <1>1, JobsAssumption
<1>8. CancelledKeepsId'
  BY <1>1, <1>3, <1>4 DEF IInv, RecordsOK, CancelledKeepsId, RunningListed
<1>q. QED
  BY <1>5, <1>6, <1>7, <1>8 DEF IInv

LEMMA DisposeRestIInv ==
  ASSUME IInv, DisposeWaited \/ DisposeEnds
  PROVE  IInv'
<1>1. CASE DisposeWaited
  BY <1>1 DEF DisposeWaited, IInv, RecordsOK, IdsAgree, RunningUnsettled, TimersSpareRunning,
              CancelledKeepsId, RunningListed, DisposeCancelsAll, recordVars
<1>2. CASE DisposeEnds
  BY <1>2 DEF DisposeEnds, IInv, RecordsOK, IdsAgree, RunningUnsettled, TimersSpareRunning,
              CancelledKeepsId, RunningListed, DisposeCancelsAll
<1>q. QED
  BY <1>1, <1>2

(* Every step keeps the invariant: the steps that touch the records have a   *)
(* lemma each, the others change neither the records nor the phase.          *)
LEMMA NextIInv ==
  ASSUME IInv, Timely, [Next]_mgrVars
  PROVE  IInv'
<1>1. CASE RunSteps
  <2>1. ASSUME NEW j \in Jobs, MarkRunning(j) PROVE IInv'
    BY <2>1 DEF MarkRunning, IInv, RecordsOK, IdsAgree, RunningUnsettled, TimersSpareRunning,
                CancelledKeepsId, RunningListed, DisposeCancelsAll, disposeVars
  <2>q. QED
    BY <1>1, <2>1, RunSettlesIInv, CancelledRunSettlesIInv DEF RunSteps
<1>2. CASE LoopSteps
  <2>1. UNCHANGED <<recordVars, disposeVars>>
    BY <1>2 DEF LoopSteps, LoopWakes, LoopFinally
  <2>q. QED
    BY <2>1, OthersIInv
<1>3. CASE DrainSteps
  <2>1. UNCHANGED <<recordVars, disposeVars>>
    BY <1>3 DEF DrainSteps, DrainDelivers, DrainWaitsOrEnds, DrainResumes, DrainTimesOut
  <2>q. QED
    BY <2>1, OthersIInv
<1>4. CASE \E i \in Ids : EvictionTimer(i)
  BY <1>4, EvictionTimerIInv
<1>5. CASE \E c \in calls : CallSucceeds(c) \/ CallFails(c)
  <2>1. UNCHANGED <<recordVars, disposeVars>>
    BY <1>5 DEF CallSucceeds, CallFails, CallEnds
  <2>q. QED
    BY <2>1, OthersIInv
<1>6. CASE Client
  <2>1. ASSUME NEW j \in Jobs, Register(j, FALSE) PROVE IInv'
    BY <2>1, RegisterIInv
  <2>2. ASSUME NEW j \in Jobs, Cancel(j) PROVE IInv'
    BY <2>2, CancelJobsIInv DEF Cancel
  <2>3. ASSUME NEW own \in Owners, CancelAll(own) PROVE IInv'
    BY <2>3, CancelJobsIInv DEF CancelAll, RunningOf, AllRunning, Listed, IInv, RecordsOK
  <2>4. ASSUME NEW own \in Owners, DrainStarts(own) PROVE IInv'
    BY <2>4, OthersIInv DEF DrainStarts
  <2>5. ASSUME NEW i \in Ids,
               \/ WatchJobs({i}) \/ UnwatchJobs({i})
               \/ AcknowledgeDeliveries({i}) \/ ResumeDeliveries(i)
        PROVE  IInv'
    BY <2>5, OthersIInv DEF WatchJobs, UnwatchJobs, AcknowledgeDeliveries, ResumeDeliveries
  <2>q. QED
    BY <1>6, <2>1, <2>2, <2>3, <2>4, <2>5 DEF Client
<1>7. CASE Dispose
  BY <1>7, DisposeBeginsIInv, DisposeRestIInv DEF Dispose
<1>8. CASE UNCHANGED mgrVars
  BY <1>8, OthersIInv DEF mgrVars, recordVars, disposeVars
<1>q. QED
  BY <1>1, <1>2, <1>3, <1>4, <1>5, <1>6, <1>7, <1>8 DEF Next

(* The inductive invariant holds of the manager, however many jobs, ids,     *)
(* owners and slots there are, when records are retained and runs obey their *)
(* abort signal before their record expires.                                 *)
THEOREM InvariantHolds ==
  ASSUME Timely
  PROVE  Spec => []IInv
<1>1. Init => IInv
  BY InitIInv
<1>2. IInv /\ [Next]_mgrVars => IInv'
  BY NextIInv
<1>q. QED
  BY <1>1, <1>2, PTL DEF Spec

(* Every running job stays in the table under its id: no retention timer and *)
(* no reuse of an id takes it out of the reach of cancel and dispose.        *)
THEOREM RunningJobsStayListed ==
  ASSUME Timely
  PROVE  Spec => []RunningListed
<1>1. IInv => RunningListed
  BY DEF IInv
<1>q. QED
  BY <1>1, InvariantHolds, PTL

(* Once dispose has begun no job is left running: "with no filter, cancels   *)
(* every running job".                                                       *)
THEOREM DisposeLeavesNoneRunning ==
  ASSUME Timely
  PROVE  Spec => []DisposeCancelsAll
<1>1. IInv => DisposeCancelsAll
  BY DEF IInv
<1>q. QED
  BY <1>1, InvariantHolds, PTL

----------------------------------------------------------------------------
(* The number of jobs that run. *)

\* running jobs that did not pass through a spawn semaphore
Direct == {j \in Jobs \ Spawns : status[j] = "running"}

\* the two halves of the bound; only spawns are ever queued
BoundInv ==
  /\ \A j \in Jobs \ Spawns : ~queued[j]
  /\ Cardinality(Direct) <= MaxRunningJobs
  /\ \A t \in TaskTools : Cardinality(Holding(t)) <= SpawnSlots[t]

(* A step that makes no further job run.                                     *)
NoneStarts ==
  \A j \in Jobs :
    /\ status'[j] = "running" => status[j] = "running"
    /\ status'[j] # "new" => status[j] # "new"
    /\ ~queued'[j] => ~queued[j]
    /\ ~settled'[j] => ~settled[j]
    /\ j \notin Spawns => queued'[j] = queued[j]

LEMMA SubsetBound ==
  ASSUME NEW S \in SUBSET Jobs, NEW T \in SUBSET S, IsFiniteSet(Jobs), NEW n \in Nat,
         Cardinality(S) <= n
  PROVE  Cardinality(T) <= n
<1>1. IsFiniteSet(S)
  BY FS_Subset
<1>2. IsFiniteSet(T) /\ Cardinality(T) <= Cardinality(S)
  BY <1>1, FS_Subset
<1>3. Cardinality(S) \in Nat /\ Cardinality(T) \in Nat
  BY <1>1, <1>2, FS_CardinalityType
<1>q. QED
  BY <1>2, <1>3

LEMMA OneMoreBound ==
  ASSUME NEW S \in SUBSET Jobs, NEW x, NEW T \in SUBSET (S \cup {x}), IsFiniteSet(Jobs),
         NEW n \in Nat, Cardinality(S) < n
  PROVE  Cardinality(T) <= n
<1>1. IsFiniteSet(S)
  BY FS_Subset
<1>2. Cardinality(S) \in Nat
  BY <1>1, FS_CardinalityType
<1>3. IsFiniteSet(S \cup {x}) /\ Cardinality(S \cup {x}) <= n
  <2>1. /\ IsFiniteSet(S \cup {x})
        /\ \/ Cardinality(S \cup {x}) = Cardinality(S)
           \/ Cardinality(S \cup {x}) = Cardinality(S) + 1
    BY <1>1, FS_AddElement, Zenon
  <2>q. QED
    BY <1>2, <2>1
<1>4. IsFiniteSet(T) /\ Cardinality(T) <= Cardinality(S \cup {x})
  BY <1>3, FS_Subset
<1>5. Cardinality(S \cup {x}) \in Nat /\ Cardinality(T) \in Nat
  BY <1>3, <1>4, FS_CardinalityType
<1>q. QED
  BY <1>3, <1>4, <1>5

LEMMA HoldingJobs ==
  /\ Direct \in SUBSET Jobs
  /\ \A t \in TaskTools : Holding(t) \in SUBSET Jobs /\ SpawnSlots[t] \in Nat \ {0}
BY JobsAssumption, LimitsAssumption DEF Holding, Direct

(* Fewer jobs hold permits of any tool.                                      *)
LEMMA FewerHold ==
  ASSUME IsFiniteSet(Jobs), BoundInv,
         \A t \in TaskTools : Holding(t)' \in SUBSET Holding(t)
  PROVE  \A t \in TaskTools : Cardinality(Holding(t)') <= SpawnSlots[t]
<1>1. SUFFICES ASSUME NEW t \in TaskTools
               PROVE  Cardinality(Holding(t)') <= SpawnSlots[t]
  OBVIOUS
<1>2. /\ Holding(t) \in SUBSET Jobs /\ SpawnSlots[t] \in Nat
      /\ Cardinality(Holding(t)) <= SpawnSlots[t]
      /\ Holding(t)' \in SUBSET Holding(t)
  BY HoldingJobs DEF BoundInv
<1>q. QED
  BY <1>2, SubsetBound

LEMMA NoneStartsKeeps ==
  ASSUME IsFiniteSet(Jobs), BoundInv, NoneStarts
  PROVE  BoundInv'
<1>1. Direct' \in SUBSET Direct
  BY DEF Direct, NoneStarts
<1>2. \A t \in TaskTools : Holding(t)' \in SUBSET Holding(t)
  BY JobsAssumption DEF Holding, NoneStarts
<1>3. Cardinality(Direct') <= MaxRunningJobs
  BY <1>1, SubsetBound, HoldingJobs, LimitsAssumption DEF BoundInv
<1>4. \A t \in TaskTools : Cardinality(Holding(t)') <= SpawnSlots[t]
  BY <1>2, FewerHold
<1>q. QED
  BY <1>3, <1>4 DEF BoundInv, NoneStarts

(* A permit is taken only while the tool has a free one; other tools keep    *)
(* theirs.                                                                   *)
LEMMA MarkRunningBound ==
  ASSUME IInv, IsFiniteSet(Jobs), BoundInv, NEW j \in Jobs, MarkRunning(j)
  PROVE  BoundInv'
<1>1. /\ PermitFree(ToolOf[j]) /\ queued[j]
      /\ queued' = [queued EXCEPT ![j] = FALSE]
      /\ UNCHANGED <<status, settled>>
  BY DEF MarkRunning
<1>2. j \in Spawns
  BY <1>1 DEF BoundInv
<1>3. ASSUME NEW t \in TaskTools
      PROVE  Cardinality(Holding(t)') <= SpawnSlots[t]
  <2>1. CASE t = ToolOf[j]
    <3>1. Holding(t)' \in SUBSET (Holding(t) \cup {j})
      BY <1>1, JobsAssumption DEF Holding, IInv, RecordsOK
    <3>2. Cardinality(Holding(t)) < SpawnSlots[t]
      BY <1>1, <2>1 DEF PermitFree
    <3>q. QED
      BY <3>1, <3>2, OneMoreBound, HoldingJobs
  <2>2. CASE t # ToolOf[j]
    <3>1. Holding(t)' \in SUBSET Holding(t)
      BY <1>1, <2>2, JobsAssumption DEF Holding, IInv, RecordsOK
    <3>q. QED
      BY <3>1, SubsetBound, HoldingJobs DEF BoundInv
  <2>q. QED
    BY <2>1, <2>2
<1>4. Direct' = Direct
  BY <1>1 DEF Direct
<1>5. \A k \in Jobs \ Spawns : ~queued'[k]
  BY <1>1 DEF BoundInv, IInv, RecordsOK
<1>q. QED
  BY <1>3, <1>4, <1>5 DEF BoundInv

(* register counts the running jobs of its table, and RunningListed says     *)
(* that those are all.                                                       *)
LEMMA DirectIsActive ==
  ASSUME IInv, BoundInv
  PROVE  Direct \in SUBSET Active
<1>1. SUFFICES ASSUME NEW j \in Direct PROVE j \in Active
  OBVIOUS
<1>2. j \in Jobs \ Spawns /\ status[j] = "running" /\ ~queued[j]
  BY DEF Direct, BoundInv
<1>3. idOf[j] \in Ids /\ table[idOf[j]] = j
  BY <1>2, RegisteredId DEF IInv, RunningListed
<1>4. j \in Listed
  BY <1>2, <1>3, JobsAssumption DEF Listed
<1>q. QED
  BY <1>2, <1>4 DEF Active

LEMMA RegisterBound ==
  ASSUME IInv, IsFiniteSet(Jobs), BoundInv, NEW j \in Jobs, Register(j, FALSE)
  PROVE  BoundInv'
<1>1. /\ status[j] = "new" /\ status' = [status EXCEPT ![j] = "running"]
      /\ queued' = [queued EXCEPT ![j] = j \in Spawns]
      /\ Cardinality(Active) < MaxRunningJobs
      /\ UNCHANGED settled
  BY DEF Register
<1>2. \A k \in Jobs \ Spawns : ~queued'[k]
  BY <1>1 DEF BoundInv, IInv, RecordsOK
<1>3. \A t \in TaskTools : Holding(t)' \in SUBSET Holding(t)
  BY <1>1, JobsAssumption DEF Holding, IInv, RecordsOK
<1>4. \A t \in TaskTools : Cardinality(Holding(t)') <= SpawnSlots[t]
  BY <1>3, FewerHold
<1>5. Active \in SUBSET Jobs /\ Direct' \in SUBSET (Active \cup {j})
  <2>1. Direct' \in SUBSET (Direct \cup {j})
    BY <1>1 DEF Direct, IInv, RecordsOK
  <2>2. Active \in SUBSET Jobs
    BY DEF Active, Listed, IInv, RecordsOK
  <2>q. QED
    BY <2>1, <2>2, DirectIsActive
<1>6. Cardinality(Direct') <= MaxRunningJobs
  BY <1>1, <1>5, OneMoreBound, LimitsAssumption
<1>q. QED
  BY <1>2, <1>4, <1>6 DEF BoundInv

LEMMA NextBound ==
  ASSUME IInv, IsFiniteSet(Jobs), BoundInv, [Next]_mgrVars
  PROVE  BoundInv'
<1>1. ASSUME NEW j \in Jobs, NEW o \in Finished, RunSettles(j, o) PROVE NoneStarts
  BY <1>1 DEF RunSettles, CanSettle, NoneStarts, IInv, RecordsOK, Finished
<1>2. ASSUME NEW j \in Jobs, CancelledRunSettles(j) PROVE NoneStarts
  BY <1>2 DEF CancelledRunSettles, NoneStarts, IInv, RecordsOK
<1>3. ASSUME NEW S \in SUBSET AllRunning, CancelJobs(S) PROVE NoneStarts
  BY <1>3 DEF CancelJobs, AllRunning, NoneStarts
<1>4. CASE LoopSteps \/ DrainSteps \/ \E c \in calls : CallSucceeds(c) \/ CallFails(c)
  <2>1. UNCHANGED <<status, queued, settled>>
    BY <1>4 DEF LoopSteps, LoopWakes, LoopFinally, DrainSteps, DrainDelivers, DrainWaitsOrEnds,
                DrainResumes, DrainTimesOut, CallSucceeds, CallFails, CallEnds, recordVars
  <2>q. QED
    BY <2>1, NoneStartsKeeps DEF NoneStarts
<1>5. CASE \E i \in Ids : \/ EvictionTimer(i) \/ WatchJobs({i}) \/ UnwatchJobs({i})
                          \/ AcknowledgeDeliveries({i}) \/ ResumeDeliveries(i)
  <2>1. UNCHANGED <<status, queued, settled>>
    BY <1>5 DEF EvictionTimer, WatchJobs, UnwatchJobs, AcknowledgeDeliveries, ResumeDeliveries,
                recordVars
  <2>q. QED
    BY <2>1, NoneStartsKeeps DEF NoneStarts
<1>6. CASE Dispose
  <2>1. NoneStarts
    BY <1>6 DEF Dispose, DisposeBegins, DisposeWaited, DisposeEnds, NoneStarts, recordVars,
                AllRunning
  <2>q. QED
    BY <2>1, NoneStartsKeeps
<1>7. CASE RunSteps
  BY <1>7, <1>1, <1>2, NoneStartsKeeps, MarkRunningBound DEF RunSteps
<1>8. ASSUME NEW j \in Jobs, Cancel(j) PROVE BoundInv'
  <2>1. {j} \in SUBSET AllRunning /\ CancelJobs({j})
    BY <1>8 DEF Cancel, AllRunning
  <2>q. QED
    BY <2>1, <1>3, NoneStartsKeeps
<1>9. ASSUME NEW own \in Owners, CancelAll(own) \/ DrainStarts(own) PROVE BoundInv'
  <2>1. CASE CancelAll(own)
    <3>1. RunningOf(own) \in SUBSET AllRunning /\ CancelJobs(RunningOf(own))
      BY <2>1 DEF CancelAll, RunningOf
    <3>q. QED
      BY <3>1, <1>3, NoneStartsKeeps
  <2>2. CASE DrainStarts(own)
    BY <2>2, NoneStartsKeeps DEF DrainStarts, NoneStarts, recordVars
  <2>q. QED
    BY <1>9, <2>1, <2>2
<1>10. CASE UNCHANGED mgrVars
  BY <1>10, NoneStartsKeeps DEF NoneStarts, mgrVars
<1>q. QED
  BY <1>4, <1>5, <1>6, <1>7, <1>8, <1>9, <1>10, RegisterBound DEF Next, Client

(* A job that runs is direct or holds a permit of its tool.                  *)
LEMMA BoundFollows ==
  ASSUME IInv, IsFiniteSet(Jobs), BoundInv
  PROVE  RunningBound
<1> DEFINE R == {j \in Jobs : status[j] = "running" /\ ~queued[j]}
           OfTool(t) == {j \in R \cap Spawns : ToolOf[j] = t}
<1>1. Cardinality(R \ Spawns) <= MaxRunningJobs
  <2>1. R \ Spawns \in SUBSET Direct
    BY DEF Direct
  <2>q. QED
    BY <2>1, SubsetBound, HoldingJobs, LimitsAssumption DEF BoundInv
<1>2. ASSUME NEW t \in TaskTools
      PROVE  Cardinality(OfTool(t)) <= SpawnSlots[t]
  <2>1. OfTool(t) \in SUBSET Holding(t)
    BY DEF Holding, IInv, RunningUnsettled
  <2>q. QED
    BY <2>1, SubsetBound, HoldingJobs DEF BoundInv
<1>q. QED
  BY <1>1, <1>2 DEF RunningBound

(* The jobs that really run stay within the limit on registrations and, for  *)
(* each task tool, within the permits of its semaphore, although queued      *)
(* spawns pass the one without counting and take the other later.            *)
THEOREM JobsStayBounded ==
  ASSUME Timely, IsFiniteSet(Jobs)
  PROVE  Spec => []RunningBound
<1>1. Init => BoundInv
  <2>1. Init => /\ Direct = {} /\ \A j \in Jobs \ Spawns : ~queued[j]
                /\ \A t \in TaskTools : Holding(t) = {}
    BY JobsAssumption DEF Init, Direct, Holding
  <2>q. QED
    BY <2>1, FS_EmptySet, HoldingJobs, LimitsAssumption DEF BoundInv
<1>2. IInv /\ BoundInv /\ [Next]_mgrVars => BoundInv'
  BY NextBound
<1>3. IInv /\ BoundInv => RunningBound
  BY BoundFollows
<1>q. QED
  BY <1>1, <1>2, <1>3, InvariantHolds, PTL DEF Spec
============================================================================
