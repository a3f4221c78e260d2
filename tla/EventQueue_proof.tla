------------------------ MODULE EventQueue_proof ------------------------
(***************************************************************************)
(* For every number of deliveries, slots, replays, cancels and stops: one  *)
(* run per issue, running rows and their owners, and what a cancel does.   *)
(***************************************************************************)
EXTENDS EventQueue, TLAPS

\* the dispatcher and stop() work in their own phases; a claimed row may wait
\* for its former task to release the issue, but that one has its verdict
Phases ==
  /\ lock # Free => phase = "up"
  /\ lock \in Events => run[lock] \notin Active
  /\ phase \in {"off", "leaving"} => run = None
  /\ phase \in {"up", "draining", "off", "leaving"} => interrupted = {}

\* a task keeps its issue until it releases it
Held == \A e \in Events : run[e] # "none" => IssueOf[e] \in inflight

\* a cancelled run is flagged; up to "checked" its hook is still to come, and
\* an armed one has its hook in place or fired
Flagged ==
  \A e \in Events :
    /\ asked[e] # "no" => run[e] \in Active /\ e \in cancelled
    /\ run[e] = "checked" => asked[e] \in {"no", "checked"}
    /\ run[e] = "armed" => e \in hooks \cup killed

IInv == TypeOK /\ Phases /\ Held /\ Flagged /\ OneRunPerIssue /\ RowFollowsRun /\ CancelReachesOmp

\* What the event numbers are for the lock.
LEMMA LockValues == Free \notin Events /\ Looking \notin Events /\ Free # Looking
BY QueueAssumption DEF Free, Looking, Events

\* An empty table and a process that is down satisfy it.
LEMMA InitIInv == Init => IInv
BY LockValues, QueueAssumption
   DEF Init, IInv, TypeOK, Phases, Held, Flagged, OneRunPerIssue, RowFollowsRun,
       CancelReachesOmp, None, No, Busy, Owned, Active, WithSlot, Inactive, Serving, Looking, Free

\* A delivery arrives; nothing runs for it yet.
LEMMA ReceiveIInv ==
  ASSUME IInv, NEW e \in Events, Receive(e)
  PROVE  IInv'
<1>1. TypeOK'
  BY DEF Receive, memory, calls, IInv, TypeOK, Inactive
<1>2. RowFollowsRun'
  BY DEF Receive, memory, calls, IInv, TypeOK, Owned, RowFollowsRun
<1>3. (Phases /\ Held /\ Flagged /\ OneRunPerIssue /\ CancelReachesOmp)'
  BY DEF Receive, memory, calls, IInv, TypeOK, Phases, Busy, CancelReachesOmp,
     OneRunPerIssue, Flagged, Held
<1> QED BY <1>1, <1>2, <1>3 DEF IInv

\* Only rows nobody owns are replayed.
LEMMA RetryIInv ==
  ASSUME IInv, NEW e \in Events, Retry(e)
  PROVE  IInv'
<1>1. TypeOK'
  BY QueueAssumption DEF Retry, memory, IInv, TypeOK
<1>2. RowFollowsRun'
  BY DEF Retry, memory, IInv, TypeOK, Inactive, Owned, RowFollowsRun
<1>3. (Phases /\ Held /\ Flagged /\ OneRunPerIssue /\ CancelReachesOmp)'
  BY DEF Retry, memory, IInv, TypeOK, Phases, Busy, CancelReachesOmp, OneRunPerIssue,
     Flagged, Held
<1> QED BY <1>1, <1>2, <1>3 DEF IInv

\* A cancel flags the event and fires its hook.
LEMMA CancelIInv ==
  ASSUME IInv, NEW e \in Events, Cancel(e)
  PROVE  IInv'
<1>1. TypeOK'
  BY QueueAssumption DEF Cancel, IInv, TypeOK
<1>2. Flagged'
  BY DEF Cancel, IInv, TypeOK, Flagged
<1>3. CancelReachesOmp'
  BY DEF Cancel, IInv, TypeOK, CancelReachesOmp, Flagged
<1>4. (Phases /\ Held /\ OneRunPerIssue /\ RowFollowsRun)'
  BY DEF Cancel, IInv, TypeOK, Phases, Owned, Busy, RowFollowsRun, OneRunPerIssue, Held
<1> QED BY <1>1, <1>2, <1>3, <1>4 DEF IInv

\* The dispatcher takes the lock.
LEMMA TakeLockIInv ==
  ASSUME IInv, TakeLock
  PROVE  IInv'
<1>1. TypeOK'
  BY DEF TakeLock, calls, IInv, TypeOK
<1>2. Phases'
  BY LockValues DEF TakeLock, calls, IInv, TypeOK, Phases
<1>3. RowFollowsRun'
  BY LockValues DEF TakeLock, calls, IInv, TypeOK, Owned, RowFollowsRun
<1>4. (Held /\ Flagged /\ OneRunPerIssue /\ CancelReachesOmp)'
  BY DEF TakeLock, calls, IInv, TypeOK, Busy, CancelReachesOmp, OneRunPerIssue, Flagged,
     Held
<1> QED BY <1>1, <1>2, <1>3, <1>4 DEF IInv

\* The row that is claimed is running and belongs to the holder of the lock; no
\* run of its own is left, for such a row was not queued.
LEMMA ClaimIInv ==
  ASSUME IInv, Claim
  PROVE  IInv'
<1>1. TypeOK'
  BY DEF Claim, Claimable, Earliest, calls, IInv, TypeOK
<1>2. Phases'
  BY LockValues DEF Claim, Claimable, Earliest, calls, IInv, TypeOK, Phases, Owned,
     RowFollowsRun
<1>3. RowFollowsRun'
  BY LockValues DEF Claim, Claimable, Earliest, calls, IInv, TypeOK, Owned, RowFollowsRun
<1>4. (Held /\ Flagged /\ OneRunPerIssue /\ CancelReachesOmp)'
  BY DEF Claim, Claimable, Earliest, calls, IInv, TypeOK, Busy, CancelReachesOmp,
     OneRunPerIssue, Flagged, Held
<1> QED BY <1>1, <1>2, <1>3, <1>4 DEF IInv

\* The issue is free, so that no other event of it is busy.
LEMMA AdmitIInv ==
  ASSUME IInv, Admit
  PROVE  IInv'
<1>1. TypeOK'
  BY DEF Admit, calls, IInv, TypeOK, Issues, Active
<1>2. Phases'
  BY LockValues DEF Admit, calls, IInv, TypeOK, Phases
<1>3. Held'
  BY DEF Admit, calls, IInv, TypeOK, Held
<1>4. Flagged'
  BY DEF Admit, calls, IInv, TypeOK, Phases, Flagged
<1>5. OneRunPerIssue'
  BY LockValues DEF Admit, calls, IInv, TypeOK, Phases, Busy, OneRunPerIssue, Held
<1>6. RowFollowsRun'
  BY LockValues DEF Admit, calls, IInv, TypeOK, Active, Owned, RowFollowsRun
<1>7. CancelReachesOmp'
  BY DEF Admit, calls, IInv, TypeOK, CancelReachesOmp
<1> QED BY <1>1, <1>2, <1>3, <1>4, <1>5, <1>6, <1>7 DEF IInv

\* The row goes back to the queue with its owner gone.
LEMMA PutBackIInv ==
  ASSUME IInv, PutBack
  PROVE  IInv'
<1>1. TypeOK'
  BY DEF PutBack, calls, IInv, TypeOK
<1>2. Phases'
  BY LockValues DEF PutBack, calls, IInv, TypeOK, Phases
<1>3. RowFollowsRun'
  BY LockValues DEF PutBack, calls, IInv, TypeOK, Phases, Owned, RowFollowsRun
<1>4. (Held /\ Flagged /\ OneRunPerIssue /\ CancelReachesOmp)'
  BY DEF PutBack, calls, IInv, TypeOK, Busy, CancelReachesOmp, OneRunPerIssue, Flagged, Held
<1> QED BY <1>1, <1>2, <1>3, <1>4 DEF IInv

\* A task moves on with its row running.
LEMMA GetSlotIInv ==
  ASSUME IInv, NEW e \in Events, GetSlot(e)
  PROVE  IInv'
<1>1. TypeOK'
  BY DEF GetSlot, Stage, calls, IInv, TypeOK, WithSlot, Active
<1>2. Phases'
  BY DEF GetSlot, Stage, calls, IInv, TypeOK, Phases, None
<1>3. Held'
  BY DEF GetSlot, Stage, calls, IInv, TypeOK, Held
<1>4. Flagged'
  BY DEF GetSlot, Stage, calls, IInv, TypeOK, WithSlot, Active, Flagged
<1>5. OneRunPerIssue'
  BY DEF GetSlot, Stage, calls, IInv, TypeOK, Busy, OneRunPerIssue
<1>6. RowFollowsRun'
  BY DEF GetSlot, Stage, calls, IInv, TypeOK, WithSlot, Active, Owned, RowFollowsRun
<1>7. CancelReachesOmp'
  BY DEF GetSlot, Stage, calls, IInv, TypeOK, CancelReachesOmp
<1> QED BY <1>1, <1>2, <1>3, <1>4, <1>5, <1>6, <1>7 DEF IInv

\* A thread starts for a task that has its row.
LEMMA ToThreadIInv ==
  ASSUME IInv, NEW e \in Events, ToThread(e)
  PROVE  IInv'
<1>1. TypeOK'
  BY DEF ToThread, Stage, calls, IInv, TypeOK, WithSlot, Active
<1>2. Phases'
  BY DEF ToThread, Stage, calls, IInv, TypeOK, Phases, None
<1>3. Held'
  BY DEF ToThread, Stage, calls, IInv, TypeOK, Held
<1>4. Flagged'
  BY DEF ToThread, Stage, calls, IInv, TypeOK, WithSlot, Active, Flagged
<1>5. OneRunPerIssue'
  BY DEF ToThread, Stage, calls, IInv, TypeOK, Busy, OneRunPerIssue
<1>6. RowFollowsRun'
  BY DEF ToThread, Stage, calls, IInv, TypeOK, WithSlot, Active, Owned, RowFollowsRun
<1>7. CancelReachesOmp'
  BY DEF ToThread, Stage, calls, IInv, TypeOK, CancelReachesOmp
<1> QED BY <1>1, <1>2, <1>3, <1>4, <1>5, <1>6, <1>7 DEF IInv

\* A cancel that came before kills omp; else the hook is still to come.
LEMMA ArmChecksIInv ==
  ASSUME IInv, NEW e \in Events, ArmChecks(e)
  PROVE  IInv'
<1>1. TypeOK'
  BY DEF ArmChecks, Stage, calls, IInv, TypeOK, WithSlot, Active
<1>2. Phases'
  BY DEF ArmChecks, Stage, calls, IInv, TypeOK, Phases, None
<1>3. Held'
  BY DEF ArmChecks, Stage, calls, IInv, TypeOK, Held
<1>4. Flagged'
  BY DEF ArmChecks, Stage, calls, IInv, TypeOK, WithSlot, Active, Flagged
<1>5. OneRunPerIssue'
  BY DEF ArmChecks, Stage, calls, IInv, TypeOK, Busy, OneRunPerIssue
<1>6. RowFollowsRun'
  BY DEF ArmChecks, Stage, calls, IInv, TypeOK, WithSlot, Active, Owned, RowFollowsRun
<1>7. CancelReachesOmp'
  BY DEF ArmChecks, Stage, calls, IInv, TypeOK, CancelReachesOmp
<1> QED BY <1>1, <1>2, <1>3, <1>4, <1>5, <1>6, <1>7 DEF IInv

\* The hook is stored.
LEMMA ArmStoresIInv ==
  ASSUME IInv, NEW e \in Events, ArmStores(e)
  PROVE  IInv'
<1>1. TypeOK'
  BY DEF ArmStores, Stage, calls, IInv, TypeOK, WithSlot, Active
<1>2. Phases'
  BY DEF ArmStores, Stage, calls, IInv, TypeOK, Phases, None
<1>3. Held'
  BY DEF ArmStores, Stage, calls, IInv, TypeOK, Held
<1>4. Flagged'
  BY DEF ArmStores, Stage, calls, IInv, TypeOK, WithSlot, Active, Flagged
<1>5. OneRunPerIssue'
  BY DEF ArmStores, Stage, calls, IInv, TypeOK, Busy, OneRunPerIssue
<1>6. RowFollowsRun'
  BY DEF ArmStores, Stage, calls, IInv, TypeOK, WithSlot, Active, Owned, RowFollowsRun
<1>7. CancelReachesOmp'
  BY DEF ArmStores, Stage, calls, IInv, TypeOK, CancelReachesOmp, Flagged
<1> QED BY <1>1, <1>2, <1>3, <1>4, <1>5, <1>6, <1>7 DEF IInv

\* A run that ends takes its hook away.
LEMMA RunEndsIInv ==
  ASSUME IInv, NEW e \in Events, RunEnds(e)
  PROVE  IInv'
<1>1. TypeOK'
  BY DEF RunEnds, Stage, calls, IInv, TypeOK, WithSlot, Active
<1>2. Phases'
  BY DEF RunEnds, Stage, calls, IInv, TypeOK, Phases, None
<1>3. Held'
  BY DEF RunEnds, Stage, calls, IInv, TypeOK, Held
<1>4. Flagged'
  BY DEF RunEnds, Stage, calls, IInv, TypeOK, WithSlot, Active, Flagged
<1>5. OneRunPerIssue'
  BY DEF RunEnds, Stage, calls, IInv, TypeOK, Busy, OneRunPerIssue
<1>6. RowFollowsRun'
  BY DEF RunEnds, Stage, calls, IInv, TypeOK, WithSlot, Active, Owned, RowFollowsRun
<1>7. CancelReachesOmp'
  BY DEF RunEnds, Stage, calls, IInv, TypeOK, CancelReachesOmp
<1> QED BY <1>1, <1>2, <1>3, <1>4, <1>5, <1>6, <1>7 DEF IInv

\* The verdict ends the ownership of the row, or stop() has the process end.
LEMMA MarkIInv ==
  ASSUME IInv, NEW e \in Events, Mark(e)
  PROVE  IInv'
<1>1. TypeOK'
  BY DEF Mark, Verdict, Forget, Stage, calls, IInv, TypeOK, Inactive
<1>2. Phases'
  BY DEF Mark, Verdict, Forget, Stage, calls, IInv, TypeOK, Phases, None
<1>3. Held'
  BY DEF Mark, Verdict, Forget, Stage, calls, IInv, TypeOK, Held
<1>4. Flagged'
  BY DEF Mark, Verdict, Forget, Stage, calls, IInv, TypeOK, Flagged
<1>5. OneRunPerIssue'
  BY DEF Mark, Verdict, Forget, Stage, calls, IInv, TypeOK, Busy, OneRunPerIssue
<1>6. RowFollowsRun'
  BY DEF Mark, Verdict, Forget, Stage, calls, IInv, TypeOK, Phases, WithSlot, Active,
     Owned, RowFollowsRun
<1>7. CancelReachesOmp'
  BY DEF Mark, Verdict, Forget, Stage, calls, IInv, TypeOK, CancelReachesOmp
<1> QED BY <1>1, <1>2, <1>3, <1>4, <1>5, <1>6, <1>7 DEF IInv

\* The issue is given back when its task is over.
LEMMA ReleaseIInv ==
  ASSUME IInv, NEW e \in Events, Release(e)
  PROVE  IInv'
<1>1. TypeOK'
  BY DEF Release, Stage, calls, IInv, TypeOK, WithSlot, Active
<1>2. Phases'
  BY LockValues DEF Release, Stage, calls, IInv, TypeOK, Phases, None
<1>3. Held'
  BY DEF Release, Stage, calls, IInv, TypeOK, Busy, OneRunPerIssue, Held
<1>4. Flagged'
  BY DEF Release, Stage, calls, IInv, TypeOK, WithSlot, Active, Flagged
<1>5. OneRunPerIssue'
  BY LockValues, QueueAssumption DEF Release, Stage, calls, IInv, TypeOK, Phases,
     Issues, Serving, Inactive, Threaded, WithSlot, Active, Owned, Busy, No, None,
     CancelReachesOmp, RowFollowsRun, OneRunPerIssue, Flagged, Held
<1>6. RowFollowsRun'
  BY DEF Release, Stage, calls, IInv, TypeOK, WithSlot, Active, Owned, RowFollowsRun
<1>7. CancelReachesOmp'
  BY DEF Release, Stage, calls, IInv, TypeOK, CancelReachesOmp
<1> QED BY <1>1, <1>2, <1>3, <1>4, <1>5, <1>6, <1>7 DEF IInv

\* The dispatcher goes; a row it claims may be left to nobody.
LEMMA StopBeginsIInv ==
  ASSUME IInv, StopBegins
  PROVE  IInv'
<1>1. TypeOK'
  BY QueueAssumption DEF StopBegins, Claimable, Earliest, IInv, TypeOK, Serving
<1>2. Phases'
  BY LockValues DEF StopBegins, Claimable, Earliest, IInv, TypeOK, Phases
<1>3. RowFollowsRun'
  BY LockValues DEF StopBegins, Claimable, Earliest, IInv, TypeOK, Owned, RowFollowsRun
<1>4. (Held /\ Flagged /\ OneRunPerIssue /\ CancelReachesOmp)'
  BY DEF StopBegins, Claimable, Earliest, IInv, TypeOK, Busy, CancelReachesOmp,
     OneRunPerIssue, Flagged, Held
<1> QED BY <1>1, <1>2, <1>3, <1>4 DEF IInv

\* stop() notes the tasks that are left.
LEMMA DrainTimeoutIInv ==
  ASSUME IInv, DrainTimeout
  PROVE  IInv'
<1>1. TypeOK'
  BY DEF DrainTimeout, calls, IInv, TypeOK, Serving
<1>2. Phases'
  BY DEF DrainTimeout, calls, IInv, TypeOK, Phases
<1>3. RowFollowsRun'
  BY DEF DrainTimeout, calls, IInv, TypeOK, Owned, RowFollowsRun
<1>4. (Held /\ Flagged /\ OneRunPerIssue /\ CancelReachesOmp)'
  BY DEF DrainTimeout, calls, IInv, TypeOK, Busy, CancelReachesOmp, OneRunPerIssue,
     Flagged, Held
<1> QED BY <1>1, <1>2, <1>3, <1>4 DEF IInv

\* An interrupted task is killed, or cancelled with its thread going on.
LEMMA InterruptIInv ==
  ASSUME IInv, NEW e \in Events, Interrupt(e)
  PROVE  IInv'
<1>1. TypeOK'
  BY DEF Interrupt, Forget, Outlives, calls, IInv, TypeOK, Serving
<1>2. Phases'
  BY LockValues DEF Interrupt, Forget, Outlives, calls, IInv, TypeOK, Phases
<1>3. Held'
  BY DEF Interrupt, Forget, Outlives, calls, IInv, TypeOK, Busy, OneRunPerIssue, Held
<1>4. Flagged'
  BY DEF Interrupt, Forget, Outlives, calls, IInv, TypeOK, Flagged
<1>5. OneRunPerIssue'
  BY DEF Interrupt, Forget, Outlives, calls, IInv, TypeOK, Busy, OneRunPerIssue
<1>6. RowFollowsRun'
  BY DEF Interrupt, Forget, Outlives, calls, IInv, TypeOK, WithSlot, Active, Owned,
     RowFollowsRun
<1>7. CancelReachesOmp'
  BY DEF Interrupt, Forget, Outlives, calls, IInv, TypeOK, CancelReachesOmp
<1> QED BY <1>1, <1>2, <1>3, <1>4, <1>5, <1>6, <1>7 DEF IInv

\* The tasks that are left go, their threads go on.
LEMMA StopEndsIInv ==
  ASSUME IInv, StopEnds
  PROVE  IInv'
<1>1. TypeOK'
  BY DEF StopEnds, Outlives, calls, IInv, TypeOK, No, None
<1>2. Phases'
  BY LockValues DEF StopEnds, Outlives, calls, IInv, TypeOK, Phases
<1>3. Held'
  BY DEF StopEnds, Outlives, calls, IInv, TypeOK, None, Held
<1>4. Flagged'
  BY DEF StopEnds, Outlives, calls, IInv, TypeOK, No, None, Flagged
<1>5. OneRunPerIssue'
  BY DEF StopEnds, Outlives, calls, IInv, TypeOK, Threaded, Busy, None, OneRunPerIssue
<1>6. RowFollowsRun'
  BY DEF StopEnds, Outlives, calls, IInv, TypeOK, WithSlot, Active, Owned, None,
     RowFollowsRun
<1>7. CancelReachesOmp'
  BY DEF StopEnds, Outlives, calls, IInv, TypeOK, None, CancelReachesOmp
<1> QED BY <1>1, <1>2, <1>3, <1>4, <1>5, <1>6, <1>7 DEF IInv

\* A thread without a task starts omp.
LEMMA LateSpawnIInv ==
  ASSUME IInv, NEW e \in Events, LateSpawn(e)
  PROVE  IInv'
<1>1. TypeOK'
  BY DEF LateSpawn, calls, IInv, TypeOK
<1>2. OneRunPerIssue'
  BY DEF LateSpawn, calls, IInv, TypeOK, Busy, OneRunPerIssue
<1>3. (Phases /\ Held /\ Flagged /\ RowFollowsRun /\ CancelReachesOmp)'
  BY LockValues, QueueAssumption DEF LateSpawn, calls, IInv, TypeOK, Phases, Issues,
     Serving, Inactive, Threaded, WithSlot, Active, Owned, Busy, No, None,
     CancelReachesOmp, RowFollowsRun, OneRunPerIssue, Flagged, Held
<1> QED BY <1>1, <1>2, <1>3 DEF IInv

\* A thread without a task ends.
LEMMA LateEndIInv ==
  ASSUME IInv, NEW e \in Events, LateEnd(e)
  PROVE  IInv'
<1>1. TypeOK'
  BY DEF LateEnd, calls, IInv, TypeOK
<1>2. OneRunPerIssue'
  BY DEF LateEnd, calls, IInv, TypeOK, Busy, OneRunPerIssue
<1>3. (Phases /\ Held /\ Flagged /\ RowFollowsRun /\ CancelReachesOmp)'
  BY DEF LateEnd, calls, IInv, TypeOK, Phases, Owned, CancelReachesOmp, RowFollowsRun,
     Flagged, Held
<1> QED BY <1>1, <1>2, <1>3 DEF IInv

\* The process ends when its threads have.
LEMMA ProcessExitIInv ==
  ASSUME IInv, ProcessExit
  PROVE  IInv'
<1>1. TypeOK'
  BY DEF ProcessExit, memory, calls, IInv, TypeOK, None
<1>2. Phases'
  BY DEF ProcessExit, memory, calls, IInv, TypeOK, Phases
<1>3. RowFollowsRun'
  BY DEF ProcessExit, memory, calls, IInv, TypeOK, Owned, RowFollowsRun
<1>4. (Held /\ Flagged /\ OneRunPerIssue /\ CancelReachesOmp)'
  BY DEF ProcessExit, memory, calls, IInv, TypeOK, Busy, CancelReachesOmp,
     OneRunPerIssue, Flagged, Held
<1> QED BY <1>1, <1>2, <1>3, <1>4 DEF IInv

\* All memory is lost at once.
LEMMA CrashIInv ==
  ASSUME IInv, Crash
  PROVE  IInv'
<1>1. TypeOK'
  BY QueueAssumption DEF Crash, IInv, TypeOK, No, None
<1>2. Phases'
  BY LockValues DEF Crash, IInv, TypeOK, Phases
<1>3. Held'
  BY DEF Crash, IInv, TypeOK, None, Held
<1>4. Flagged'
  BY DEF Crash, IInv, TypeOK, No, None, Flagged
<1>5. OneRunPerIssue'
  BY DEF Crash, IInv, TypeOK, Busy, None, OneRunPerIssue
<1>6. RowFollowsRun'
  BY LockValues DEF Crash, IInv, TypeOK, WithSlot, Active, Owned, None, RowFollowsRun
<1>7. CancelReachesOmp'
  BY DEF Crash, IInv, TypeOK, None, CancelReachesOmp
<1> QED BY <1>1, <1>2, <1>3, <1>4, <1>5, <1>6, <1>7 DEF IInv

\* No row is running when the dispatcher begins.
LEMMA StartIInv ==
  ASSUME IInv, Start
  PROVE  IInv'
<1>1. TypeOK'
  BY DEF Start, memory, calls, IInv, TypeOK, Serving
<1>2. Phases'
  BY DEF Start, memory, calls, IInv, TypeOK, Phases
<1>3. RowFollowsRun'
  BY LockValues DEF Start, memory, calls, IInv, TypeOK, Phases, WithSlot, Active, Owned,
     None, RowFollowsRun
<1>4. (Held /\ Flagged /\ OneRunPerIssue /\ CancelReachesOmp)'
  BY DEF Start, memory, calls, IInv, TypeOK, Busy, CancelReachesOmp, OneRunPerIssue,
     Flagged, Held
<1> QED BY <1>1, <1>2, <1>3, <1>4 DEF IInv

\* The invariant survives every step, and a step that changes nothing.
LEMMA NextIInv == IInv /\ [Next]_vars => IInv'
<1> SUFFICES ASSUME IInv, [Next]_vars PROVE IInv'
  OBVIOUS
<1>1. CASE Dispatcher
  BY <1>1, TakeLockIInv, ClaimIInv, AdmitIInv, PutBackIInv DEF Dispatcher
<1>2. CASE Stopping
  BY <1>2, DrainTimeoutIInv, InterruptIInv, StopEndsIInv, ProcessExitIInv DEF Stopping
<1>3. CASE StopBegins \/ Crash \/ Start
  BY <1>3, StopBeginsIInv, CrashIInv, StartIInv
<1>4. ASSUME NEW e \in Events, Task(e) PROVE IInv'
  BY <1>4, GetSlotIInv, ToThreadIInv, ArmChecksIInv, ArmStoresIInv, RunEndsIInv,
     MarkIInv, ReleaseIInv DEF Task
<1>5. ASSUME NEW e \in Events, Late(e) \/ Client(e) PROVE IInv'
  BY <1>5, LateSpawnIInv, LateEndIInv, ReceiveIInv, RetryIInv, CancelIInv DEF Late, Client
<1>6. CASE UNCHANGED vars
  <2>1. TypeOK' /\ Phases' /\ Held' /\ Flagged'
    BY <1>6 DEF vars, memory, calls, IInv, TypeOK, Phases, Held, Flagged
  <2>2. OneRunPerIssue' /\ RowFollowsRun' /\ CancelReachesOmp'
    BY <1>6 DEF vars, memory, calls, IInv, OneRunPerIssue, RowFollowsRun, CancelReachesOmp,
         Busy, Owned
  <2> QED BY <2>1, <2>2 DEF IInv
<1> QED BY <1>1, <1>2, <1>3, <1>4, <1>5, <1>6 DEF Next

\* The invariant of the queue: every reachable state has it, whatever is
\* replayed, cancelled, stopped and crashed.
THEOREM QueueInvariant == Spec => []IInv
BY InitIInv, NextIInv, PTL DEF Spec

\* Rows, stages, flags and threads have their types, and flags and hooks go with
\* their run.
THEOREM QueueTypes == Spec => []TypeOK
BY QueueInvariant, PTL DEF IInv

\* Two events of one issue are never worked on at a time, not even by a thread
\* that stop() left behind.
THEOREM OneRunAtATime == Spec => []OneRunPerIssue
BY QueueInvariant, PTL DEF IInv

\* A claimed or active event has its row running, and in a process that is up no
\* other row is.
THEOREM RowsFollowRuns == Spec => []RowFollowsRun
BY QueueInvariant, PTL DEF IInv

\* When the hook of a cancelled run is in place, omp has been killed, unless the
\* cancel fell between the two statements of _arm_cancel.
THEOREM CancelsReachOmp == Spec => []CancelReachesOmp
BY QueueInvariant, PTL DEF IInv

\* Only Mark writes "done", and not for a run that is flagged as cancelled.
LEMMA CancelledStep ==
  ASSUME IInv, [Next]_vars, NEW e \in Events, asked[e] # "no", run[e] \in Active
  PROVE  st'[e] # "done"
<1>1. e \in cancelled /\ st[e] = "running"
  BY DEF IInv, Flagged, RowFollowsRun, Owned
<1>2. st \in [Events -> Inactive \cup {"absent", "queued", "running"}]
  BY DEF IInv, TypeOK
<1>3. ASSUME NEW f \in Events, Mark(f) PROVE st'[e] # "done"
  BY <1>1, <1>2, <1>3 DEF Mark, Verdict
<1>4. ASSUME NEW f \in Events, Client(f) PROVE st'[e] # "done"
  BY <1>1, <1>2, <1>4 DEF Client, Receive, Retry, Cancel
<1>5. ASSUME NEW f \in Events, Task(f) \/ Late(f) PROVE st'[e] # "done"
  BY <1>1, <1>3, <1>5 DEF Task, Late, GetSlot, ToThread, ArmChecks, ArmStores, RunEnds,
     Release, LateSpawn, LateEnd
<1>6. CASE Dispatcher
  BY <1>1, <1>2, <1>6 DEF Dispatcher, TakeLock, Claim, Admit, PutBack
<1>7. CASE Stopping
  BY <1>1, <1>7 DEF Stopping, DrainTimeout, Interrupt, StopEnds, ProcessExit
<1>8. CASE StopBegins \/ Crash \/ Start
  BY <1>1, <1>2, <1>8 DEF StopBegins, Crash, Start
<1>9. CASE UNCHANGED vars
  BY <1>1, <1>9 DEF vars
<1> QED BY <1>3, <1>4, <1>5, <1>6, <1>7, <1>8, <1>9 DEF Next

\* A run that the operator cancelled, at whatever stage, is never marked done.
THEOREM CancelledRunsAreNotDone == Spec => CancelledNotDone
<1>1. IInv /\ [Next]_vars
        => [\A e \in Events : asked[e] # "no" /\ run[e] \in Active => st'[e] # "done"]_vars
  BY CancelledStep
<1> QED BY <1>1, QueueInvariant, PTL DEF Spec, CancelledNotDone
============================================================================
