------------------------ MODULE DeliveryQueue_proof ------------------------
(***************************************************************************)
(* Proofs about the delivery queue of AsyncJobManager, with or without      *)
(* retention and however late runs end: the completion callback never       *)
(* starts for an id that is suppressed or watched; a queued delivery always *)
(* has a loop; no job is delivered twice, none that was cancelled is        *)
(* delivered at all.                                                        *)
(***************************************************************************)
EXTENDS AsyncJobManager_proof, SequenceFilter_proof

JobsOf(C) == {c.job : c \in C}

\* the running callbacks are records that #deliverDelivery made
AreCalls(C) ==
  \A c \in C : c = [job |-> c.job, attempt |-> c.attempt, by |-> c.by, listed |-> c.listed]

\* a sleeping loop waits for the delivery of a job
SleepsForJob == loop = "sleep" => loopAt \in Jobs

CallsInv == AreCalls(calls) /\ SleepsForJob

(* A step that leaves the calls of c running, some ended, starts a callback  *)
(* only for jobs outside of hid.                                             *)
StartsOutside(hid, c) ==
  JobsOf(calls') \subseteq JobsOf(c) \cup (Jobs \ hid) /\ AreCalls(calls') /\ SleepsForJob'

(* The action of NoCallWhileSuppressed.                                      *)
NoneSuppressed ==
  \A j \in JobsOf(calls') \ JobsOf(calls) : idOf[j] \notin suppressed' \cup watched'

(* A callback that starts adds its own job to those delivered, and no other. *)
LEMMA StartCallJob ==
  ASSUME NEW d, NEW who, NEW c, AreCalls(c), calls' = c \cup {StartCall(d, who)}
  PROVE  JobsOf(calls') = JobsOf(c) \cup {d.job} /\ AreCalls(calls')
<1> DEFINE n == StartCall(d, who)
<1>1. n.job = d.job
  BY DEF StartCall
<1>2. n = [job |-> n.job, attempt |-> n.attempt, by |-> n.by, listed |-> n.listed]
  BY DEF StartCall
<1> HIDE DEF n
<1>3. JobsOf(calls') = JobsOf(c) \cup {n.job}
  BY DEF JobsOf, n
<1>4. AreCalls(calls')
  BY <1>2 DEF AreCalls, n
<1>q. QED
  BY <1>1, <1>3, <1>4

(* The loop calls back only for the first delivery that is not hidden.       *)
LEMMA LoopFromStarts ==
  ASSUME NEW dels, NEW hid, NEW c, AreCalls(c), LoopFrom(dels, hid, c)
  PROVE  StartsOutside(hid, c)
<1>1. CASE /\ calls' = c
           /\ loop' = "sleep" => loopAt' \in Jobs
  BY <1>1 DEF StartsOutside, AreCalls, SleepsForJob
<1>2. ASSUME NEW k \in Nat, dels[k + 1].job \in Jobs \ hid,
             calls' = c \cup {StartCall(dels[k + 1], "loop")}, loop' = "deliver"
      PROVE  StartsOutside(hid, c)
  BY <1>2, StartCallJob DEF StartsOutside, SleepsForJob
<1>q. QED
  BY <1>1, <1>2 DEF LoopFrom

(* A loop that runs already is not disturbed.                                *)
LEMMA EnsureLoopStarts ==
  ASSUME SleepsForJob, NEW dels, NEW hid, NEW c, AreCalls(c), EnsureLoop(dels, hid, c)
  PROVE  StartsOutside(hid, c)
<1>1. CASE loop = "off"
  BY <1>1, LoopFromStarts DEF EnsureLoop
<1>2. CASE loop # "off"
  BY <1>2 DEF EnsureLoop, StartsOutside, AreCalls, SleepsForJob
<1>q. QED
  BY <1>1, <1>2

(* What is started outside the hidden jobs is neither suppressed nor watched *)
(* as long as the step mutes nothing else.                                   *)
LEMMA StartedIsAudible ==
  ASSUME NEW supp, NEW c, c \subseteq calls, StartsOutside(HiddenBy(supp), c),
         suppressed' \subseteq supp, watched' \subseteq watched
  PROVE  NoneSuppressed /\ CallsInv'
<1>1. JobsOf(c) \subseteq JobsOf(calls)
  BY DEF JobsOf
<1>q. QED
  BY <1>1 DEF StartsOutside, NoneSuppressed, CallsInv, HiddenBy

(* Steps that start no callback and leave the loop alone.                    *)
LEMMA QuietStep ==
  ASSUME CallsInv, UNCHANGED <<calls, loop, loopAt>>
  PROVE  NoneSuppressed /\ CallsInv'
BY DEF CallsInv, NoneSuppressed, AreCalls, SleepsForJob

(* Queueing a delivery may start the loop, and with it the callback, at once.*)
LEMMA EnqueueStarts ==
  ASSUME CallsInv, NEW j, NEW supp, EnqueueDelivery(j, supp),
         suppressed' \subseteq supp, watched' \subseteq watched
  PROVE  NoneSuppressed /\ CallsInv'
<1>1. CASE UNCHANGED deliveryVars
  BY <1>1, QuietStep DEF deliveryVars
<1>2. CASE EnsureLoop(Append(deliveries, [job |-> j, attempt |-> 0]), HiddenBy(supp), calls)
  <2>1. StartsOutside(HiddenBy(supp), calls)
    BY <1>2, EnsureLoopStarts DEF CallsInv
  <2>q. QED
    BY <2>1, StartedIsAudible
<1>q. QED
  BY <1>1, <1>2 DEF EnqueueDelivery

(* A run that settles is delivered unless it is hidden.                      *)
LEMMA RunStepsStart ==
  ASSUME CallsInv, RunSteps
  PROVE  NoneSuppressed /\ CallsInv'
<1>1. ASSUME NEW j \in Jobs, MarkRunning(j) \/ CancelledRunSettles(j)
      PROVE  NoneSuppressed /\ CallsInv'
  BY <1>1, QuietStep DEF MarkRunning, CancelledRunSettles, deliveryVars
<1>2. ASSUME NEW j \in Jobs, NEW o \in Finished, RunSettles(j, o)
      PROVE  NoneSuppressed /\ CallsInv'
  <2>1. suppressed' \subseteq suppressed /\ watched' \subseteq watched
    BY <1>2 DEF RunSettles, ScheduleEviction
  <2>2. EnqueueDelivery(j, suppressed)
    BY <1>2 DEF RunSettles
  <2>q. QED
    BY <2>1, <2>2, EnqueueStarts
<1>q. QED
  BY <1>1, <1>2 DEF RunSteps

(* After a sleep the loop looks at the muted ids again.                      *)
LEMMA LoopStepsStart ==
  ASSUME CallsInv, LoopSteps
  PROVE  NoneSuppressed /\ CallsInv'
<1>1. suppressed' = suppressed /\ watched' = watched
  BY DEF LoopSteps, LoopWakes, LoopFinally, muteVars
<1>2. ASSUME NEW dels, LoopFrom(dels, Hidden, calls)
      PROVE  NoneSuppressed /\ CallsInv'
  <2>1. StartsOutside(HiddenBy(suppressed), calls)
    BY <1>2, LoopFromStarts DEF Hidden, CallsInv
  <2>q. QED
    BY <1>1, <2>1, StartedIsAudible
<1>3. ASSUME loop = "sleep", Head(deliveries).job = loopAt, Head(deliveries).job \notin Hidden,
             loop' = "deliver", calls' = calls \cup {StartCall(Head(deliveries), "loop")}
      PROVE  NoneSuppressed /\ CallsInv'
  <2>1. Head(deliveries).job \in Jobs \ Hidden
    BY <1>3 DEF CallsInv, SleepsForJob
  <2>2. StartsOutside(HiddenBy(suppressed), calls)
    BY <1>3, <2>1, StartCallJob DEF CallsInv, StartsOutside, SleepsForJob, Hidden
  <2>q. QED
    BY <1>1, <2>2, StartedIsAudible
<1>4. CASE loop' = "off" /\ UNCHANGED <<deliveries, calls, loopAt>>
  BY <1>4 DEF CallsInv, AreCalls, SleepsForJob, NoneSuppressed
<1>q. QED
  BY <1>2, <1>3, <1>4 DEF LoopSteps, LoopWakes, LoopFinally

(* The end of a callback sends the loop to the next delivery.                *)
LEMMA CallsEndStart ==
  ASSUME CallsInv, NEW c \in calls, CallSucceeds(c) \/ CallFails(c)
  PROVE  NoneSuppressed /\ CallsInv'
<1>1. PICK dels : CallEnds(c, dels)
  BY DEF CallSucceeds, CallFails
<1>2. suppressed' = suppressed /\ watched' = watched
  BY <1>1 DEF CallEnds, muteVars
<1>3. AreCalls(calls \ {c}) /\ SleepsForJob
  BY DEF CallsInv, AreCalls
<1>4. StartsOutside(Hidden, calls \ {c})
  <2>1. CASE LoopFrom(dels, Hidden, calls \ {c})
    BY <2>1, <1>3, LoopFromStarts
  <2>2. CASE EnsureLoop(dels, Hidden, calls \ {c})
    BY <2>2, <1>3, EnsureLoopStarts
  <2>3. CASE calls' = calls \ {c} /\ UNCHANGED <<loop, loopAt>>
    BY <2>3, <1>3 DEF StartsOutside, AreCalls, SleepsForJob
  <2>q. QED
    BY <2>1, <2>2, <2>3, <1>1 DEF CallEnds
<1>q. QED
  BY <1>2, <1>4, StartedIsAudible DEF Hidden

(* The owner-filtered drain selects among the deliveries that are not hidden.*)
LEMMA DrainStart ==
  ASSUME CallsInv, DrainSteps
  PROVE  NoneSuppressed /\ CallsInv'
<1>1. CASE DrainDelivers
  <2>1. PICK k \in Selectable : calls' = calls \cup {StartCall(deliveries[k], "drain")}
    BY <1>1 DEF DrainDelivers
  <2>2. deliveries[k].job \in Jobs \ Hidden
    BY <2>1 DEF Selectable
  <2>3. UNCHANGED <<loop, loopAt, suppressed, watched>>
    BY <1>1 DEF DrainDelivers, muteVars
  <2>4. StartsOutside(HiddenBy(suppressed), calls)
    BY <2>1, <2>2, <2>3, StartCallJob DEF CallsInv, StartsOutside, SleepsForJob, Hidden
  <2>q. QED
    BY <2>3, <2>4, StartedIsAudible
<1>2. CASE DrainWaitsOrEnds \/ DrainResumes \/ DrainTimesOut
  BY <1>2, QuietStep DEF DrainWaitsOrEnds, DrainResumes, DrainTimesOut, deliveryVars
<1>q. QED
  BY <1>1, <1>2 DEF DrainSteps

(* Of the public methods only resumeDeliveries can start a callback.         *)
LEMMA ClientStarts ==
  ASSUME CallsInv, Client
  PROVE  NoneSuppressed /\ CallsInv'
<1>1. ASSUME NEW j \in Jobs, Register(j, FALSE) PROVE NoneSuppressed /\ CallsInv'
  BY <1>1, QuietStep DEF Register
<1>2. CASE \/ \E j \in Jobs : Cancel(j)
           \/ \E own \in Owners : CancelAll(own) \/ DrainStarts(own)
  BY <1>2, QuietStep DEF Cancel, CancelAll, CancelJobs, DrainStarts, deliveryVars
<1>3. ASSUME NEW i \in Ids, WatchJobs({i}) \/ UnwatchJobs({i}) \/ AcknowledgeDeliveries({i})
      PROVE  NoneSuppressed /\ CallsInv'
  BY <1>3, QuietStep DEF WatchJobs, UnwatchJobs, AcknowledgeDeliveries, deliveryVars
<1>4. ASSUME NEW i \in Ids, ResumeDeliveries(i) PROVE NoneSuppressed /\ CallsInv'
  <2>1. suppressed' = suppressed \ {i} /\ watched' = watched
    BY <1>4 DEF ResumeDeliveries
  <2>2. CASE EnqueueDelivery(table[i], suppressed \ {i})
    BY <2>1, <2>2, EnqueueStarts
  <2>3. CASE UNCHANGED deliveryVars
    BY <2>3, QuietStep DEF deliveryVars
  <2>q. QED
    BY <1>4, <2>2, <2>3 DEF ResumeDeliveries
<1>q. QED
  BY <1>1, <1>2, <1>3, <1>4 DEF Client

(* Unlisting a call changes its field listed and nothing else.               *)
LEMMA UnlistedCall ==
  ASSUME NEW j, NEW n, NEW who, NEW is
  PROVE  [[job |-> j, attempt |-> n, by |-> who, listed |-> is] EXCEPT !.listed = FALSE]
           = [job |-> j, attempt |-> n, by |-> who, listed |-> FALSE]
<1> DEFINE R == [job : {j}, attempt : {n}, by : {who}, listed : {FALSE}]
<1>1. [[job |-> j, attempt |-> n, by |-> who, listed |-> is] EXCEPT !.listed = FALSE] \in R
  OBVIOUS
<1>2. ASSUME NEW r \in R PROVE r = [job |-> j, attempt |-> n, by |-> who, listed |-> FALSE]
  OBVIOUS
<1> HIDE DEF R
<1>q. QED
  BY <1>1, <1>2, Zenon

(* dispose unlists the running callbacks and starts none.                    *)
LEMMA DisposeStarts ==
  ASSUME CallsInv, Dispose
  PROVE  NoneSuppressed /\ CallsInv'
<1>1. CASE DisposeBegins \/ DisposeWaited
  BY <1>1, QuietStep DEF DisposeBegins, DisposeWaited, deliveryVars
<1>2. CASE DisposeEnds
  <2>1. calls' = {[c EXCEPT !.listed = FALSE] : c \in calls} /\ UNCHANGED <<loop, loopAt>>
    BY <1>2 DEF DisposeEnds
  <2>2. ASSUME NEW c \in calls
        PROVE  [c EXCEPT !.listed = FALSE]
                 = [job |-> c.job, attempt |-> c.attempt, by |-> c.by, listed |-> FALSE]
    <3>1. c = [job |-> c.job, attempt |-> c.attempt, by |-> c.by, listed |-> c.listed]
      BY DEF CallsInv, AreCalls
    <3>2. [[job |-> c.job, attempt |-> c.attempt, by |-> c.by, listed |-> c.listed]
              EXCEPT !.listed = FALSE]
            = [job |-> c.job, attempt |-> c.attempt, by |-> c.by, listed |-> FALSE]
      BY UnlistedCall
    <3>q. QED
      BY <3>1, <3>2, Zenon
  <2>3. ASSUME NEW u \in calls'
        PROVE  /\ u = [job |-> u.job, attempt |-> u.attempt, by |-> u.by, listed |-> u.listed]
               /\ \E c \in calls : u.job = c.job
    <3>1. PICK c \in calls : u = [c EXCEPT !.listed = FALSE]
      BY <2>1
    <3>2. u = [job |-> c.job, attempt |-> c.attempt, by |-> c.by, listed |-> FALSE]
      BY <2>2, <3>1, Zenon
    <3>q. QED
      BY <3>2
  <2>4. AreCalls(calls') /\ JobsOf(calls') \subseteq JobsOf(calls)
    BY <2>3 DEF AreCalls, JobsOf
  <2>q. QED
    BY <2>1, <2>4 DEF NoneSuppressed, CallsInv, SleepsForJob
<1>q. QED
  BY <1>1, <1>2 DEF Dispose

(* Every step obeys the muted ids.                                           *)
LEMMA NextStarts ==
  ASSUME CallsInv, Next
  PROVE  NoneSuppressed /\ CallsInv'
<1>1. ASSUME NEW i \in Ids, EvictionTimer(i) PROVE NoneSuppressed /\ CallsInv'
  BY <1>1, QuietStep DEF EvictionTimer, deliveryVars
<1>q. QED
  BY <1>1, RunStepsStart, LoopStepsStart, DrainStart, CallsEndStart, ClientStarts, DisposeStarts
  DEF Next

(* Calls are proper records, and a sleeping loop waits for a job.            *)
THEOREM CallsInvHolds == Spec => []CallsInv
<1>1. Init => CallsInv
  BY DEF Init, CallsInv, AreCalls, SleepsForJob
<1>2. CallsInv /\ [Next]_mgrVars => CallsInv'
  BY NextStarts, QuietStep DEF mgrVars
<1>q. QED
  BY <1>1, <1>2, PTL DEF Spec

(* The completion callback starts only for an id that is neither suppressed  *)
(* nor watched at that moment: an acknowledgement or a watch set while the   *)
(* loop slept, while a call was running or between two attempts is obeyed.   *)
THEOREM SuppressionIsObeyed == Spec => NoCallWhileSuppressed
<1>1. CallsInv /\ [Next]_mgrVars
        => [\A j \in {c.job : c \in calls'} \ {c.job : c \in calls} :
              idOf[j] \notin suppressed' \cup watched']_mgrVars
  BY NextStarts DEF NoneSuppressed, JobsOf
<1>q. QED
  BY <1>1, CallsInvHolds, PTL DEF Spec, NoCallWhileSuppressed
----------------------------------------------------------------------------
(* Queues of deliveries and the callbacks that run beside them. *)

\* the jobs that dels and the calls of C are about
Busy(dels, C) == {dels[k].job : k \in 1 .. Len(dels)} \cup {c.job : c \in C}

\* deliveries and calls, no two of them for one job
Wellformed(dels, C) ==
  /\ dels \in Seq(Delivery) /\ C \subseteq Call
  /\ \A k, m \in 1 .. Len(dels) : dels[k].job = dels[m].job => k = m
  /\ \A c, d \in C : c.job = d.job => c = d
  /\ \A c \in C : \A k \in 1 .. Len(dels) : c.job # dels[k].job

(* What a queue keeps, in whatever way entries are removed from it.          *)
LEMMA FewerDeliveries ==
  ASSUME NEW dels, NEW C, Wellformed(dels, C), NEW q \in Seq(Delivery), NEW f,
         Places(f, q, dels)
  PROVE  Wellformed(q, C) /\ Busy(q, C) \subseteq Busy(dels, C)
<1>1. \A k \in 1 .. Len(q) : f[k] \in 1 .. Len(dels) /\ q[k] = dels[f[k]]
  BY DEF Places
<1>2. ASSUME NEW k \in 1 .. Len(q), NEW m \in 1 .. Len(q), q[k].job = q[m].job
      PROVE  k = m
  <2>1. f[k] = f[m]
    BY <1>1, <1>2 DEF Wellformed
  <2>2. ~(k < m) /\ ~(m < k)
    BY <1>1, <2>1 DEF Places
  <2>3. k \in Nat /\ m \in Nat
    OBVIOUS
  <2>q. QED
    BY <2>2, <2>3
<1>3. \A c \in C : \A k \in 1 .. Len(q) : c.job # q[k].job
  BY <1>1 DEF Wellformed
<1>4. Busy(q, C) \subseteq Busy(dels, C)
  BY <1>1 DEF Busy
<1>q. QED
  BY <1>2, <1>3, <1>4 DEF Wellformed

(* The end of a callback, seen from the queue.                               *)
LEMMA FewerCalls ==
  ASSUME NEW dels, NEW C, Wellformed(dels, C), NEW c
  PROVE  /\ Wellformed(dels, C \ {c})
         /\ Busy(dels, C \ {c}) \subseteq Busy(dels, C)
         /\ c \in C => c.job \notin Busy(dels, C \ {c})
BY DEF Wellformed, Busy

(* A job that is not in the machinery may be queued.                         *)
LEMMA OneMoreDelivery ==
  ASSUME NEW dels, NEW C, Wellformed(dels, C), NEW d \in Delivery, d.job \notin Busy(dels, C)
  PROVE  Wellformed(Append(dels, d), C) /\ Busy(Append(dels, d), C) = Busy(dels, C) \cup {d.job}
<1> DEFINE q == Append(dels, d)
           n == Len(dels)
<1>1. dels \in Seq(Delivery)
  BY DEF Wellformed
<1>2. /\ q \in Seq(Delivery) /\ Len(q) = n + 1 /\ n \in Nat /\ q[n + 1] = d
      /\ \A k \in 1 .. n : q[k] = dels[k]
  BY <1>1
<1>3. \A k \in 1 .. n : dels[k].job # d.job
  BY DEF Busy
<1>4. \A c \in C : c.job # d.job
  BY DEF Busy
<1>5. Len(dels) = n
  OBVIOUS
<1> HIDE DEF q, n
<1>6. \A k \in 1 .. n + 1 : k # n + 1 => k \in 1 .. n
  BY <1>2
<1>7. Wellformed(q, C)
  <2>1. ASSUME NEW k \in 1 .. n + 1, NEW m \in 1 .. n + 1, q[k].job = q[m].job PROVE k = m
    BY <2>1, <1>2, <1>3, <1>5, <1>6 DEF Wellformed
  <2>2. ASSUME NEW c \in C, NEW k \in 1 .. n + 1 PROVE c.job # q[k].job
    BY <1>2, <1>4, <1>5, <1>6 DEF Wellformed
  <2>q. QED
    BY <1>2, <2>1, <2>2 DEF Wellformed
<1>8. Busy(q, C) = Busy(dels, C) \cup {d.job}
  <2>1. {q[k].job : k \in 1 .. n + 1} = {dels[k].job : k \in 1 .. n} \cup {d.job}
    <3>1. n + 1 \in 1 .. n + 1 /\ 1 .. n \subseteq 1 .. n + 1
      BY <1>2
    <3>q. QED
      BY <3>1, <1>2, <1>6
  <2>q. QED
    BY <2>1, <1>2, <1>5 DEF Busy
<1>q. QED
  BY <1>7, <1>8 DEF q

(* A delivery leaves the queue and its callback starts.                      *)
LEMMA DeliveryStarts ==
  ASSUME NEW dels, NEW C, Wellformed(dels, C), NEW q \in Seq(Delivery), NEW f,
         Places(f, q, dels), NEW k \in 1 .. Len(dels), \A m \in 1 .. Len(q) : f[m] # k,
         NEW who \in {"loop", "drain"}
  PROVE  /\ Wellformed(q, C \cup {StartCall(dels[k], who)})
         /\ Busy(q, C \cup {StartCall(dels[k], who)}) \subseteq Busy(dels, C)
         /\ StartCall(dels[k], who).listed
<1> DEFINE n == StartCall(dels[k], who)
<1>1. dels[k] \in Delivery
  BY DEF Wellformed
<1>2. n \in Call /\ n.job = dels[k].job /\ n.listed
  BY <1>1 DEF StartCall, Call, Delivery
<1>3. Wellformed(q, C) /\ Busy(q, C) \subseteq Busy(dels, C)
  BY FewerDeliveries
<1> HIDE DEF n
<1>4. \A m \in 1 .. Len(q) : q[m].job # n.job
  BY <1>2 DEF Places, Wellformed
<1>5. \A c \in C : c.job # n.job
  BY <1>2 DEF Wellformed
<1>6. Wellformed(q, C \cup {n})
  BY <1>2, <1>3, <1>4, <1>5 DEF Wellformed
<1>7. Busy(q, C \cup {n}) \subseteq Busy(dels, C)
  BY <1>2, <1>3 DEF Busy
<1>q. QED
  BY <1>2, <1>6, <1>7 DEF n

\* what is left of a queue without its first k entries
LEMMA Suffix ==
  ASSUME NEW S, NEW dels \in Seq(S), NEW k \in 0 .. Len(dels)
  PROVE  /\ SubSeq(dels, k + 1, Len(dels)) \in Seq(S)
         /\ \E f : /\ Places(f, SubSeq(dels, k + 1, Len(dels)), dels)
                   /\ \A m \in 1 .. Len(SubSeq(dels, k + 1, Len(dels))) : f[m] > k
<1> DEFINE q == SubSeq(dels, k + 1, Len(dels))
           n == Len(dels)
           f == [m \in 1 .. n - k |-> m + k]
<1>1. /\ q \in Seq(S) /\ Len(q) = n - k /\ n \in Nat /\ k \in Nat /\ k <= n
      /\ \A m \in 1 .. n - k : q[m] = dels[m + k]
  OBVIOUS
<1>2. Len(dels) = n
  OBVIOUS
<1> HIDE DEF q, n
<1>3. \A m \in 1 .. n - k : f[m] = m + k /\ f[m] > k /\ f[m] \in 1 .. n
  BY <1>1
<1>4. f \in [1 .. n - k -> 1 .. n]
  BY <1>1, <1>3
<1> HIDE DEF f
<1>5. \A m, l \in 1 .. n - k : m < l => f[m] < f[l]
  BY <1>1, <1>3
<1>6. Places(f, q, dels)
  BY <1>1, <1>2, <1>3, <1>4, <1>5 DEF Places
<1>q. QED
  BY <1>1, <1>3, <1>6 DEF q, n

\* what is left of a queue without its k-th entry
LEMMA AllBut ==
  ASSUME NEW S, NEW dels \in Seq(S), NEW k \in 1 .. Len(dels)
  PROVE  LET q == SubSeq(dels, 1, k - 1) \o SubSeq(dels, k + 1, Len(dels))
         IN  /\ q \in Seq(S)
             /\ \E f : Places(f, q, dels) /\ \A m \in 1 .. Len(q) : f[m] # k
<1> DEFINE a == SubSeq(dels, 1, k - 1)
           b == SubSeq(dels, k + 1, Len(dels))
           n == Len(dels)
           f == [m \in 1 .. n - 1 |-> IF m < k THEN m ELSE m + 1]
<1>0. Len(dels) = n
  OBVIOUS
<1>1. /\ a \in Seq(S) /\ Len(a) = k - 1 /\ \A m \in 1 .. k - 1 : a[m] = dels[m]
      /\ n \in Nat /\ k \in 1 .. n
  OBVIOUS
<1>2. /\ b \in Seq(S) /\ Len(b) = n - k /\ \A m \in 1 .. n - k : b[m] = dels[m + k]
  OBVIOUS
<1> HIDE DEF a, b, n
<1> DEFINE q == a \o b
<1>3. q \in Seq(S) /\ Len(q) = n - 1
  <2>1. q \in Seq(S) /\ Len(q) = Len(a) + Len(b)
    BY <1>1, <1>2
  <2>q. QED
    BY <1>1, <1>2, <2>1
<1>4. ASSUME NEW m \in 1 .. n - 1
      PROVE  f[m] \in 1 .. n /\ f[m] # k /\ q[m] = dels[f[m]]
  <2>1. CASE m < k
    <3>1. f[m] = m /\ m \in 1 .. Len(a)
      BY <2>1, <1>1
    <3>2. q[m] = a[m]
      BY <3>1, <1>1, <1>2
    <3>q. QED
      BY <2>1, <3>1, <3>2, <1>1
  <2>2. CASE ~(m < k)
    <3>1. f[m] = m + 1 /\ m > Len(a) /\ m - Len(a) \in 1 .. n - k /\ (m - Len(a)) + k = m + 1
      BY <2>2, <1>1
    <3>2. q[m] = b[m - Len(a)]
      BY <3>1, <1>1, <1>2
    <3>q. QED
      BY <2>2, <3>1, <3>2, <1>1, <1>2
  <2>q. QED
    BY <2>1, <2>2
<1> HIDE DEF q
<1>5. f \in [1 .. n - 1 -> 1 .. n]
  BY <1>1
<1>6. \A m, l \in 1 .. n - 1 : m < l => f[m] < f[l]
  BY <1>1
<1> HIDE DEF f
<1>7. Places(f, q, dels) /\ \A m \in 1 .. Len(q) : f[m] # k
  BY <1>0, <1>3, <1>4, <1>5, <1>6 DEF Places
<1>q. QED
  BY <1>3, <1>7 DEF q, a, b, n

----------------------------------------------------------------------------
(* The delivery loop. *)

(* What a step does to the queue dels and the running calls C: it removes    *)
(* deliveries and starts callbacks for some of them.                         *)
Handled(dels, C) ==
  /\ Wellformed(deliveries', calls')
  /\ Busy(deliveries', calls') \subseteq Busy(dels, C)
  /\ \A c \in calls' : c \in C \/ c.listed
  /\ loop' \in {"off", "sleep", "deliver", "ending"}
  /\ loopAt' \in Jobs \cup {None}
  /\ DeliveriesDriven'

(* The loop only drops deliveries, and makes the head a callback.            *)
LEMMA LoopFromHandles ==
  ASSUME NEW dels, NEW hid, NEW C, Wellformed(dels, C), LoopFrom(dels, hid, C)
  PROVE  Handled(dels, C)
<1>1. dels \in Seq(Delivery)
  BY DEF Wellformed
<1>2. PICK k \in 0 .. Len(dels) :
        \/ /\ k = Len(dels)
           /\ deliveries' = <<>> /\ loop' = "ending" /\ loopAt' = None /\ calls' = C
        \/ /\ k < Len(dels)
           /\ deliveries' = SubSeq(dels, k + 1, Len(dels))
           /\ loop' = "sleep" /\ loopAt' = dels[k + 1].job /\ calls' = C
        \/ /\ k < Len(dels)
           /\ deliveries' = SubSeq(dels, k + 2, Len(dels))
           /\ loop' = "deliver" /\ loopAt' = None
           /\ calls' = C \cup {StartCall(dels[k + 1], "loop")}
  BY Zenon DEF LoopFrom
<1>3. CASE deliveries' = <<>> /\ loop' = "ending" /\ loopAt' = None /\ calls' = C
  <2>1. Places([m \in 1 .. 0 |-> 0], <<>>, dels)
    BY DEF Places
  <2>2. <<>> \in Seq(Delivery)
    OBVIOUS
  <2>3. Wellformed(<<>>, C) /\ Busy(<<>>, C) \subseteq Busy(dels, C)
    BY <2>1, <2>2, FewerDeliveries
  <2>q. QED
    BY <1>3, <2>3 DEF Handled, DeliveriesDriven
<1>4. CASE /\ k < Len(dels)
           /\ deliveries' = SubSeq(dels, k + 1, Len(dels))
           /\ loop' = "sleep" /\ loopAt' = dels[k + 1].job /\ calls' = C
  <2>1. /\ deliveries' \in Seq(Delivery)
        /\ \E f : Places(f, deliveries', dels)
    BY <1>1, <1>4, Suffix
  <2>2. Wellformed(deliveries', C) /\ Busy(deliveries', C) \subseteq Busy(dels, C)
    BY <2>1, FewerDeliveries
  <2>3. dels[k + 1] \in Delivery
    BY <1>1, <1>4
  <2>4. loopAt' \in Jobs
    BY <2>3, <1>4 DEF Delivery
  <2>q. QED
    BY <1>4, <2>2, <2>4 DEF Handled, DeliveriesDriven
<1>5. CASE /\ k < Len(dels)
           /\ deliveries' = SubSeq(dels, k + 2, Len(dels))
           /\ loop' = "deliver" /\ loopAt' = None
           /\ calls' = C \cup {StartCall(dels[k + 1], "loop")}
  <2> DEFINE p == k + 1
  <2>1. p \in 1 .. Len(dels) /\ p \in 0 .. Len(dels) /\ p + 1 = k + 2
    BY <1>1, <1>5
  <2> HIDE DEF p
  <2>2. /\ deliveries' \in Seq(Delivery)
        /\ \E f : /\ Places(f, deliveries', dels)
                  /\ \A m \in 1 .. Len(deliveries') : f[m] > p
    BY <1>1, <1>5, <2>1, Suffix
  <2>3. PICK f : /\ Places(f, deliveries', dels)
                 /\ \A m \in 1 .. Len(deliveries') : f[m] > p
    BY <2>2
  <2>4. \A m \in 1 .. Len(deliveries') : f[m] # p
    BY <2>1, <2>3
  <2>5. calls' = C \cup {StartCall(dels[p], "loop")}
    BY <1>5 DEF p
  <2>6. /\ Wellformed(deliveries', calls')
        /\ Busy(deliveries', calls') \subseteq Busy(dels, C)
        /\ StartCall(dels[p], "loop").listed
    BY <2>1, <2>2, <2>3, <2>4, <2>5, DeliveryStarts
  <2>q. QED
    BY <1>5, <2>5, <2>6 DEF Handled, DeliveriesDriven
<1>q. QED
  BY <1>2, <1>3, <1>4, <1>5

(* A queue that has got a loop is driven.                                    *)
LEMMA EnsureLoopHandles ==
  ASSUME loop \in {"off", "sleep", "deliver", "ending"}, loopAt \in Jobs \cup {None},
         NEW dels, NEW hid, NEW C, Wellformed(dels, C), EnsureLoop(dels, hid, C)
  PROVE  Handled(dels, C)
<1>1. CASE loop = "off"
  BY <1>1, LoopFromHandles DEF EnsureLoop
<1>2. CASE loop # "off"
  BY <1>2 DEF EnsureLoop, Handled, DeliveriesDriven
<1>q. QED
  BY <1>1, <1>2

----------------------------------------------------------------------------
(* Records. *)

\* records know their ids, and there are none left once everything is cleared
RecordInv ==
  /\ RecordsOK
  /\ IdsAgree
  /\ phase = "closed" => \A i \in Ids : table[i] = None

\* what ended stays ended
FinishedStay == \A j \in Jobs : status[j] \in Finished => status'[j] = status[j]

MutesOK == suppressed \subseteq Ids /\ watched \subseteq Ids

(* A registered job has an id.                                               *)
LEMMA IdOfRegistered ==
  ASSUME RecordInv, NEW j \in Jobs, status[j] # "new"
  PROVE  idOf[j] \in Ids
BY DEF RecordInv, RecordsOK, IdsAgree

(* Steps that register nothing: no record gets another id, some are forgotten.*)
LEMMA RecordsForgotten ==
  ASSUME RecordInv, RecordsOK', UNCHANGED idOf,
         \A j \in Jobs : status[j] = "new" <=> status'[j] = "new",
         \A i \in Ids : table'[i] \in {table[i], None},
         phase' = "closed" => phase = "closed" \/ \A i \in Ids : table'[i] = None
  PROVE  RecordInv'
<1>1. IdsAgree'
  BY DEF RecordInv, IdsAgree
<1>q. QED
  BY <1>1 DEF RecordInv

(* Retention, or its absence, only forgets.                                  *)
LEMMA EvictionScheduled ==
  ASSUME RecordsOK, MutesOK, NEW S \in SUBSET Ids, ScheduleEviction(S)
  PROVE  /\ timers' \subseteq Ids /\ table' \in [Ids -> Jobs \cup {None}] /\ MutesOK'
         /\ \A i \in Ids : table'[i] \in {table[i], None}
BY DEF RecordsOK, MutesOK, ScheduleEviction

(* A step that leaves the records alone.                                     *)
LEMMA RecordsUntouched ==
  ASSUME RecordInv, UNCHANGED <<recordVars, disposeVars>>
  PROVE  RecordInv' /\ FinishedStay
BY DEF RecordInv, RecordsOK, IdsAgree, FinishedStay, recordVars, disposeVars

(* A new record takes a free id.                                             *)
LEMMA RegisterRecords ==
  ASSUME RecordInv, MutesOK, NEW j \in Jobs, NEW ack \in BOOLEAN, Register(j, ack)
  PROVE  RecordInv' /\ FinishedStay /\ MutesOK'
<1>1. PICK i \in Ids : /\ table[i] = None
                       /\ idOf' = [idOf EXCEPT ![j] = i]
                       /\ table' = [table EXCEPT ![i] = j]
                       /\ suppressed' \in {suppressed \cup {i}, suppressed \ {i}}
  BY DEF Register
<1>2. /\ phase = "live" /\ status[j] = "new"
      /\ status' = [status EXCEPT ![j] = "running"]
      /\ queued' = [queued EXCEPT ![j] = j \in Spawns]
      /\ UNCHANGED <<settled, timers, phase, waitFor, watched>>
  BY DEF Register
<1>3. /\ 0 \notin Ids /\ None \notin Jobs
      /\ \A k \in Jobs : status[k] # "new" => idOf[k] \in Ids
  BY IdOfRegistered, JobsAssumption DEF Ids
<1>4. RecordsOK'
  BY <1>1, <1>2 DEF RecordInv, RecordsOK, Statuses
<1>5. IdsAgree'
  <2>1. ASSUME NEW k \in Jobs PROVE (status[k] = "new" <=> idOf[k] = 0)'
    BY <1>1, <1>2, <1>3 DEF RecordInv, RecordsOK, IdsAgree
  <2>2. ASSUME NEW n \in Ids, table'[n] # None PROVE idOf'[table'[n]] = n
    <3>1. CASE n = i
      BY <3>1, <1>1 DEF RecordInv, RecordsOK
    <3>2. CASE n # i
      <4>1. table'[n] = table[n] /\ table[n] \in Jobs /\ idOf[table[n]] = n
        BY <3>2, <1>1, <2>2 DEF RecordInv, RecordsOK, IdsAgree
      <4>2. idOf[j] = 0
        BY <1>2 DEF RecordInv, IdsAgree
      <4>q. QED
        BY <4>1, <4>2, <1>1, <1>3 DEF RecordInv, RecordsOK
    <3>q. QED
      BY <3>1, <3>2
  <2>q. QED
    BY <2>1, <2>2 DEF IdsAgree
<1>6. FinishedStay
  BY <1>2 DEF RecordInv, RecordsOK, FinishedStay, Finished
<1>7. MutesOK'
  BY <1>1, <1>2 DEF MutesOK
<1>q. QED
  BY <1>2, <1>4, <1>5, <1>6, <1>7 DEF RecordInv

(* The jobs of S, registered and not over, get the status st; what retention *)
(* decides about their ids is left open.                                     *)
LEMMA EndingRecords ==
  ASSUME RecordInv, MutesOK, NEW S \in SUBSET Jobs, NEW st \in Statuses \ {"new"},
         \A j \in S : status[j] \in {"running", "cancelled"},
         status' = [j \in Jobs |-> IF j \in S THEN st ELSE status[j]],
         settled' \in [Jobs -> BOOLEAN],
         ScheduleEviction({idOf[j] : j \in S}),
         UNCHANGED <<queued, idOf, phase, waitFor>>
  PROVE  RecordInv' /\ FinishedStay /\ MutesOK'
<1>1. {idOf[j] : j \in S} \in SUBSET Ids
  BY IdOfRegistered
<1>2. /\ timers' \subseteq Ids /\ table' \in [Ids -> Jobs \cup {None}] /\ MutesOK'
      /\ \A i \in Ids : table'[i] \in {table[i], None}
  BY <1>1, EvictionScheduled DEF RecordInv
<1>3. RecordsOK'
  BY <1>2 DEF RecordInv, RecordsOK
<1>4. /\ \A j \in Jobs : status[j] = "new" <=> status'[j] = "new"
      /\ FinishedStay
  BY DEF FinishedStay, Finished
<1>5. RecordInv'
  BY <1>2, <1>3, <1>4, RecordsForgotten
<1>q. QED
  BY <1>2, <1>4, <1>5

(* A run that settles ends a job that was running or cancelled.              *)
LEMMA RunRecords ==
  ASSUME RecordInv, MutesOK, RunSteps
  PROVE  RecordInv' /\ FinishedStay /\ MutesOK'
<1>1. ASSUME NEW j \in Jobs, MarkRunning(j) PROVE RecordInv' /\ FinishedStay /\ MutesOK'
  BY <1>1 DEF MarkRunning, RecordInv, RecordsOK, IdsAgree, FinishedStay, MutesOK, disposeVars,
              muteVars
<1>2. ASSUME NEW j \in Jobs, CancelledRunSettles(j)
      PROVE  RecordInv' /\ FinishedStay /\ MutesOK'
  <2> DEFINE S == {j}
  <2>1. status[j] = "cancelled" /\ UNCHANGED <<status, queued, idOf, phase, waitFor>>
    BY <1>2 DEF CancelledRunSettles, CanSettle, disposeVars
  <2>2. settled' \in [Jobs -> BOOLEAN]
    BY <1>2 DEF CancelledRunSettles, RecordInv, RecordsOK
  <2>3. ScheduleEviction({idOf[k] : k \in S})
    <3>1. {idOf[k] : k \in S} = {idOf[j]}
      OBVIOUS
    <3>q. QED
      BY <3>1, <1>2 DEF CancelledRunSettles
  <2>4. status' = [k \in Jobs |-> IF k \in S THEN "cancelled" ELSE status[k]]
    BY <2>1 DEF RecordInv, RecordsOK
  <2>5. "cancelled" \in Statuses \ {"new"}
    BY DEF Statuses
  <2>6. S \in SUBSET Jobs /\ \A k \in S : status[k] \in {"running", "cancelled"}
    BY <2>1
  <2> HIDE DEF S
  <2>q. QED
    BY <2>1, <2>2, <2>3, <2>4, <2>5, <2>6, EndingRecords
<1>3. ASSUME NEW j \in Jobs, NEW o \in Finished, RunSettles(j, o)
      PROVE  RecordInv' /\ FinishedStay /\ MutesOK'
  <2> DEFINE S == {j}
  <2>1. status[j] = "running" /\ UNCHANGED <<queued, idOf, phase, waitFor>>
    BY <1>3 DEF RunSettles, disposeVars
  <2>2. settled' \in [Jobs -> BOOLEAN]
    BY <1>3 DEF RunSettles, RecordInv, RecordsOK
  <2>3. ScheduleEviction({idOf[k] : k \in S})
    <3>1. {idOf[k] : k \in S} = {idOf[j]}
      OBVIOUS
    <3>q. QED
      BY <3>1, <1>3 DEF RunSettles
  <2>4. status' = [k \in Jobs |-> IF k \in S THEN o ELSE status[k]]
    BY <1>3 DEF RunSettles, RecordInv, RecordsOK
  <2>5. o \in Statuses \ {"new"}
    BY DEF Statuses, Finished
  <2>6. S \in SUBSET Jobs /\ \A k \in S : status[k] \in {"running", "cancelled"}
    BY <2>1
  <2> HIDE DEF S
  <2>q. QED
    BY <2>1, <2>2, <2>3, <2>4, <2>5, <2>6, EndingRecords
<1>4. PICK j \in Jobs : \/ MarkRunning(j) \/ CancelledRunSettles(j)
                       \/ \E o \in Finished : RunSettles(j, o)
  BY Zenon DEF RunSteps
<1>5. CASE \E o \in Finished : RunSettles(j, o)
  BY <1>3, <1>5, Zenon
<1>q. QED
  BY <1>1, <1>2, <1>4, <1>5, Zenon

(* cancel and cancelAll end running jobs.                                    *)
LEMMA CancelRecords ==
  ASSUME RecordInv, MutesOK, NEW S \in SUBSET Jobs, \A j \in S : status[j] = "running",
         CancelJobs(S)
  PROVE  RecordInv' /\ FinishedStay /\ MutesOK'
<1>1. "cancelled" \in Statuses \ {"new"}
  BY DEF Statuses
<1>2. settled' \in [Jobs -> BOOLEAN]
  BY DEF CancelJobs, RecordInv, RecordsOK
<1>3. /\ status' = [j \in Jobs |-> IF j \in S THEN "cancelled" ELSE status[j]]
      /\ ScheduleEviction({idOf[j] : j \in S})
      /\ UNCHANGED <<queued, idOf, phase, waitFor>>
      /\ \A j \in S : status[j] \in {"running", "cancelled"}
  BY DEF CancelJobs, disposeVars
<1>q. QED
  BY <1>1, <1>2, <1>3, EndingRecords

(* A retention timer forgets one id.                                         *)
LEMMA TimerRecords ==
  ASSUME RecordInv, MutesOK, NEW i \in Ids, EvictionTimer(i)
  PROVE  RecordInv' /\ FinishedStay /\ MutesOK'
<1>1. /\ timers' = timers \ {i} /\ table' = [table EXCEPT ![i] = None]
      /\ suppressed' = suppressed \ {i} /\ watched' = watched \ {i}
      /\ UNCHANGED <<status, queued, settled, idOf, phase, waitFor>>
  BY DEF EvictionTimer, disposeVars
<1>2. RecordsOK' /\ FinishedStay /\ MutesOK'
  BY <1>1 DEF RecordInv, RecordsOK, FinishedStay, MutesOK
<1>3. \A n \in Ids : table'[n] \in {table[n], None}
  BY <1>1 DEF RecordInv, RecordsOK
<1>4. RecordInv'
  BY <1>1, <1>2, <1>3, RecordsForgotten
<1>q. QED
  BY <1>2, <1>4

(* dispose ends the running jobs, waits, and forgets everything.             *)
LEMMA DisposeRecords ==
  ASSUME RecordInv, MutesOK, Dispose
  PROVE  RecordInv' /\ FinishedStay /\ MutesOK'
<1>1. CASE DisposeBegins
  <2> DEFINE ids == {idOf[j] : j \in AllRunning}
  <2>1. AllRunning \subseteq Jobs /\ \A j \in AllRunning : status[j] = "running"
    BY DEF AllRunning, Listed, RecordInv, RecordsOK
  <2>2. ids \subseteq Ids
    BY <2>1, IdOfRegistered
  <2>3. /\ phase' = "waiting"
        /\ status' = [j \in Jobs |-> IF j \in AllRunning THEN "cancelled" ELSE status[j]]
        /\ timers' \in {ids, {}}
        /\ \/ UNCHANGED table
           \/ table' = [i \in Ids |-> IF i \in ids THEN None ELSE table[i]]
        /\ suppressed' \subseteq suppressed /\ watched' \subseteq watched
        /\ waitFor' = {table'[i] : i \in Ids} \ {None}
        /\ UNCHANGED <<queued, settled, idOf>>
    BY <1>1 DEF DisposeBegins
  <2> HIDE DEF ids
  <2>4. /\ table' \in [Ids -> Jobs \cup {None}]
        /\ \A i \in Ids : table'[i] \in {table[i], None}
    BY <2>3 DEF RecordInv, RecordsOK
  <2>5. waitFor' \subseteq Jobs
    BY <2>3, <2>4
  <2>6. RecordsOK'
    BY <2>2, <2>3, <2>4, <2>5 DEF RecordInv, RecordsOK, Statuses
  <2>7. /\ \A j \in Jobs : status[j] = "new" <=> status'[j] = "new"
        /\ FinishedStay
    BY <2>1, <2>3 DEF FinishedStay, Finished
  <2>8. RecordInv'
    BY <2>3, <2>4, <2>6, <2>7, RecordsForgotten
  <2>q. QED
    BY <2>3, <2>7, <2>8 DEF MutesOK
<1>2. CASE DisposeWaited
  BY <1>2 DEF DisposeWaited, RecordInv, RecordsOK, IdsAgree, FinishedStay, MutesOK, recordVars,
              muteVars
<1>3. CASE DisposeEnds
  BY <1>3 DEF DisposeEnds, RecordInv, RecordsOK, IdsAgree, FinishedStay, MutesOK
<1>q. QED
  BY <1>1, <1>2, <1>3 DEF Dispose
----------------------------------------------------------------------------
(* The inductive invariant. *)

DrainOK ==
  drain \in [pc : {"off", "pick", "wait"}, owner : Owners \cup {None}, job : Jobs \cup {None}]

\* calls leave the set in flight only when everything is cleared
UnlistedLate == \A c \in calls : c.listed \/ phase = "closed"

QueueInv ==
  /\ QueuesOK
  /\ DeliveriesDriven
  /\ OneDeliveryPerJob
  /\ OnlyFinishedDelivered
  /\ UnlistedLate

LoopOK == loop \in {"off", "sleep", "deliver", "ending"} /\ loopAt \in Jobs \cup {None}

(* The invariant in the words of the lemmas about queues ...                 *)
LEMMA QueueInvMeans ==
  QueueInv <=> /\ MutesOK /\ LoopOK /\ DrainOK
               /\ Wellformed(deliveries, calls)
               /\ \A j \in Busy(deliveries, calls) : status[j] \in Finished
               /\ UnlistedLate /\ DeliveriesDriven
BY DEF QueueInv, QueuesOK, MutesOK, LoopOK, DrainOK, Wellformed, Busy, OneDeliveryPerJob,
       OnlyFinishedDelivered, PendingJobs

(* ... and the same of the next state.                                       *)
LEMMA QueueInvMeansPrimed ==
  QueueInv' <=> /\ MutesOK' /\ LoopOK' /\ DrainOK'
                /\ Wellformed(deliveries', calls')
                /\ \A j \in Busy(deliveries', calls') : status'[j] \in Finished
                /\ UnlistedLate' /\ DeliveriesDriven'
BY DEF QueueInv, QueuesOK, MutesOK, LoopOK, DrainOK, Wellformed, Busy, OneDeliveryPerJob,
       OnlyFinishedDelivered, PendingJobs

(* A step that starts from the queue dels and the calls C, all of them about *)
(* jobs that ended.                                                          *)
LEMMA HandledKeeps ==
  ASSUME NEW dels, NEW C, Handled(dels, C),
         \A j \in Busy(dels, C) : status'[j] \in Finished,
         \A c \in C : c.listed \/ phase' = "closed",
         MutesOK', DrainOK'
  PROVE  QueueInv'
<1>1. \A j \in Busy(deliveries', calls') : status'[j] \in Finished
  BY DEF Handled
<1>2. UnlistedLate'
  BY DEF Handled, UnlistedLate
<1>q. QED
  BY <1>1, <1>2, QueueInvMeansPrimed DEF Handled, LoopOK

\* the jobs in the delivery machinery are jobs that completed or failed
LEMMA BusyAreJobs ==
  ASSUME NEW dels, NEW C, Wellformed(dels, C)
  PROVE  Busy(dels, C) \subseteq Jobs
<1>0. dels \in Seq(Delivery) /\ C \subseteq Call
  BY DEF Wellformed
<1>1. ASSUME NEW k \in 1 .. Len(dels) PROVE dels[k].job \in Jobs
  <2>1. dels[k] \in Delivery
    BY <1>0
  <2>q. QED
    BY <2>1 DEF Delivery
<1>2. ASSUME NEW c \in C PROVE c.job \in Jobs
  BY <1>0 DEF Call
<1>q. QED
  BY <1>1, <1>2 DEF Busy

(* A step that takes nothing but deliveries out of the queue.                *)
LEMMA QuietKeeps ==
  ASSUME QueueInv, FinishedStay, MutesOK', DrainOK', UNCHANGED <<calls, loop, loopAt>>,
         phase = "closed" => phase' = "closed",
         Wellformed(deliveries', calls),
         Busy(deliveries', calls) \subseteq Busy(deliveries, calls),
         deliveries = <<>> => deliveries' = <<>>
  PROVE  QueueInv'
<1>1. /\ Wellformed(deliveries, calls) /\ LoopOK /\ UnlistedLate /\ DeliveriesDriven
      /\ \A j \in Busy(deliveries, calls) : status[j] \in Finished
  BY QueueInvMeans
<1>2. Busy(deliveries, calls) \subseteq Jobs
  BY <1>1, BusyAreJobs
<1>3. Wellformed(deliveries', calls') /\ Busy(deliveries', calls') \subseteq Busy(deliveries, calls)
  OBVIOUS
<1>4. \A j \in Busy(deliveries', calls') : status'[j] \in Finished
  BY <1>1, <1>2, <1>3 DEF FinishedStay
<1>5. UnlistedLate'
  BY <1>1 DEF UnlistedLate
<1>6. DeliveriesDriven'
  BY <1>1 DEF DeliveriesDriven
<1>7. LoopOK'
  BY <1>1 DEF LoopOK
<1>q. QED
  BY <1>3, <1>4, <1>5, <1>6, <1>7, QueueInvMeansPrimed

\* no delivery of j is queued or running, and j ended: #enqueueDelivery
LEMMA EnqueueKeeps ==
  ASSUME QueueInv, FinishedStay, MutesOK', DrainOK', phase = "closed" => phase' = "closed",
         NEW j \in Jobs, status'[j] \in Finished, NEW supp, EnqueueDelivery(j, supp),
         j \notin Busy(deliveries, calls)
  PROVE  QueueInv'
<1>1. /\ Wellformed(deliveries, calls) /\ LoopOK /\ UnlistedLate /\ DeliveriesDriven
      /\ \A k \in Busy(deliveries, calls) : status[k] \in Finished
  BY QueueInvMeans
<1>2. CASE UNCHANGED deliveryVars
  <2>1. /\ UNCHANGED <<calls, loop, loopAt>> /\ deliveries' = deliveries
    BY <1>2 DEF deliveryVars
  <2>q. QED
    BY <1>1, <2>1, QuietKeeps
<1>3. CASE EnsureLoop(Append(deliveries, [job |-> j, attempt |-> 0]), HiddenBy(supp), calls)
  <2> DEFINE d == [job |-> j, attempt |-> 0]
             q == Append(deliveries, d)
  <2>1. d \in Delivery /\ d.job = j
    BY LimitsAssumption DEF Delivery
  <2> HIDE DEF d
  <2>2. Wellformed(q, calls) /\ Busy(q, calls) = Busy(deliveries, calls) \cup {j}
    BY <1>1, <2>1, OneMoreDelivery
  <2>3. EnsureLoop(q, HiddenBy(supp), calls)
    BY <1>3 DEF d
  <2> HIDE DEF q
  <2>4. Handled(q, calls)
    BY <1>1, <2>2, <2>3, EnsureLoopHandles DEF LoopOK
  <2>5. Busy(deliveries, calls) \subseteq Jobs
    BY <1>1, BusyAreJobs
  <2>6. \A k \in Busy(q, calls) : status'[k] \in Finished
    BY <1>1, <2>2, <2>5 DEF FinishedStay
  <2>7. \A c \in calls : c.listed \/ phase' = "closed"
    BY <1>1 DEF UnlistedLate
  <2>q. QED
    BY <2>4, <2>6, <2>7, HandledKeeps
<1>q. QED
  BY <1>2, <1>3 DEF EnqueueDelivery

(* A running job has no delivery yet: its settling may queue one.            *)
LEMMA RunQueue ==
  ASSUME QueueInv, RecordInv, RunSteps
  PROVE  QueueInv'
<1>1. RecordInv' /\ FinishedStay /\ MutesOK'
  BY QueueInvMeans, RunRecords
<1>2. PICK j \in Jobs : \/ MarkRunning(j) \/ CancelledRunSettles(j)
                        \/ \E o \in Finished : RunSettles(j, o)
  BY Zenon DEF RunSteps
<1>3. UNCHANGED <<drain, phase>>
  BY <1>2 DEF MarkRunning, CancelledRunSettles, RunSettles, disposeVars
<1>4. DrainOK'
  BY <1>3, QueueInvMeans DEF DrainOK
<1>5. CASE MarkRunning(j) \/ CancelledRunSettles(j)
  <2>1. UNCHANGED deliveryVars
    BY <1>5 DEF MarkRunning, CancelledRunSettles
  <2>q. QED
    BY <1>1, <1>3, <1>4, <2>1, QueueInvMeans, QuietKeeps DEF deliveryVars
<1>6. CASE \E o \in Finished : RunSettles(j, o)
  <2>1. PICK o \in Finished : RunSettles(j, o)
    BY <1>6
  <2>2. /\ status[j] = "running" /\ status' = [status EXCEPT ![j] = o]
        /\ EnqueueDelivery(j, suppressed)
    BY <2>1 DEF RunSettles
  <2>3. status'[j] \in Finished
    BY <2>2 DEF RecordInv, RecordsOK
  <2>4. j \notin Busy(deliveries, calls)
    BY <2>2, QueueInvMeans DEF Finished
  <2>q. QED
    BY <1>1, <1>3, <1>4, <2>2, <2>3, <2>4, EnqueueKeeps
<1>q. QED
  BY <1>2, <1>5, <1>6

(* A step that handles a queue and calls that were there already.            *)
LEMMA StepKeeps ==
  ASSUME QueueInv, FinishedStay, MutesOK', DrainOK', phase = "closed" => phase' = "closed",
         NEW dels, NEW C \in SUBSET calls, Busy(dels, C) \subseteq Busy(deliveries, calls),
         Handled(dels, C)
  PROVE  QueueInv'
<1>1. /\ Wellformed(deliveries, calls) /\ UnlistedLate
      /\ \A j \in Busy(deliveries, calls) : status[j] \in Finished
  BY QueueInvMeans
<1>2. Busy(deliveries, calls) \subseteq Jobs
  BY <1>1, BusyAreJobs
<1>3. \A j \in Busy(dels, C) : status'[j] \in Finished
  BY <1>1, <1>2 DEF FinishedStay
<1>4. \A c \in C : c.listed \/ phase' = "closed"
  BY <1>1 DEF UnlistedLate
<1>q. QED
  BY <1>3, <1>4, HandledKeeps

(* resumeDeliveries looks for the id among the queued deliveries and the     *)
(* calls in flight: a record knows its id, and a call leaves that set early  *)
(* only when dispose cleared the table.                                      *)
LEMMA ResumeQueue ==
  ASSUME QueueInv, RecordInv, NEW i \in Ids, ResumeDeliveries(i)
  PROVE  QueueInv'
<1>1. /\ suppressed' = suppressed \ {i}
      /\ UNCHANGED <<recordVars, watched, drain, disposeVars>>
  BY DEF ResumeDeliveries
<1>2. RecordInv' /\ FinishedStay
  BY <1>1, RecordsUntouched
<1>3. MutesOK' /\ DrainOK' /\ (phase = "closed" => phase' = "closed")
  BY <1>1, QueueInvMeans DEF MutesOK, DrainOK, disposeVars
<1>4. CASE UNCHANGED deliveryVars
  BY <1>2, <1>3, <1>4, QueueInvMeans, QuietKeeps DEF deliveryVars
<1>5. CASE /\ table[i] # None /\ status[table[i]] \in Finished
           /\ \A j \in PendingJobs \cup InFlightJobs : idOf[j] # i
           /\ EnqueueDelivery(table[i], suppressed \ {i})
  <2>1. /\ table[i] \in Jobs /\ idOf[table[i]] = i /\ status'[table[i]] \in Finished
        /\ phase # "closed"
    BY <1>1, <1>5 DEF RecordInv, RecordsOK, IdsAgree, recordVars
  <2>2. table[i] \notin PendingJobs /\ table[i] \notin InFlightJobs
    BY <1>5, <2>1
  <2>3. \A c \in calls : c.listed
    BY <2>1 DEF QueueInv, UnlistedLate
  <2>4. table[i] \notin Busy(deliveries, calls)
    BY <2>2, <2>3 DEF Busy, PendingJobs, InFlightJobs
  <2>q. QED
    BY <1>2, <1>3, <1>5, <2>1, <2>4, EnqueueKeeps
<1>q. QED
  BY <1>4, <1>5 DEF ResumeDeliveries

\* the loop takes the first delivery out of the queue
LEMMA HeadTaken ==
  ASSUME Wellformed(deliveries, calls), deliveries # <<>>
  PROVE  /\ Wellformed(Tail(deliveries), calls)
         /\ Busy(Tail(deliveries), calls) \subseteq Busy(deliveries, calls)
         /\ LET call == StartCall(Head(deliveries), "loop")
            IN  /\ Wellformed(Tail(deliveries), calls \cup {call})
                /\ Busy(Tail(deliveries), calls \cup {call}) \subseteq Busy(deliveries, calls)
                /\ call.listed
<1>1. deliveries \in Seq(Delivery)
  BY DEF Wellformed
<1> DEFINE one == 1
<1>2. /\ one \in 1 .. Len(deliveries) /\ one \in 0 .. Len(deliveries)
      /\ Head(deliveries) = deliveries[one]
      /\ Tail(deliveries) = SubSeq(deliveries, one + 1, Len(deliveries))
  BY <1>1
<1> HIDE DEF one
<1> DEFINE q == Tail(deliveries)
<1>3. /\ q \in Seq(Delivery)
      /\ \E f : Places(f, q, deliveries) /\ \A m \in 1 .. Len(q) : f[m] > one
  BY <1>1, <1>2, Suffix
<1> HIDE DEF q
<1>4. PICK f : Places(f, q, deliveries) /\ \A m \in 1 .. Len(q) : f[m] > one
  BY <1>3
<1>5. \A m \in 1 .. Len(q) : f[m] # one
  BY <1>2, <1>4
<1>6. Wellformed(q, calls) /\ Busy(q, calls) \subseteq Busy(deliveries, calls)
  BY <1>3, <1>4, FewerDeliveries
<1>7. /\ Wellformed(q, calls \cup {StartCall(deliveries[one], "loop")})
      /\ Busy(q, calls \cup {StartCall(deliveries[one], "loop")}) \subseteq Busy(deliveries, calls)
      /\ StartCall(deliveries[one], "loop").listed
  BY <1>2, <1>3, <1>4, <1>5, DeliveryStarts
<1>q. QED
  BY <1>2, <1>6, <1>7 DEF q

(* The steps of the delivery loop.                                           *)
LEMMA LoopQueue ==
  ASSUME QueueInv, RecordInv, LoopSteps
  PROVE  QueueInv'
<1>1. UNCHANGED <<recordVars, muteVars, drain, disposeVars>>
  BY DEF LoopSteps, LoopWakes, LoopFinally
<1>2. RecordInv' /\ FinishedStay
  BY <1>1, RecordsUntouched
<1>3. MutesOK' /\ DrainOK' /\ (phase = "closed" => phase' = "closed")
  BY <1>1, QueueInvMeans DEF MutesOK, DrainOK, muteVars, disposeVars
<1>4. Wellformed(deliveries, calls) /\ LoopOK
  BY QueueInvMeans
<1>5. CASE LoopFrom(deliveries, Hidden, calls)
  <2>1. Handled(deliveries, calls)
    BY <1>4, <1>5, LoopFromHandles
  <2>q. QED
    BY <1>2, <1>3, <2>1, StepKeeps
<1>6. CASE deliveries # <<>> /\ LoopFrom(Tail(deliveries), Hidden, calls)
  <2>1. /\ Wellformed(Tail(deliveries), calls)
        /\ Busy(Tail(deliveries), calls) \subseteq Busy(deliveries, calls)
    BY <1>4, <1>6, HeadTaken
  <2>2. Handled(Tail(deliveries), calls)
    BY <1>6, <2>1, LoopFromHandles
  <2>q. QED
    BY <1>2, <1>3, <2>1, <2>2, StepKeeps
<1>7. CASE /\ deliveries # <<>> /\ deliveries' = Tail(deliveries)
           /\ loop' = "deliver" /\ loopAt' = None
           /\ calls' = calls \cup {StartCall(Head(deliveries), "loop")}
  <2>1. /\ Wellformed(deliveries', calls')
        /\ Busy(deliveries', calls') \subseteq Busy(deliveries, calls)
        /\ StartCall(Head(deliveries), "loop").listed
    BY <1>4, <1>7, HeadTaken
  <2>2. Handled(deliveries, calls)
    BY <1>7, <2>1 DEF Handled, DeliveriesDriven
  <2>q. QED
    BY <1>2, <1>3, <2>2, StepKeeps
<1>8. CASE deliveries = <<>> /\ loop' = "off" /\ UNCHANGED <<deliveries, calls, loopAt>>
  <2>1. Handled(deliveries, calls)
    BY <1>4, <1>8 DEF Handled, DeliveriesDriven, LoopOK
  <2>q. QED
    BY <1>2, <1>3, <2>1, StepKeeps
<1>q. QED
  BY <1>5, <1>6, <1>7, <1>8 DEF LoopSteps, LoopWakes, LoopFinally

(* The end of a call: it is no longer running, and when its callback threw   *)
(* its job is queued again, for another attempt.                             *)
LEMMA CallsQueue ==
  ASSUME QueueInv, RecordInv, NEW c \in calls, CallSucceeds(c) \/ CallFails(c)
  PROVE  QueueInv'
<1> DEFINE C == calls \ {c}
<1>1. UNCHANGED <<recordVars, muteVars, drain, disposeVars>>
  BY DEF CallSucceeds, CallFails, CallEnds
<1>2. RecordInv' /\ FinishedStay
  BY <1>1, RecordsUntouched
<1>3. MutesOK' /\ DrainOK' /\ (phase = "closed" => phase' = "closed")
  BY <1>1, QueueInvMeans DEF MutesOK, DrainOK, muteVars, disposeVars
<1>4. Wellformed(deliveries, calls) /\ LoopOK
  BY QueueInvMeans
<1>5. /\ Wellformed(deliveries, C) /\ Busy(deliveries, C) \subseteq Busy(deliveries, calls)
      /\ c.job \notin Busy(deliveries, C)
  BY <1>4, FewerCalls
<1>6. C \in SUBSET calls /\ c.job \in Busy(deliveries, calls)
  BY DEF Busy
<1>7. PICK dels : /\ CallEnds(c, dels)
                  /\ Wellformed(dels, C) /\ Busy(dels, C) \subseteq Busy(deliveries, calls)
  <2>1. CASE CallEnds(c, deliveries)
    BY <1>5, <2>1
  <2>2. CASE /\ c.attempt < MaxFailures
             /\ CallEnds(c, Append(deliveries, [job |-> c.job, attempt |-> c.attempt + 1]))
    <3> DEFINE d == [job |-> c.job, attempt |-> c.attempt + 1]
    <3>1. c \in Call
      BY <1>4 DEF Wellformed
    <3>2. d \in Delivery /\ d.job = c.job
      BY <2>2, <3>1, LimitsAssumption DEF Call, Delivery
    <3>3. CallEnds(c, Append(deliveries, d))
      BY <2>2
    <3> HIDE DEF d, C
    <3>4. Wellformed(Append(deliveries, d), C) /\ Busy(Append(deliveries, d), C) = Busy(deliveries, C) \cup {c.job}
      BY <1>5, <3>2, OneMoreDelivery
    <3>5. Busy(Append(deliveries, d), C) \subseteq Busy(deliveries, calls)
      BY <1>5, <1>6, <3>4
    <3>q. QED
      BY <3>3, <3>4, <3>5
  <2>q. QED
    BY <2>1, <2>2 DEF CallSucceeds, CallFails
<1>8. Handled(dels, C)
  <2>1. CASE LoopFrom(dels, Hidden, C)
    BY <1>7, <2>1, LoopFromHandles
  <2>2. CASE EnsureLoop(dels, Hidden, C)
    BY <1>4, <1>7, <2>2, EnsureLoopHandles DEF LoopOK
  <2>3. CASE dels = <<>> /\ deliveries' = dels /\ calls' = C /\ UNCHANGED <<loop, loopAt>>
    BY <1>4, <1>7, <2>3 DEF Handled, LoopOK, DeliveriesDriven
  <2>q. QED
    BY <1>7, <2>1, <2>2, <2>3 DEF CallEnds
<1> HIDE DEF C
<1>q. QED
  BY <1>2, <1>3, <1>6, <1>7, <1>8, StepKeeps

(* The owner-filtered drain takes its deliveries from the middle of the queue.*)
LEMMA DrainQueue ==
  ASSUME QueueInv, RecordInv, DrainSteps
  PROVE  QueueInv'
<1>1. UNCHANGED <<recordVars, muteVars, disposeVars>>
  BY DEF DrainSteps, DrainDelivers, DrainWaitsOrEnds, DrainResumes, DrainTimesOut
<1>2. RecordInv' /\ FinishedStay
  BY <1>1, RecordsUntouched
<1>3. MutesOK' /\ (phase = "closed" => phase' = "closed")
  BY <1>1, QueueInvMeans DEF MutesOK, muteVars, disposeVars
<1>4. Wellformed(deliveries, calls) /\ LoopOK /\ DrainOK /\ DeliveriesDriven
  BY QueueInvMeans
<1>5. CASE DrainDelivers
  <2>1. PICK k \in Selectable :
          /\ deliveries' = SubSeq(deliveries, 1, k - 1) \o SubSeq(deliveries, k + 1, Len(deliveries))
          /\ calls' = calls \cup {StartCall(deliveries[k], "drain")}
          /\ drain' = [drain EXCEPT !.pc = "wait", !.job = deliveries[k].job]
          /\ UNCHANGED <<loop, loopAt>>
    BY <1>5 DEF DrainDelivers
  <2>2. k \in 1 .. Len(deliveries) /\ deliveries[k].job \in Jobs
    BY DEF Selectable
  <2>3. DrainOK'
    <3>1. drain.owner \in Owners \cup {None}
      BY <1>4 DEF DrainOK
    <3>2. drain' = [pc |-> "wait", owner |-> drain.owner, job |-> deliveries[k].job]
      BY <1>4, <2>1 DEF DrainOK
    <3>q. QED
      BY <2>2, <3>1, <3>2 DEF DrainOK
  <2>4. deliveries \in Seq(Delivery)
    BY <1>4 DEF Wellformed
  <2>5. /\ deliveries' \in Seq(Delivery)
        /\ \E f : /\ Places(f, deliveries', deliveries)
                  /\ \A m \in 1 .. Len(deliveries') : f[m] # k
    BY <2>1, <2>2, <2>4, AllBut
  <2>6. /\ Wellformed(deliveries', calls')
        /\ Busy(deliveries', calls') \subseteq Busy(deliveries, calls)
        /\ StartCall(deliveries[k], "drain").listed
    BY <1>4, <2>1, <2>2, <2>5, DeliveryStarts
  <2>7. DeliveriesDriven' /\ LoopOK'
    <3>1. deliveries # <<>>
      BY <2>2
    <3>q. QED
      BY <1>4, <2>1, <3>1 DEF DeliveriesDriven, LoopOK
  <2>8. Handled(deliveries, calls)
    BY <2>1, <2>6, <2>7 DEF Handled, LoopOK
  <2>q. QED
    BY <1>2, <1>3, <2>3, <2>8, StepKeeps
<1>6. CASE DrainWaitsOrEnds \/ DrainResumes \/ DrainTimesOut
  <2>1. UNCHANGED <<deliveries, calls, loop, loopAt>>
    BY <1>6 DEF DrainWaitsOrEnds, DrainResumes, DrainTimesOut, deliveryVars
  <2>2. NoDrain \in [pc : {"off", "pick", "wait"}, owner : Owners \cup {None}, job : Jobs \cup {None}]
    BY DEF NoDrain
  <2>3. InFlightJobs \subseteq Jobs
    BY <1>4 DEF Wellformed, InFlightJobs, Call
  <2>4. DrainOK'
    <3>1. CASE drain' = NoDrain
      BY <3>1, <2>2 DEF DrainOK
    <3>2. CASE \E j \in InFlightJobs : drain' = [drain EXCEPT !.pc = "wait", !.job = j]
      <4>1. PICK j \in Jobs : drain' = [drain EXCEPT !.pc = "wait", !.job = j]
        BY <2>3, <3>2
      <4>2. drain' = [pc |-> "wait", owner |-> drain.owner, job |-> j] /\ drain.owner \in Owners \cup {None}
        BY <1>4, <4>1 DEF DrainOK
      <4>q. QED
        BY <4>2 DEF DrainOK
    <3>3. CASE drain' = [drain EXCEPT !.pc = "pick", !.job = None]
      <4>1. drain' = [pc |-> "pick", owner |-> drain.owner, job |-> None] /\ drain.owner \in Owners \cup {None}
        BY <1>4, <3>3 DEF DrainOK
      <4>q. QED
        BY <4>1 DEF DrainOK
    <3>q. QED
      BY <1>6, <3>1, <3>2, <3>3 DEF DrainWaitsOrEnds, DrainResumes, DrainTimesOut
  <2>q. QED
    BY <1>2, <1>3, <1>4, <2>1, <2>4, QuietKeeps
<1>q. QED
  BY <1>5, <1>6 DEF DrainSteps

(* What acknowledgeDeliveries filters out of the queue does not disturb what *)
(* stays.                                                                    *)
LEMMA UnacknowledgedOK ==
  ASSUME QueueInv, NEW I, NEW W
  PROVE  /\ Wellformed(Unacknowledged(I, W), calls)
         /\ Busy(Unacknowledged(I, W), calls) \subseteq Busy(deliveries, calls)
         /\ deliveries = <<>> => Unacknowledged(I, W) = <<>>
<1> DEFINE T == {d \in Delivery : idOf[d.job] \notin suppressed \cup W \cup I}
           q == Only(deliveries, T)
<1>1. Wellformed(deliveries, calls) /\ deliveries \in Seq(Delivery)
  BY QueueInvMeans DEF Wellformed
<1>2. Unacknowledged(I, W) = q
  BY DEF Unacknowledged
<1> HIDE DEF T
<1>3. q \in Seq(Delivery)
  <2>1. Seq(Delivery \cap T) \subseteq Seq(Delivery)
    OBVIOUS
  <2>2. q \in Seq(Delivery \cap T)
    BY <1>1, OnlyType
  <2>q. QED
    BY <2>1, <2>2
<1>4. PICK f : Places(f, q, deliveries)
  BY <1>1, OnlyPositions
<1>5. deliveries = <<>> => q = <<>>
  BY OnlyEmpty
<1> HIDE DEF q
<1>q. QED
  BY <1>1, <1>2, <1>3, <1>4, <1>5, FewerDeliveries

(* register, with or without an acknowledgement of the new id.               *)
LEMMA RegisterQueue ==
  ASSUME QueueInv, RecordInv, NEW j \in Jobs, NEW ack \in BOOLEAN, Register(j, ack)
  PROVE  QueueInv'
<1>1. RecordInv' /\ FinishedStay /\ MutesOK'
  BY QueueInvMeans, RegisterRecords
<1>2. UNCHANGED <<calls, loop, loopAt, drain, phase>>
  BY DEF Register
<1>3. \/ deliveries' = deliveries
      \/ \E i \in Ids : deliveries' = Unacknowledged({i}, watched)
  BY DEF Register
<1>4. /\ Wellformed(deliveries', calls) /\ Busy(deliveries', calls) \subseteq Busy(deliveries, calls)
      /\ deliveries = <<>> => deliveries' = <<>>
  BY <1>3, QueueInvMeans, UnacknowledgedOK
<1>5. DrainOK'
  BY <1>2, QueueInvMeans DEF DrainOK
<1>q. QED
  BY <1>1, <1>2, <1>4, <1>5, QuietKeeps

(* The methods that mute ids.                                                *)
LEMMA MuteQueue ==
  ASSUME QueueInv, RecordInv, NEW I \in SUBSET Ids,
         WatchJobs(I) \/ UnwatchJobs(I) \/ AcknowledgeDeliveries(I)
  PROVE  QueueInv'
<1>1. UNCHANGED <<recordVars, disposeVars, calls, loop, loopAt, drain>>
  BY DEF WatchJobs, UnwatchJobs, AcknowledgeDeliveries, deliveryVars
<1>2. RecordInv' /\ FinishedStay
  BY <1>1, RecordsUntouched
<1>3. MutesOK' /\ DrainOK' /\ (phase = "closed" => phase' = "closed")
  BY <1>1, QueueInvMeans
  DEF MutesOK, DrainOK, disposeVars, WatchJobs, UnwatchJobs, AcknowledgeDeliveries
<1>4. deliveries' = deliveries \/ deliveries' = Unacknowledged(I, watched)
  BY DEF WatchJobs, UnwatchJobs, AcknowledgeDeliveries, deliveryVars
<1>5. /\ Wellformed(deliveries', calls) /\ Busy(deliveries', calls) \subseteq Busy(deliveries, calls)
      /\ deliveries = <<>> => deliveries' = <<>>
  BY <1>4, QueueInvMeans, UnacknowledgedOK
<1>q. QED
  BY <1>1, <1>2, <1>3, <1>5, QuietKeeps

\* steps that end records and leave the deliveries alone
LEMMA RecordStepQueue ==
  ASSUME QueueInv, FinishedStay, MutesOK', UNCHANGED <<deliveryVars, drain>>,
         phase = "closed" => phase' = "closed"
  PROVE  QueueInv'
<1>1. DrainOK'
  BY QueueInvMeans DEF DrainOK
<1>q. QED
  BY <1>1, QueueInvMeans, QuietKeeps DEF deliveryVars

(* All public methods.                                                       *)
LEMMA ClientQueue ==
  ASSUME QueueInv, RecordInv, Client
  PROVE  QueueInv' /\ RecordInv'
<1>1. ASSUME NEW j \in Jobs, Register(j, FALSE) PROVE QueueInv' /\ RecordInv'
  BY <1>1, QueueInvMeans, RegisterQueue, RegisterRecords
<1>2. ASSUME NEW S \in SUBSET Jobs, \A j \in S : status[j] = "running", CancelJobs(S)
      PROVE  QueueInv' /\ RecordInv'
  <2>1. RecordInv' /\ FinishedStay /\ MutesOK'
    BY <1>2, QueueInvMeans, CancelRecords
  <2>2. UNCHANGED <<deliveryVars, drain>> /\ (phase = "closed" => phase' = "closed")
    BY <1>2 DEF CancelJobs, disposeVars
  <2>q. QED
    BY <2>1, <2>2, RecordStepQueue
<1>3. ASSUME NEW j \in Jobs, Cancel(j) PROVE QueueInv' /\ RecordInv'
  BY <1>2, <1>3 DEF Cancel
<1>4. ASSUME NEW own \in Owners, CancelAll(own) PROVE QueueInv' /\ RecordInv'
  <2>1. RunningOf(own) \in SUBSET Jobs /\ \A j \in RunningOf(own) : status[j] = "running"
    BY DEF RunningOf, AllRunning, Listed, RecordInv, RecordsOK
  <2>2. CancelJobs(RunningOf(own))
    BY <1>4 DEF CancelAll
  <2>q. QED
    BY <1>2, <2>1, <2>2
<1>5. ASSUME NEW own \in Owners, DrainStarts(own) PROVE QueueInv' /\ RecordInv'
  <2>1. /\ UNCHANGED <<recordVars, muteVars, deliveryVars, disposeVars>>
        /\ drain' = [pc |-> "pick", owner |-> own, job |-> None]
    BY <1>5 DEF DrainStarts
  <2>2. RecordInv' /\ FinishedStay
    BY <2>1, RecordsUntouched
  <2>3. MutesOK' /\ DrainOK' /\ (phase = "closed" => phase' = "closed")
    BY <2>1, QueueInvMeans DEF MutesOK, DrainOK, muteVars, disposeVars
  <2>q. QED
    BY <2>1, <2>2, <2>3, QueueInvMeans, QuietKeeps DEF deliveryVars
<1>6. ASSUME NEW i \in Ids, WatchJobs({i}) \/ UnwatchJobs({i}) \/ AcknowledgeDeliveries({i})
      PROVE  QueueInv' /\ RecordInv'
  <2>1. QueueInv'
    BY <1>6, MuteQueue
  <2>2. UNCHANGED <<recordVars, disposeVars>>
    BY <1>6 DEF WatchJobs, UnwatchJobs, AcknowledgeDeliveries
  <2>q. QED
    BY <2>1, <2>2, RecordsUntouched
<1>7. ASSUME NEW i \in Ids, ResumeDeliveries(i) PROVE QueueInv' /\ RecordInv'
  <2>1. UNCHANGED <<recordVars, disposeVars>>
    BY <1>7 DEF ResumeDeliveries
  <2>q. QED
    BY <1>7, <2>1, RecordsUntouched, ResumeQueue
<1>q. QED
  BY <1>1, <1>3, <1>4, <1>5, <1>6, <1>7 DEF Client

(* dispose empties the queue; the calls that are still running are no longer *)
(* listed, and this is the only step after which that is so.                 *)
LEMMA DisposeQueue ==
  ASSUME QueueInv, RecordInv, Dispose
  PROVE  QueueInv'
<1>1. RecordInv' /\ FinishedStay /\ MutesOK'
  BY QueueInvMeans, DisposeRecords
<1>2. CASE DisposeBegins \/ DisposeWaited
  <2>1. UNCHANGED <<deliveryVars, drain>> /\ phase # "closed"
    BY <1>2 DEF DisposeBegins, DisposeWaited
  <2>q. QED
    BY <1>1, <2>1, RecordStepQueue
<1>3. CASE DisposeEnds
  <2>1. /\ phase' = "closed" /\ deliveries' = <<>>
        /\ calls' = {[c EXCEPT !.listed = FALSE] : c \in calls}
        /\ UNCHANGED <<loop, loopAt, drain, status>>
    BY <1>3 DEF DisposeEnds
  <2>2. Wellformed(deliveries, calls) /\ calls \subseteq Call
    BY QueueInvMeans DEF Wellformed
  <2>3. ASSUME NEW c \in calls
        PROVE  /\ [c EXCEPT !.listed = FALSE] \in Call
               /\ [c EXCEPT !.listed = FALSE].job = c.job
    BY <2>2 DEF Call
  <2>4. /\ \A u \in calls' : \E c \in calls : u = [c EXCEPT !.listed = FALSE] /\ u.job = c.job
        /\ calls' \subseteq Call
    BY <2>1, <2>3
  <2>5. \A u, v \in calls' : u.job = v.job => u = v
    <3>1. SUFFICES ASSUME NEW u \in calls', NEW v \in calls', u.job = v.job PROVE u = v
      OBVIOUS
    <3>2. PICK c \in calls : u = [c EXCEPT !.listed = FALSE] /\ u.job = c.job
      BY <2>4
    <3>3. PICK d \in calls : v = [d EXCEPT !.listed = FALSE] /\ v.job = d.job
      BY <2>4
    <3>4. c = d
      BY <2>2, <3>1, <3>2, <3>3 DEF Wellformed
    <3>q. QED
      BY <3>2, <3>3, <3>4, Zenon
  <2>6. Wellformed(deliveries', calls')
    BY <2>1, <2>4, <2>5 DEF Wellformed
  <2>7. Busy(deliveries', calls') \subseteq Busy(deliveries, calls)
    BY <2>1, <2>4 DEF Busy
  <2>8. \A j \in Busy(deliveries', calls') : status'[j] \in Finished
    BY <2>1, <2>7, QueueInvMeans
  <2>9. LoopOK' /\ DrainOK' /\ UnlistedLate' /\ DeliveriesDriven'
    BY <2>1, QueueInvMeans DEF LoopOK, DrainOK, UnlistedLate, DeliveriesDriven
  <2>q. QED
    BY <1>1, <2>6, <2>8, <2>9, QueueInvMeansPrimed
<1>q. QED
  BY <1>2, <1>3 DEF Dispose

(* The fresh manager.                                                        *)
LEMMA InitQueue == Init => RecordInv /\ QueueInv
<1> SUFFICES ASSUME Init PROVE RecordInv /\ QueueInv
  OBVIOUS
<1>1. RecordInv
  BY DEF Init, RecordInv, RecordsOK, IdsAgree, Statuses, Ids
<1>2. MutesOK /\ LoopOK /\ DrainOK
  BY DEF Init, MutesOK, LoopOK, DrainOK, NoDrain
<1>3. deliveries = <<>> /\ calls = {}
  BY DEF Init
<1>4. Wellformed(deliveries, calls) /\ Busy(deliveries, calls) = {}
  BY <1>3 DEF Wellformed, Busy
<1>5. UnlistedLate /\ DeliveriesDriven
  BY <1>3 DEF UnlistedLate, DeliveriesDriven
<1>q. QED
  BY <1>1, <1>2, <1>4, <1>5, QueueInvMeans

(* Every step keeps records and queues in order.                             *)
LEMMA NextQueue ==
  ASSUME RecordInv, QueueInv, [Next]_mgrVars
  PROVE  RecordInv' /\ QueueInv'
<1>0. MutesOK
  BY QueueInvMeans
<1>1. CASE RunSteps
  BY <1>0, <1>1, RunRecords, RunQueue
<1>2. CASE LoopSteps
  <2>1. UNCHANGED <<recordVars, disposeVars>>
    BY <1>2 DEF LoopSteps, LoopWakes, LoopFinally
  <2>q. QED
    BY <1>2, <2>1, RecordsUntouched, LoopQueue
<1>3. CASE DrainSteps
  <2>1. UNCHANGED <<recordVars, disposeVars>>
    BY <1>3 DEF DrainSteps, DrainDelivers, DrainWaitsOrEnds, DrainResumes, DrainTimesOut
  <2>q. QED
    BY <1>3, <2>1, RecordsUntouched, DrainQueue
<1>4. ASSUME NEW i \in Ids, EvictionTimer(i) PROVE RecordInv' /\ QueueInv'
  <2>1. RecordInv' /\ FinishedStay /\ MutesOK'
    BY <1>0, <1>4, TimerRecords
  <2>2. UNCHANGED <<deliveryVars, drain>> /\ (phase = "closed" => phase' = "closed")
    BY <1>4 DEF EvictionTimer, disposeVars
  <2>q. QED
    BY <2>1, <2>2, RecordStepQueue
<1>5. ASSUME NEW c \in calls, CallSucceeds(c) \/ CallFails(c) PROVE RecordInv' /\ QueueInv'
  <2>1. UNCHANGED <<recordVars, disposeVars>>
    BY <1>5 DEF CallSucceeds, CallFails, CallEnds
  <2>q. QED
    BY <1>5, <2>1, RecordsUntouched, CallsQueue
<1>6. CASE Client
  BY <1>6, ClientQueue
<1>7. CASE Dispose
  BY <1>0, <1>7, DisposeRecords, DisposeQueue
<1>8. CASE UNCHANGED mgrVars
  <2>1. RecordInv' /\ FinishedStay
    BY <1>8, RecordsUntouched DEF mgrVars, recordVars, disposeVars
  <2>2. MutesOK' /\ UNCHANGED <<deliveryVars, drain, phase>>
    BY <1>0, <1>8 DEF mgrVars, MutesOK, deliveryVars
  <2>q. QED
    BY <2>1, <2>2, RecordStepQueue
<1>q. QED
  BY <1>1, <1>2, <1>3, <1>4, <1>5, <1>6, <1>7, <1>8 DEF Next

(* The inductive invariant holds for every number of jobs, ids, owners and   *)
(* failures, with or without retention, however late runs end.               *)
THEOREM QueueInvHolds == Spec => [](RecordInv /\ QueueInv)
<1>1. Init => RecordInv /\ QueueInv
  BY InitQueue
<1>2. (RecordInv /\ QueueInv) /\ [Next]_mgrVars => (RecordInv /\ QueueInv)'
  BY NextQueue
<1>q. QED
  BY <1>1, <1>2, PTL DEF Spec

(* Type correctness of the manager's whole state.                            *)
THEOREM ManagerTypes == Spec => []TypeOK
<1>1. RecordInv /\ QueueInv => TypeOK
  BY DEF RecordInv, QueueInv, TypeOK
<1>q. QED
  BY <1>1, QueueInvHolds, PTL

(* A queued delivery always has a delivery loop that will look at it,        *)
(* whatever was queued while the loop slept, delivered or was ending.        *)
THEOREM DeliveriesHaveALoop == Spec => []DeliveriesDriven
<1>1. QueueInv => DeliveriesDriven
  BY DEF QueueInv
<1>q. QED
  BY <1>1, QueueInvHolds, PTL

(* Neither resumeDeliveries nor a retry ever puts a job twice into the       *)
(* delivery machinery: "so the result is still delivered exactly once".      *)
THEOREM NoJobDeliveredTwice == Spec => []OneDeliveryPerJob
<1>1. QueueInv => OneDeliveryPerJob
  BY DEF QueueInv
<1>q. QED
  BY <1>1, QueueInvHolds, PTL

(* Whatever is queued or being delivered belongs to a job that completed or  *)
(* failed: the text of a cancelled job never goes out.                       *)
THEOREM CancelledNeverDelivered == Spec => []OnlyFinishedDelivered
<1>1. QueueInv => OnlyFinishedDelivered
  BY DEF QueueInv
<1>q. QED
  BY <1>1, QueueInvHolds, PTL
============================================================================
