-------------------------- MODULE ToolBatch_proof --------------------------
(***************************************************************************)
(* For every number of calls and every mix of shared and exclusive ones:   *)
(* the order around exclusive calls, the effect of steering and of an      *)
(* abort on calls that have not begun, and one answer per call.            *)
(***************************************************************************)
EXTENDS ToolBatch, WellFoundedInduction, TLAPS

\* a peek was made only by a call that has its result
SawLate == \A c \in Calls : saw[c] => pc[c] \in {"peek", "done"}

\* a task that found steering and ended has interrupted the batch
SawInterrupts == \A c \in Calls : pc[c] = "done" /\ saw[c] => Stopped

IInv == TypeOK /\ SawLate /\ SawInterrupts /\ ExclusiveInOrder

\* A non-empty set of calls below a bound has a last one.
LEMMA LastExists ==
  ASSUME NEW S \in SUBSET Calls, S # {}
  PROVE  \E m \in S : \A e \in S : e <= m
<1> DEFINE T == {N - e : e \in S}
<1>1. T \subseteq Nat /\ T # {}
  BY BatchAssumption DEF Calls
<1>2. PICK t \in T : \A u \in T : ~(<<u, t>> \in OpToRel(<, Nat))
  <2> HIDE DEF T
  <2> QED BY <1>1, WFMin, NatLessThanWellFounded
<1>3. \A u \in T : ~(u < t)
  BY <1>1, <1>2 DEF OpToRel
<1>4. PICK m \in S : t = N - m
  OBVIOUS
<1>5. ASSUME NEW e \in S PROVE e <= m
  <2>1. N - e \in T
    OBVIOUS
  <2>2. ~(N - e < N - m)
    BY <1>3, <1>4, <2>1
  <2> QED BY <2>2, BatchAssumption DEF Calls
<1> QED BY <1>4, <1>5

\* A call that is ready may go next: whatever has to precede it is over.  Only
\* its nearest predecessors are awaited; the last exclusive call in between, if
\* any, is one of them, and the order around that call covers the rest.
LEMMA ReadyInOrder ==
  ASSUME TypeOK, ExclusiveInOrder, NEW d \in Calls, Ready(d),
         NEW c \in Calls, c < d, c \in exclusive \/ d \in exclusive
  PROVE  pc[c] = "done"
<1> DEFINE Between == {e \in exclusive : c < e /\ e < d}
<1>1. CASE Between = {}
  <2>1. c \in WaitsFor(d)
    BY <1>1, BatchAssumption DEF WaitsFor, Calls
  <2> QED BY <2>1 DEF Ready
<1>2. CASE Between # {}
  <2>1. Between \in SUBSET Calls
    BY DEF TypeOK
  <2>2. PICK m \in Between : \A e \in Between : e <= m
    <3> HIDE DEF Between
    <3> QED BY <1>2, <2>1, LastExists
  <2>3. m \in exclusive /\ m \in Calls /\ c < m /\ m < d
    BY <2>2 DEF TypeOK
  <2>4. \A e \in exclusive : ~(m < e /\ e < d)
    BY <2>2, <2>3, BatchAssumption DEF TypeOK, Calls
  <2>5. m \in WaitsFor(d)
    BY <2>3, <2>4, BatchAssumption DEF WaitsFor, Calls
  <2>6. pc[m] = "done"
    BY <2>5 DEF Ready
  <2> QED BY <2>3, <2>6 DEF ExclusiveInOrder
<1> QED BY <1>1, <1>2

LEMMA InitIInv == Init => IInv
BY DEF Init, IInv, TypeOK, SawLate, SawInterrupts, ExclusiveInOrder, Underway, Results

\* What every step of a task leaves to show about the order: it moves one call,
\* and out of "waiting" only when that call is ready.
LEMMA OrderStep ==
  ASSUME IInv, NEW c \in Calls, NEW to \in Underway \cup {"done"},
         pc[c] # "done", pc[c] = "waiting" => Ready(c),
         Moves(c, to), UNCHANGED exclusive
  PROVE  ExclusiveInOrder'
<1> USE DEF IInv
<1> SUFFICES ASSUME NEW a \in Calls, NEW b \in Calls, a < b,
                    a \in exclusive \/ b \in exclusive, pc'[b] # "waiting"
             PROVE  pc'[a] = "done"
  BY DEF ExclusiveInOrder
<1>1. pc' = [pc EXCEPT ![c] = to] /\ pc \in [Calls -> Underway \cup {"waiting", "done"}]
  BY DEF Moves, TypeOK
<1>2. pc[a] = "done"
  <2>1. CASE pc[b] = "waiting"
    <3>1. b = c
      BY <1>1, <2>1
    <3> QED BY <2>1, <3>1, ReadyInOrder
  <2>2. CASE pc[b] # "waiting"
    BY <2>2 DEF ExclusiveInOrder
  <2> QED BY <2>1, <2>2
<1> QED BY <1>1, <1>2

\* The emission of a result, wherever it happens.
LEMMA EmitIInv ==
  ASSUME IInv, NEW c \in Calls, NEW r \in Results, pc[c] \in Underway \ {"peek"},
         Emits(c, r), work' \in [Calls -> {"none", "ok", "bad", "threw"}],
         UNCHANGED <<batch, interrupted, env, returned>>
  PROVE  IInv'
<1> DEFINE to == IF immediate /\ ~Stopped THEN "peek" ELSE "done"
<1>1. Moves(c, to) /\ to \in {"peek", "done"}
  BY DEF Emits
<1>2. result' = [result EXCEPT ![c] = r] /\ saw' = [saw EXCEPT ![c] = immediate /\ ~Stopped /\ steering]
  BY DEF Emits
<1>3. TypeOK'
  BY <1>1, <1>2 DEF IInv, TypeOK, Moves, batch, env, Underway
<1>4. SawLate'
  BY <1>1, <1>2 DEF IInv, TypeOK, SawLate, Moves, Underway
<1>5. SawInterrupts'
  BY <1>1, <1>2 DEF IInv, TypeOK, SawLate, SawInterrupts, Moves, Stopped, env, Underway
<1>6. ExclusiveInOrder'
  <2> HIDE DEF to
  <2> QED BY <1>1, OrderStep DEF batch, Underway
<1> QED BY <1>3, <1>4, <1>5, <1>6 DEF IInv

\* A step of a task that emits nothing and does not touch the steering flags.
LEMMA MoveIInv ==
  ASSUME IInv, NEW c \in Calls, NEW to \in {"before", "executing", "after"},
         pc[c] \in {"waiting", "before", "executing"}, pc[c] = "waiting" => Ready(c),
         Moves(c, to), work' \in [Calls -> {"none", "ok", "bad", "threw"}],
         UNCHANGED <<batch, result, saw, interrupted, env, returned>>
  PROVE  IInv'
<1>1. TypeOK'
  BY DEF IInv, TypeOK, Moves, batch, env, Underway
<1>2. SawLate' /\ SawInterrupts'
  BY DEF IInv, TypeOK, SawLate, SawInterrupts, Moves, Stopped, env
<1>3. ExclusiveInOrder'
  BY OrderStep DEF batch, Underway
<1> QED BY <1>1, <1>2, <1>3 DEF IInv

LEMMA ReportIInv ==
  ASSUME IInv, NEW c \in Calls, NEW isError \in BOOLEAN, NEW real \in Results,
         pc[c] \in Underway \ {"peek"}, Reports(c, isError, real),
         work' \in [Calls -> {"none", "ok", "bad", "threw"}],
         UNCHANGED <<batch, interrupted, env, returned>>
  PROVE  IInv'
<1> DEFINE r == IF interrupted /\ isError THEN "skipped" ELSE real
<1>1. r \in Results /\ Emits(c, r)
  BY DEF Reports, Results
<1> HIDE DEF r
<1> QED BY <1>1, EmitIInv

LEMMA TaskIInv == ASSUME IInv, NEW c \in Calls, Task(c) PROVE IInv'
<1> USE DEF Underway, Results
<1>1. CASE SkipsCall(c)
  <2> USE <1>1 DEF SkipsCall
  <2>1. TypeOK' /\ SawLate' /\ SawInterrupts'
    BY DEF IInv, TypeOK, SawLate, SawInterrupts, Moves, Stopped, batch, env, Ready
  <2>2. ExclusiveInOrder'
    BY OrderStep DEF batch, Ready
  <2> QED BY <2>1, <2>2 DEF IInv
<1>2. CASE AbortsCall(c)
  <2> USE <1>2 DEF AbortsCall
  <2>1. TypeOK' /\ SawLate' /\ SawInterrupts'
    BY DEF IInv, TypeOK, SawLate, SawInterrupts, Moves, Stopped, batch, env, Ready
  <2>2. ExclusiveInOrder'
    BY OrderStep DEF batch, Ready
  <2> QED BY <2>1, <2>2 DEF IInv
<1>3. CASE StartsCall(c)
  BY <1>3, MoveIInv DEF StartsCall, Ready, IInv, TypeOK
<1>4. CASE StartFails(c)
  <2>1. work' \in [Calls -> {"none", "ok", "bad", "threw"}]
    BY <1>4 DEF StartFails, IInv, TypeOK
  <2> QED BY <1>4, <2>1, MoveIInv DEF StartFails, Ready
<1>5. CASE Executes(c)
  BY <1>5, MoveIInv DEF Executes, IInv, TypeOK
<1>6. CASE StoppedBefore(c)
  BY <1>6, ReportIInv DEF StoppedBefore, IInv, TypeOK
<1>7. CASE Throws(c)
  <2>1. work' \in [Calls -> {"none", "ok", "bad", "threw"}]
    BY <1>7 DEF Throws, IInv, TypeOK
  <2>2. CASE Stopped
    BY <1>7, <2>1, <2>2, ReportIInv DEF Throws
  <2>3. CASE ~Stopped
    BY <1>7, <2>1, <2>3, MoveIInv DEF Throws
  <2> QED BY <2>2, <2>3
<1>8. CASE Completes(c)
  <2>1. work' \in [Calls -> {"none", "ok", "bad", "threw"}]
    BY <1>8 DEF Completes, IInv, TypeOK
  <2> QED BY <1>8, <2>1, MoveIInv DEF Completes
<1>9. CASE AfterReturns(c)
  <2>1. work' \in [Calls -> {"none", "ok", "bad", "threw"}]
    BY <1>9 DEF AfterReturns, IInv, TypeOK
  <2>2. PICK isError \in BOOLEAN : Reports(c, isError, IF isError THEN "error" ELSE "ok")
    BY <1>9 DEF AfterReturns
  <2> QED BY <1>9, <2>1, <2>2, ReportIInv DEF AfterReturns
<1>10. CASE ChecksSteering(c)
  <2> USE <1>10 DEF ChecksSteering
  <2>1. TypeOK' /\ SawLate' /\ SawInterrupts'
    BY DEF IInv, TypeOK, SawLate, SawInterrupts, Moves, Stopped, batch, env
  <2>2. ExclusiveInOrder'
    BY OrderStep DEF batch
  <2> QED BY <2>1, <2>2 DEF IInv
<1> QED BY <1>1, <1>2, <1>3, <1>4, <1>5, <1>6, <1>7, <1>8, <1>9, <1>10 DEF Task

LEMMA NextIInv == IInv /\ [Next]_vars => IInv'
<1> SUFFICES ASSUME IInv, [Next]_vars PROVE IInv'
  OBVIOUS
<1>1. ASSUME NEW c \in Calls, Task(c) PROVE IInv'
  BY <1>1, TaskIInv
<1>2. CASE Sweep
  BY <1>2 DEF Sweep, IInv, TypeOK, SawLate, SawInterrupts, ExclusiveInOrder,
              batch, env, Stopped, Results, Underway
<1>3. CASE UserSteers
  BY <1>3 DEF UserSteers, IInv, TypeOK, SawLate, SawInterrupts, ExclusiveInOrder,
              batch, Stopped
<1>4. CASE UserAborts
  BY <1>4 DEF UserAborts, IInv, TypeOK, SawLate, SawInterrupts, ExclusiveInOrder,
              batch, Stopped
<1>5. CASE UNCHANGED vars
  BY <1>5 DEF vars, batch, env, IInv, TypeOK, SawLate, SawInterrupts,
              ExclusiveInOrder, Stopped
<1> QED BY <1>1, <1>2, <1>3, <1>4, <1>5 DEF Next

\* The invariant holds for every number of calls.
THEOREM BatchInvariant == Spec => []IInv
BY InitIInv, NextIInv, PTL DEF Spec

\* The type invariant, with no result before the tool and its hooks are done.
THEOREM BatchTypes == Spec => []TypeOK
<1>1. IInv => TypeOK
  BY DEF IInv
<1> QED BY <1>1, BatchInvariant, PTL

\* Calls around an exclusive one run in the order of the message.
THEOREM ExclusiveCallsInOrder == Spec => []ExclusiveInOrder
<1>1. IInv => ExclusiveInOrder
  BY DEF IInv
<1> QED BY <1>1, BatchInvariant, PTL

\* An exclusive call overlaps with no other call of the batch.
THEOREM ExclusiveCallsAlone ==
  Spec => [](\A c, d \in Calls :
               c \in exclusive /\ c # d /\ pc[c] \in Underway => pc[d] \notin Underway)
<1>1. IInv => \A c, d \in Calls :
                c \in exclusive /\ c # d /\ pc[c] \in Underway => pc[d] \notin Underway
  BY BatchAssumption DEF IInv, ExclusiveInOrder, Underway, Calls
<1> QED BY <1>1, BatchInvariant, PTL

----------------------------------------------------------------------------
\* Only these steps let a call begin, or go on to its tool.
LEMMA SteerStep == IInv /\ [Next]_vars =>
  \A c, d \in Calls :
    pc[c] = "waiting" /\ pc'[c] \in Underway => ~(pc[d] = "done" /\ saw[d])
<1> SUFFICES ASSUME IInv, [Next]_vars, NEW c \in Calls, NEW d \in Calls,
                    pc[c] = "waiting", pc'[c] \in Underway, pc[d] = "done", saw[d]
             PROVE  FALSE
  OBVIOUS
<1>1. Stopped
  BY DEF IInv, SawInterrupts
<1>2. PICK e \in Calls : Task(e)
  BY DEF Next, vars, Sweep, UserSteers, UserAborts, Underway
<1>3. e = c
  <2>1. \E to : Moves(e, to)
    BY <1>2 DEF Task, SkipsCall, AbortsCall, StartsCall, StartFails, Executes, StoppedBefore,
                Throws, Completes, AfterReturns, ChecksSteering, Reports, Emits
  <2>2. PICK to : pc' = [pc EXCEPT ![e] = to]
    BY <2>1 DEF Moves
  <2> QED BY <2>2 DEF IInv, TypeOK, Underway
<1>4. SkipsCall(c) \/ AbortsCall(c)
  BY <1>1, <1>2, <1>3 DEF Task, StartsCall, StartFails, Executes, StoppedBefore, Throws,
                           Completes, AfterReturns, ChecksSteering
<1> QED BY <1>4 DEF SkipsCall, AbortsCall, Moves, IInv, TypeOK, Underway

\* Once a call has found a steering message and ended, no call begins.
THEOREM SteeringStopsTheRest == Spec => SteerStopsTheRest
<1>1. IInv /\ [Next]_vars =>
        [\A c, d \in Calls :
           pc[c] = "waiting" /\ pc'[c] \in Underway => ~(pc[d] = "done" /\ saw[d])]_vars
  BY SteerStep
<1> QED BY <1>1, BatchInvariant, PTL DEF Spec, SteerStopsTheRest

----------------------------------------------------------------------------
\* The batch implements its abstract specification.

LEMMA PairingInit == Init => Pairing!Init
BY DEF Init, Pairing!Init

\* a task answers its own call at most once and no other
LEMMA TaskPairs ==
  ASSUME IInv, NEW c \in Calls, Task(c)
  PROVE  /\ UNCHANGED returned
         /\ \/ UNCHANGED result
            \/ result[c] = "none" /\ \E r \in Results : result' = [result EXCEPT ![c] = r]
<1>1. UNCHANGED returned
  BY DEF Task, SkipsCall, AbortsCall, StartsCall, StartFails, Executes, StoppedBefore,
         Throws, Completes, AfterReturns, ChecksSteering
<1>2. result[c] = "none" \/ pc[c] \in {"peek", "done"}
  BY DEF IInv, TypeOK
<1>3. ASSUME pc[c] \notin {"peek", "done"}
      PROVE  UNCHANGED result \/ \E r \in Results : result' = [result EXCEPT ![c] = r]
  <2>1. \A isError \in BOOLEAN, real \in Results : Reports(c, isError, real) =>
           \E r \in Results : result' = [result EXCEPT ![c] = r]
    BY DEF Reports, Emits, Results
  <2> QED BY <2>1 DEF Task, SkipsCall, AbortsCall, StartsCall, StartFails, Executes,
             StoppedBefore, Throws, Completes, AfterReturns, ChecksSteering, Results
<1>4. CASE pc[c] \in {"peek", "done"}
  BY <1>4 DEF Task, SkipsCall, AbortsCall, StartsCall, StartFails, Executes, Ready,
         StoppedBefore, Throws, Completes, AfterReturns, ChecksSteering
<1> QED BY <1>1, <1>2, <1>3, <1>4

\* a batch that has returned has no task left to act
ReturnedIsOver == returned => \A c \in Calls : pc[c] = "done"

LEMMA ReturnedStep == IInv /\ ReturnedIsOver /\ [Next]_vars => ReturnedIsOver'
<1> SUFFICES ASSUME IInv, ReturnedIsOver, [Next]_vars PROVE ReturnedIsOver'
  OBVIOUS
<1>1. ASSUME NEW c \in Calls, Task(c) PROVE ReturnedIsOver'
  <2>1. UNCHANGED returned
    BY <1>1, TaskPairs
  <2>2. pc[c] # "done"
    BY <1>1 DEF Task, SkipsCall, AbortsCall, StartsCall, StartFails, Executes, Ready,
         StoppedBefore, Throws, Completes, AfterReturns, ChecksSteering
  <2> QED BY <2>1, <2>2 DEF ReturnedIsOver
<1>2. CASE ~\E c \in Calls : Task(c)
  BY <1>2 DEF Next, Sweep, UserSteers, UserAborts, vars, ReturnedIsOver
<1> QED BY <1>1, <1>2

LEMMA PairingStep ==
  IInv /\ IInv' /\ ReturnedIsOver /\ [Next]_vars => [Pairing!Next]_(Pairing!vars)
<1> SUFFICES ASSUME IInv, IInv', ReturnedIsOver, [Next]_vars
             PROVE  Pairing!Next \/ UNCHANGED <<result, returned>>
  BY DEF Pairing!vars
<1>0. /\ result \in [Calls -> Results \cup {"none"}]
      /\ result' \in [Calls -> Results \cup {"none"}]
      /\ returned' \in BOOLEAN
  BY DEF IInv, TypeOK
<1>1. ASSUME NEW c \in Calls, Task(c)
      PROVE  Pairing!Next \/ UNCHANGED <<result, returned>>
  <2>1. UNCHANGED returned
    BY <1>1, TaskPairs
  <2>2. ~returned
    BY <1>1 DEF ReturnedIsOver, Task, SkipsCall, AbortsCall, StartsCall, StartFails, Executes,
         Ready, StoppedBefore, Throws, Completes, AfterReturns, ChecksSteering
  <2>3. CASE UNCHANGED result
    BY <2>1, <2>3
  <2>4. CASE ~UNCHANGED result
    <3>1. result[c] = "none"
      BY <1>1, <2>4, TaskPairs
    <3>2. PICK r \in Results : result' = [result EXCEPT ![c] = r]
      BY <1>1, <2>4, TaskPairs
    <3>3. \A d \in Calls : result[d] # "none" => result'[d] = result[d]
      BY <1>0, <3>1, <3>2
    <3> QED BY <1>0, <2>1, <2>2, <3>3 DEF Pairing!Next
  <2> QED BY <2>3, <2>4
<1>2. CASE Sweep
  <2>1. \A c \in Calls : result'[c] = IF result[c] = "none" THEN "skipped" ELSE result[c]
    BY <1>2 DEF Sweep
  <2>2. \A c \in Calls : /\ result[c] # "none" => result'[c] = result[c]
                         /\ result'[c] # "none"
    BY <2>1
  <2> QED BY <1>0, <1>2, <2>2 DEF Sweep, Pairing!Next
<1>3. CASE UserSteers \/ UserAborts \/ UNCHANGED vars
  BY <1>3 DEF UserSteers, UserAborts, vars
<1> QED BY <1>1, <1>2, <1>3 DEF Next

\* Every call is answered exactly once, and the batch returns with all answers.
THEOREM BatchPairs == Spec => ImplementsPairing
<1>1. Init => ReturnedIsOver
  BY DEF Init, ReturnedIsOver
<1> QED BY <1>1, PairingInit, PairingStep, ReturnedStep, BatchInvariant, PTL
        DEF Spec, ImplementsPairing, Pairing!Spec
=============================================================================
