--------------------------- MODULE AgentLoop_proof ---------------------------
(***************************************************************************)
(* Proofs about AgentLoop, for every set of messages, mode and limit: the   *)
(* state keeps its types; no queued message is lost, doubled or overtaken;  *)
(* an aborted run leaves the queued messages to the next one; and without   *)
(* leak mitigation one-at-a-time mode gives the model one steering message  *)
(* at a time.                                                               *)
(***************************************************************************)
EXTENDS AgentLoop, SequenceFilter_proof

\* the sequences of messages ...
SeqsOK ==
  /\ steering \in Seq(Steers) /\ followUps \in Seq(FollowUps)
  /\ pending \in Seq(Msgs) /\ log \in Seq(Msgs) /\ sent \in Seq(Msgs)

\* ... and the rest of the state
ControlOK ==
  /\ answered \in 0 .. Len(log)
  /\ last \in {"none", "user", "assistant", "toolResult"}
  /\ pc \in {"off", "turn", "call", "tools", "yield", "drain", "ended"}
  /\ more \in BOOLEAN /\ aborted \in BOOLEAN
  /\ leaks \in 0 .. 2 /\ pauses \in 0 .. MaxPauses
  /\ prompt \in {"none", "setup", "run"} /\ cancelled \in BOOLEAN
  /\ resume \in BOOLEAN /\ flush \in BOOLEAN /\ aborts \in 0 .. MaxAborts

\* where a poll overwrites the pending messages there are none
PendingClear == pc \in {"off", "call", "tools", "yield", "ended"} => pending = <<>>

NoneTwice(s) == \A k, n \in 1 .. Len(s) : s[k] = s[n] => k = n

\* the inductive invariant
IInv == SeqsOK /\ ControlOK /\ PendingClear /\ NoneTwice(sent) /\ QueuesAreFaithful

----------------------------------------------------------------------------
(* Queues. *)

(* What #dequeueSteeringMessages and #dequeueFollowUpMessages take from the  *)
(* front of a queue, and what they leave.                                    *)
LEMMA Dequeued ==
  ASSUME NEW S, NEW q \in Seq(S)
  PROVE  /\ Taken(q) \in Seq(S) /\ Left(q) \in Seq(S)
         /\ Taken(q) \o Left(q) = q
         /\ OneAtATime => Len(Taken(q)) <= 1
<1>1. CASE OneAtATime /\ q # <<>>
  <2>1. Head(q) \in S /\ Tail(q) \in Seq(S)
    BY <1>1
  <2>2. <<Head(q)>> \o Tail(q) = q
    BY <1>1
  <2>q. QED
    BY <1>1, <2>1, <2>2 DEF Taken, Left
<1>2. CASE ~(OneAtATime /\ q # <<>>)
  BY <1>2 DEF Taken, Left
<1>q. QED
  BY <1>1, <1>2

(* Injecting the pending messages moves them: nothing else enters.           *)
LEMMA ElementsOfConcat ==
  ASSUME NEW s \in Seq(Msgs), NEW t \in Seq(Msgs)
  PROVE  Elements(s \o t) \subseteq Elements(s) \cup Elements(t)
<1> SUFFICES ASSUME NEW k \in 1 .. Len(s \o t)
             PROVE  (s \o t)[k] \in Elements(s) \cup Elements(t)
  BY DEF Elements
<1>1. CASE k <= Len(s)
  BY <1>1 DEF Elements
<1>2. CASE k > Len(s)
  <2>1. k - Len(s) \in 1 .. Len(t) /\ (s \o t)[k] = t[k - Len(s)]
    BY <1>2
  <2>q. QED
    BY <2>1 DEF Elements
<1>q. QED
  BY <1>1, <1>2

(* Taking back the last message of a queue.                                  *)
LEMMA FrontAndLast ==
  ASSUME NEW S, NEW q \in Seq(S), q # <<>>
  PROVE  /\ Front(q) \in Seq(S) /\ q[Len(q)] \in S
         /\ q = Append(Front(q), q[Len(q)])
<1>0. Len(q) \in Nat \ {0} /\ q[Len(q)] \in S
  BY EmptySeq
<1>1. /\ Front(q) \in Seq(S) /\ Len(Front(q)) = Len(q) - 1
      /\ \A i \in 1 .. Len(q) - 1 : Front(q)[i] = q[i]
  <2>1. ASSUME NEW n \in 1 .. Len(q)
        PROVE  /\ SubSeq(q, 1, n - 1) \in Seq(S) /\ Len(SubSeq(q, 1, n - 1)) = n - 1
               /\ \A i \in 1 .. n - 1 : SubSeq(q, 1, n - 1)[i] = q[i]
    OBVIOUS
  <2>2. PICK n \in 1 .. Len(q) : n = Len(q)
    BY <1>0
  <2>3. Front(q) = SubSeq(q, 1, n - 1)
    BY <2>2 DEF Front
  <2>q. QED
    BY <2>1, <2>2, <2>3
<1>2. Len(Append(Front(q), q[Len(q)])) = Len(q)
  BY <1>0, <1>1
<1>3. \A i \in 1 .. Len(q) : q[i] = Append(Front(q), q[Len(q)])[i]
  BY <1>0, <1>1
<1>4. Append(Front(q), q[Len(q)]) \in Seq(S)
  BY <1>1
<1>q. QED
  BY <1>0, <1>1, <1>2, <1>3, <1>4, SeqEqual

\* appending to the second of two sequences appends to both together
LEMMA ConcatAppend ==
  ASSUME NEW S, NEW s \in Seq(S), NEW q \in Seq(S), NEW e \in S
  PROVE  s \o Append(q, e) = Append(s \o q, e)
OBVIOUS

(* A queue of one kind, seen through the two filters.                        *)
LEMMA KindOfSteers ==
  ASSUME NEW q \in Seq(Steers)
  PROVE  q \in Seq(Msgs) /\ OnlySteers(q) = q /\ OnlyFollowUps(q) = <<>>
BY OnlyAll, OnlyNone, LoopAssumption, SeqMonotonic DEF OnlySteers, OnlyFollowUps, Msgs

\* ... and the same for a queue of follow-ups
LEMMA KindOfFollowUps ==
  ASSUME NEW q \in Seq(FollowUps)
  PROVE  q \in Seq(Msgs) /\ OnlyFollowUps(q) = q /\ OnlySteers(q) = <<>>
BY OnlyAll, OnlyNone, LoopAssumption, SeqMonotonic DEF OnlySteers, OnlyFollowUps, Msgs

(* The filters take a history apart.                                         *)
LEMMA KindsOfConcat ==
  ASSUME NEW s \in Seq(Msgs), NEW t \in Seq(Msgs)
  PROVE  /\ OnlySteers(s \o t) = OnlySteers(s) \o OnlySteers(t)
         /\ OnlyFollowUps(s \o t) = OnlyFollowUps(s) \o OnlyFollowUps(t)
         /\ OnlySteers(s) \in Seq(Steers) /\ OnlyFollowUps(s) \in Seq(FollowUps)
<1>1. /\ OnlySteers(s \o t) = OnlySteers(s) \o OnlySteers(t)
      /\ OnlyFollowUps(s \o t) = OnlyFollowUps(s) \o OnlyFollowUps(t)
  BY OnlyConcat DEF OnlySteers, OnlyFollowUps
<1>2. OnlySteers(s) \in Seq(Msgs \cap Steers) /\ OnlyFollowUps(s) \in Seq(Msgs \cap FollowUps)
  BY OnlyType DEF OnlySteers, OnlyFollowUps
<1>3. Msgs \cap Steers = Steers /\ Msgs \cap FollowUps = FollowUps
  BY DEF Msgs
<1>q. QED
  BY <1>1, <1>2, <1>3

----------------------------------------------------------------------------
(* Steps that move messages towards the history. *)

(* A step that moves x from the front of a queue behind what is in the       *)
(* history or pending, or moves nothing.                                     *)
MovesBy(x) ==
  /\ UNCHANGED sent
  /\ log' \in Seq(Msgs) /\ pending' \in Seq(Msgs) /\ Len(log) <= Len(log')
  /\ log' \o pending' = (log \o pending) \o x
  /\ \/ x = <<>> /\ UNCHANGED <<steering, followUps>>
     \/ /\ x \in Seq(Steers) /\ steering' \in Seq(Steers)
        /\ steering = x \o steering' /\ UNCHANGED followUps
     \/ /\ x \in Seq(FollowUps) /\ followUps' \in Seq(FollowUps)
        /\ followUps = x \o followUps' /\ UNCHANGED steering

\* what leaves the front of a queue for the end of history and pending keeps the order
LEMMA MovesKeep ==
  ASSUME SeqsOK, QueuesAreFaithful, NoneTwice(sent), NEW x, MovesBy(x)
  PROVE  SeqsOK' /\ QueuesAreFaithful' /\ NoneTwice(sent')
<1> DEFINE h == log \o pending
           S == OnlySteers(h)
           F == OnlyFollowUps(h)
<1>1. h \in Seq(Msgs)
  BY DEF SeqsOK
<1>2. S \in Seq(Steers) /\ F \in Seq(FollowUps) /\ S \o <<>> = S /\ F \o <<>> = F
  <2>1. S \in Seq(Steers) /\ F \in Seq(FollowUps)
    BY <1>1, KindsOfConcat
  <2> HIDE DEF S, F
  <2>q. QED
    BY <2>1, ConcatEmptySeq
<1>3. log' \o pending' = h \o x /\ UNCHANGED sent
  BY DEF MovesBy
<1>4. S \o steering = OnlySteers(sent) /\ F \o followUps = OnlyFollowUps(sent)
  BY DEF QueuesAreFaithful
<1> HIDE DEF S, F, h
<1>5. /\ x \in Seq(Msgs) => /\ OnlySteers(h \o x) = S \o OnlySteers(x)
                            /\ OnlyFollowUps(h \o x) = F \o OnlyFollowUps(x)
  BY <1>1, KindsOfConcat DEF S, F
<1>6. CASE x = <<>> /\ UNCHANGED <<steering, followUps>>
  <2>1. h \o x = h
    BY <1>1, <1>6
  <2>2. QueuesAreFaithful'
    BY <1>3, <1>4, <1>6, <2>1 DEF QueuesAreFaithful, S, F
  <2>q. QED
    BY <1>3, <1>6, <2>2 DEF MovesBy, SeqsOK
<1>7. CASE /\ x \in Seq(Steers) /\ steering' \in Seq(Steers)
           /\ steering = x \o steering' /\ UNCHANGED followUps
  <2>1. /\ x \in Seq(Msgs)
        /\ OnlySteers(h \o x) = S \o x /\ OnlyFollowUps(h \o x) = F
    BY <1>2, <1>5, <1>7, KindOfSteers
  <2>2. (S \o x) \o steering' = S \o steering
    BY <1>2, <1>7, ConcatAssociative
  <2>3. QueuesAreFaithful'
    BY <1>3, <1>4, <1>7, <2>1, <2>2 DEF QueuesAreFaithful
  <2>q. QED
    BY <1>3, <1>7, <2>3 DEF MovesBy, SeqsOK
<1>8. CASE /\ x \in Seq(FollowUps) /\ followUps' \in Seq(FollowUps)
           /\ followUps = x \o followUps' /\ UNCHANGED steering
  <2>1. /\ x \in Seq(Msgs)
        /\ OnlyFollowUps(h \o x) = F \o x /\ OnlySteers(h \o x) = S
    BY <1>2, <1>5, <1>8, KindOfFollowUps
  <2>2. (F \o x) \o followUps' = F \o followUps
    BY <1>2, <1>8, ConcatAssociative
  <2>3. QueuesAreFaithful'
    BY <1>3, <1>4, <1>8, <2>1, <2>2 DEF QueuesAreFaithful
  <2>q. QED
    BY <1>3, <1>8, <2>3 DEF MovesBy, SeqsOK
<1>q. QED
  BY <1>6, <1>7, <1>8 DEF MovesBy

\* nothing is moved
LEMMA NothingMoves ==
  ASSUME SeqsOK, UNCHANGED <<log, pending, steering, followUps, sent>>
  PROVE  MovesBy(<<>>)
<1>1. (log \o pending) \o <<>> = log \o pending
  BY DEF SeqsOK
<1>q. QED
  BY <1>1 DEF SeqsOK, MovesBy

\* with nothing pending, a poll of the steering queue makes pending what it takes
LEMMA PollMoves ==
  ASSUME SeqsOK, pending = <<>>, UNCHANGED <<log, followUps, sent>>,
         pending' = Taken(steering), steering' = Left(steering)
  PROVE  MovesBy(Taken(steering))
<1>1. /\ Taken(steering) \in Seq(Steers) /\ Left(steering) \in Seq(Steers)
      /\ steering = Taken(steering) \o Left(steering)
  BY Dequeued DEF SeqsOK
<1>2. (log \o pending) \o Taken(steering) = log \o Taken(steering)
  BY DEF SeqsOK
<1>3. Taken(steering) \in Seq(Msgs)
  BY <1>1, KindOfSteers
<1>q. QED
  BY <1>1, <1>2, <1>3 DEF SeqsOK, MovesBy

\* a run begins, with what is taken from one of the queues injected or pending
LEMMA RunMoves ==
  ASSUME SeqsOK, pending = <<>>, UNCHANGED sent,
         \/ /\ steering' = Left(steering) /\ UNCHANGED followUps
            /\ log' = log \o Taken(steering) /\ pending' = <<>>
         \/ /\ followUps' = Left(followUps) /\ UNCHANGED steering
            /\ log' = log \o Taken(followUps) /\ pending' = <<>>
         \/ /\ steering' = Left(steering) /\ UNCHANGED followUps
            /\ log' = log \o <<>> /\ pending' = Taken(steering)
  PROVE  \E x : MovesBy(x)
<1>1. /\ Taken(steering) \in Seq(Steers) /\ Left(steering) \in Seq(Steers)
      /\ steering = Taken(steering) \o Left(steering)
  BY Dequeued DEF SeqsOK
<1>2. /\ Taken(followUps) \in Seq(FollowUps) /\ Left(followUps) \in Seq(FollowUps)
      /\ followUps = Taken(followUps) \o Left(followUps)
  BY Dequeued DEF SeqsOK
<1>3. Taken(steering) \in Seq(Msgs) /\ Taken(followUps) \in Seq(Msgs)
  BY <1>1, <1>2, KindOfSteers, KindOfFollowUps
<1>4. log \in Seq(Msgs) /\ log \o <<>> = log
  BY DEF SeqsOK
<1>5. ASSUME NEW x \in Seq(Msgs) PROVE log \o x \in Seq(Msgs) /\ (log \o x) \o <<>> = log \o x /\ Len(log) <= Len(log \o x)
  BY <1>4
<1>6. CASE /\ steering' = Left(steering) /\ UNCHANGED followUps
           /\ log' = log \o Taken(steering) /\ pending' = <<>>
  <2>1. MovesBy(Taken(steering))
    BY <1>1, <1>3, <1>4, <1>5, <1>6 DEF MovesBy
  <2>q. QED
    BY <2>1
<1>7. CASE /\ followUps' = Left(followUps) /\ UNCHANGED steering
           /\ log' = log \o Taken(followUps) /\ pending' = <<>>
  <2>1. MovesBy(Taken(followUps))
    BY <1>2, <1>3, <1>4, <1>5, <1>7 DEF MovesBy
  <2>q. QED
    BY <2>1
<1>8. CASE /\ steering' = Left(steering) /\ UNCHANGED followUps
           /\ log' = log \o <<>> /\ pending' = Taken(steering)
  <2>1. MovesBy(Taken(steering))
    BY <1>1, <1>3, <1>4, <1>8 DEF MovesBy
  <2>q. QED
    BY <2>1
<1>q. QED
  BY <1>6, <1>7, <1>8

\* agent.continue moves messages from one queue into the run it begins, or none
LEMMA ContinueMoves ==
  ASSUME SeqsOK, pending = <<>>, UNCHANGED sent, Continue
  PROVE  \E x : MovesBy(x)
<1>1. CASE UNCHANGED <<queueVars, runVars>>
  <2>1. MovesBy(<<>>)
    BY <1>1, NothingMoves DEF queueVars, runVars
  <2>q. QED
    BY <2>1
<1>2. CASE ~UNCHANGED <<queueVars, runVars>>
  BY <1>2, RunMoves DEF Continue, BeginRun
<1>q. QED
  BY <1>1, <1>2

(* The steps of the run that take nothing from a queue.                      *)
QuietStep == CallsTools \/ Fails \/ Leaks \/ RunSettles

\* steps that touch neither queues nor history
LEMMA QuietLeaves ==
  ASSUME QuietStep
  PROVE  UNCHANGED <<steering, followUps, pending, log, sent>>
BY DEF QuietStep, CallsTools, Fails, Leaks, RunSettles, EndsWith, queueVars

(* The steps of a run that end a turn.                                       *)
LEMMA TurnEndingSteps ==
  ASSUME Stops \/ Pauses \/ IsCutOff \/ ToolsEnd
  PROVE  pc \in {"call", "tools"} /\ \E again \in BOOLEAN : TurnEnds(again)
BY DEF Stops, Pauses, IsCutOff, ToolsEnd

\* every step of a run moves messages from the fronts of the queues onwards
LEMMA LoopStepMoves ==
  ASSUME IInv, LoopStep
  PROVE  \E x : MovesBy(x)
<1>0. SeqsOK /\ PendingClear
  BY DEF IInv
<1>1. CASE Injects
  <2>1. log' = log \o pending /\ pending' = <<>> /\ UNCHANGED <<steering, followUps, sent>>
    BY <1>1 DEF Injects, queueVars
  <2>2. log' \in Seq(Msgs) /\ log' \o <<>> = log' /\ Len(log) <= Len(log')
    BY <1>0, <2>1 DEF SeqsOK
  <2>3. MovesBy(<<>>)
    BY <1>0, <2>1, <2>2 DEF SeqsOK, MovesBy
  <2>q. QED
    BY <2>3
<1>2. CASE Stops \/ Pauses \/ IsCutOff \/ ToolsEnd
  <2>1. pending = <<>>
    BY <1>0, <1>2, TurnEndingSteps DEF PendingClear
  <2>2. /\ UNCHANGED <<log, followUps, sent>>
        /\ \/ pending' = <<>> /\ UNCHANGED steering
           \/ pending' = Taken(steering) /\ steering' = Left(steering)
    BY <1>2, TurnEndingSteps DEF TurnEnds
  <2>q. QED
    BY <1>0, <2>1, <2>2, NothingMoves, PollMoves
<1>3. CASE QuietStep
  BY <1>0, <1>3, QuietLeaves, NothingMoves
<1>4. CASE PollsLate
  <2>1. /\ pending = <<>> /\ UNCHANGED <<log, followUps, sent>>
        /\ \/ UNCHANGED <<pending, steering>>
           \/ pending' = Taken(steering) /\ steering' = Left(steering)
    BY <1>0, <1>4 DEF PollsLate, PendingClear
  <2>q. QED
    BY <1>0, <2>1, NothingMoves, PollMoves
<1>5. CASE DrainsFollowUps
  <2>1. /\ UNCHANGED <<log, steering, sent>>
        /\ \/ UNCHANGED <<pending, followUps>>
           \/ pending' = pending \o Taken(followUps) /\ followUps' = Left(followUps)
    BY <1>5 DEF DrainsFollowUps
  <2>2. CASE UNCHANGED <<pending, followUps>>
    BY <1>0, <2>1, <2>2, NothingMoves
  <2>3. CASE pending' = pending \o Taken(followUps) /\ followUps' = Left(followUps)
    <3>1. /\ Taken(followUps) \in Seq(FollowUps) /\ Left(followUps) \in Seq(FollowUps)
          /\ followUps = Taken(followUps) \o Left(followUps)
      BY <1>0, Dequeued DEF SeqsOK
    <3>2. Taken(followUps) \in Seq(Msgs)
      BY <3>1, KindOfFollowUps
    <3>3. (log \o pending) \o Taken(followUps) = log \o pending'
      BY <1>0, <2>3, <3>2, ConcatAssociative DEF SeqsOK
    <3>4. pending' \in Seq(Msgs)
      BY <1>0, <2>3, <3>2 DEF SeqsOK
    <3>5. MovesBy(Taken(followUps))
      BY <1>0, <2>1, <2>3, <3>1, <3>3, <3>4 DEF SeqsOK, MovesBy
    <3>q. QED
      BY <3>5
  <2>q. QED
    BY <2>1, <2>2, <2>3
<1>q. QED
  BY <1>1, <1>2, <1>3, <1>4, <1>5 DEF LoopStep, QuietStep

\* ... and so does every step of the session
LEMMA SessionStepMoves ==
  ASSUME IInv, SessionStep
  PROVE  \E x : MovesBy(x)
<1>0. SeqsOK /\ PendingClear
  BY DEF IInv
<1>1. CASE PromptRuns
  BY <1>0, <1>1, RunMoves DEF PromptRuns, BeginRun, PendingClear
<1>2. CASE PromptGivesUp \/ PromptSettles
  BY <1>0, <1>2, NothingMoves DEF PromptGivesUp, PromptSettles, EndInFlight, queueVars, runVars
<1>3. CASE Resumes \/ Flushes
  <2>1. UNCHANGED sent /\ ((pc = "off" /\ Continue) \/ UNCHANGED <<queueVars, runVars>>)
    BY <1>3 DEF Resumes, Flushes
  <2>2. CASE pc = "off" /\ Continue
    BY <1>0, <2>1, <2>2, ContinueMoves DEF PendingClear
  <2>3. CASE UNCHANGED <<queueVars, runVars>>
    BY <1>0, <2>1, <2>3, NothingMoves DEF queueVars, runVars
  <2>q. QED
    BY <2>1, <2>2, <2>3
<1>q. QED
  BY <1>1, <1>2, <1>3 DEF SessionStep

----------------------------------------------------------------------------
(* What the user queues and takes back. *)

\* filtering and appending something new leave a sequence without doubles
LEMMA NoneTwiceKept ==
  ASSUME NEW S, NEW s \in Seq(S), NEW T, NoneTwice(s)
  PROVE  NoneTwice(Only(s, T))
<1> DEFINE r == Only(s, T)
<1>1. PICK f : Places(f, r, s)
  BY OnlyPositions
<1>2. r \in Seq(S \cap T)
  BY OnlyType
<1>3. Len(r) \in Nat
  BY <1>2
<1> HIDE DEF r
<1>4. ASSUME NEW k \in 1 .. Len(r), NEW n \in 1 .. Len(r), r[k] = r[n] PROVE k = n
  <2>1. f[k] \in 1 .. Len(s) /\ f[n] \in 1 .. Len(s) /\ r[k] = s[f[k]] /\ r[n] = s[f[n]]
    BY <1>1 DEF Places
  <2>2. f[k] = f[n]
    BY <1>4, <2>1 DEF NoneTwice
  <2>3. ~(k < n) /\ ~(n < k)
    BY <1>1, <2>1, <2>2 DEF Places
  <2>q. QED
    BY <1>3, <2>3
<1>q. QED
  BY <1>4 DEF NoneTwice, r

(* The messages of kind K that were sent are those in h and then those in    *)
(* the queue q; its last one is taken back, and from the sent ones too.      *)
LEMMA LastTakenBack ==
  ASSUME NEW K \in SUBSET Msgs, NEW s \in Seq(Msgs), NoneTwice(s),
         NEW h \in Seq(K), NEW q \in Seq(K), q # <<>>, h \o q = Only(s, K)
  PROVE  h \o Front(q) = Only(Only(s, Msgs \ {q[Len(q)]}), K)
<1> DEFINE m == q[Len(q)]
           g == h \o Front(q)
           L == K \ {m}
           T == Msgs \ {m}
<1>1. Front(q) \in Seq(K) /\ m \in K /\ q = Append(Front(q), m)
  BY FrontAndLast
<1> HIDE DEF m
<1>2. g \in Seq(K) /\ h \o q = Append(g, m)
  <2>1. h \o Append(Front(q), m) = Append(h \o Front(q), m)
    BY <1>1, ConcatAppend
  <2>2. h \o Front(q) \in Seq(K)
    BY <1>1
  <2>q. QED
    BY <1>1, <2>1, <2>2
<1>3. NoneTwice(Append(g, m))
  BY <1>2, NoneTwiceKept
<1> HIDE DEF g
<1>4. ASSUME NEW k \in 1 .. Len(g) PROVE g[k] # m
  <2>1. /\ Len(Append(g, m)) = Len(g) + 1 /\ Append(g, m)[Len(g) + 1] = m
        /\ Append(g, m)[k] = g[k] /\ Len(g) \in Nat
    BY <1>1, <1>2
  <2>2. k \in 1 .. Len(g) + 1 /\ Len(g) + 1 \in 1 .. Len(g) + 1 /\ k # Len(g) + 1
    BY <2>1
  <2>q. QED
    BY <1>3, <2>1, <2>2 DEF NoneTwice
<1>5. g \in Seq(L)
  <2>1. \A k \in 1 .. Len(g) : g[k] \in L
    BY <1>2, <1>4
  <2>2. g = [k \in 1 .. Len(g) |-> g[k]] /\ Len(g) \in Nat
    BY <1>2
  <2> HIDE DEF L
  <2>3. g \in [1 .. Len(g) -> L]
    BY <2>1, <2>2
  <2>q. QED
    BY <2>2, <2>3, SeqDef
<1>6. Only(Append(g, m), L) = g
  <2>1. Only(Append(g, m), L) = Only(g, L)
    BY <1>1, <1>2, OnlyAppend
  <2>2. Only(g, L) = g
    BY <1>5, OnlyAll
  <2>q. QED
    BY <2>1, <2>2
<1>7. T \cap K = K \cap L
  OBVIOUS
<1> HIDE DEF T
<1>8. Only(Only(s, T), K) = Only(s, T \cap K)
  BY OnlyOnly
<1>9. Only(Only(s, K), L) = Only(s, K \cap L)
  BY OnlyOnly
<1>q. QED
  BY <1>2, <1>6, <1>7, <1>8, <1>9 DEF g, T, m

\* messages of another kind than the one taken back are all still there
LEMMA OthersNotTakenBack ==
  ASSUME NEW K \in SUBSET Msgs, NEW s \in Seq(Msgs), NEW m, m \notin K
  PROVE  Only(Only(s, Msgs \ {m}), K) = Only(s, K)
<1> DEFINE T == Msgs \ {m}
<1>1. T \cap K = K
  OBVIOUS
<1> HIDE DEF T
<1>2. Only(Only(s, T), K) = Only(s, T \cap K)
  BY OnlyOnly
<1>q. QED
  BY <1>1, <1>2 DEF T

\* taking back the last message of a queue keeps the queues faithful
LEMMA TakesBackKeeps ==
  ASSUME SeqsOK, QueuesAreFaithful, NoneTwice(sent), TakesBack
  PROVE  SeqsOK' /\ QueuesAreFaithful' /\ NoneTwice(sent')
<1>1. PICK m \in Msgs :
        /\ \/ /\ steering # <<>> /\ m = steering[Len(steering)]
              /\ steering' = Front(steering) /\ UNCHANGED followUps
           \/ /\ followUps # <<>> /\ m = followUps[Len(followUps)]
              /\ followUps' = Front(followUps) /\ UNCHANGED steering
        /\ sent' = Only(sent, Msgs \ {m})
        /\ UNCHANGED <<log, pending>>
  BY DEF TakesBack, runVars
<1> DEFINE h == log \o pending
           S == OnlySteers(h)
           F == OnlyFollowUps(h)
<1>2. h \in Seq(Msgs) /\ sent \in Seq(Msgs)
  BY DEF SeqsOK
<1>3. S \in Seq(Steers) /\ F \in Seq(FollowUps)
  BY <1>2, KindsOfConcat
<1>4. S \o steering = Only(sent, Steers) /\ F \o followUps = Only(sent, FollowUps)
  BY DEF QueuesAreFaithful, OnlySteers, OnlyFollowUps
<1>5. NoneTwice(sent')
  BY <1>1, <1>2, NoneTwiceKept
<1>6. sent' \in Seq(Msgs)
  <2>1. Only(sent, Msgs \ {m}) \in Seq(Msgs \cap (Msgs \ {m}))
    BY <1>2, OnlyType
  <2>q. QED
    BY <1>1, <2>1, SeqMonotonic
<1>7. Steers \in SUBSET Msgs /\ FollowUps \in SUBSET Msgs /\ Steers \cap FollowUps = {}
  BY LoopAssumption DEF Msgs
<1>8. h' = h
  BY <1>1
<1>9. steering \in Seq(Steers) /\ followUps \in Seq(FollowUps)
  BY DEF SeqsOK
<1>10. QueuesAreFaithful' <=> /\ S \o steering' = Only(sent', Steers)
                              /\ F \o followUps' = Only(sent', FollowUps)
  BY <1>8 DEF QueuesAreFaithful, OnlySteers, OnlyFollowUps
<1> HIDE DEF S, F, h
<1>11. CASE /\ steering # <<>> /\ m = steering[Len(steering)]
            /\ steering' = Front(steering) /\ UNCHANGED followUps
  <2>1. m \in Steers /\ steering' \in Seq(Steers)
    BY <1>9, <1>11, FrontAndLast
  <2>2. S \o steering' = Only(sent', Steers)
    <3>1. S \o Front(steering) = Only(Only(sent, Msgs \ {steering[Len(steering)]}), Steers)
      BY <1>2, <1>3, <1>4, <1>7, <1>9, <1>11, LastTakenBack
    <3>q. QED
      BY <1>1, <1>11, <3>1
  <2>3. Only(sent', FollowUps) = Only(sent, FollowUps)
    BY <1>1, <1>2, <1>7, <2>1, OthersNotTakenBack
  <2>q. QED
    BY <1>1, <1>4, <1>5, <1>6, <1>10, <1>11, <2>1, <2>2, <2>3 DEF SeqsOK
<1>12. CASE /\ followUps # <<>> /\ m = followUps[Len(followUps)]
            /\ followUps' = Front(followUps) /\ UNCHANGED steering
  <2>1. m \in FollowUps /\ followUps' \in Seq(FollowUps)
    BY <1>9, <1>12, FrontAndLast
  <2>2. F \o followUps' = Only(sent', FollowUps)
    <3>1. F \o Front(followUps) = Only(Only(sent, Msgs \ {followUps[Len(followUps)]}), FollowUps)
      BY <1>2, <1>3, <1>4, <1>7, <1>9, <1>12, LastTakenBack
    <3>q. QED
      BY <1>1, <1>12, <3>1
  <2>3. Only(sent', Steers) = Only(sent, Steers)
    BY <1>1, <1>2, <1>7, <2>1, OthersNotTakenBack
  <2>q. QED
    BY <1>1, <1>4, <1>5, <1>6, <1>10, <1>12, <2>1, <2>2, <2>3 DEF SeqsOK
<1>q. QED
  BY <1>1, <1>11, <1>12

\* a message of kind K comes to the end of its queue
LEMMA OneMoreSent ==
  ASSUME NEW K \in SUBSET Msgs, NEW s \in Seq(Msgs), NEW h \in Seq(K), NEW q \in Seq(K),
         h \o q = Only(s, K), NEW m \in K
  PROVE  h \o Append(q, m) = Only(Append(s, m), K)
<1>1. Only(Append(s, m), K) = Append(Only(s, K), m)
  BY OnlyAppend
<1>2. h \o Append(q, m) = Append(h \o q, m)
  BY ConcatAppend
<1>q. QED
  BY <1>1, <1>2

\* ... and so does queueing a new one
LEMMA EnqueuedKeeps ==
  ASSUME SeqsOK, QueuesAreFaithful, NoneTwice(sent), NEW m \in Msgs, Enqueued(m),
         \/ m \in Steers /\ steering' = Append(steering, m) /\ UNCHANGED followUps
         \/ m \in FollowUps /\ followUps' = Append(followUps, m) /\ UNCHANGED steering
  PROVE  SeqsOK' /\ QueuesAreFaithful' /\ NoneTwice(sent')
<1>1. /\ sent' = Append(sent, m) /\ m \notin Elements(sent) /\ UNCHANGED <<log, pending>>
  BY DEF Enqueued, runVars
<1> DEFINE h == log \o pending
           S == OnlySteers(h)
           F == OnlyFollowUps(h)
<1>2. h \in Seq(Msgs) /\ sent \in Seq(Msgs) /\ sent' \in Seq(Msgs)
  BY <1>1 DEF SeqsOK
<1>3. S \in Seq(Steers) /\ F \in Seq(FollowUps)
  BY <1>2, KindsOfConcat
<1>4. S \o steering = Only(sent, Steers) /\ F \o followUps = Only(sent, FollowUps)
  BY DEF QueuesAreFaithful, OnlySteers, OnlyFollowUps
<1>5. NoneTwice(sent')
  <2>1. /\ Len(sent') = Len(sent) + 1 /\ Len(sent) \in Nat /\ sent'[Len(sent) + 1] = m
        /\ \A k \in 1 .. Len(sent) : sent'[k] = sent[k] /\ sent[k] # m
    BY <1>1, <1>2 DEF Elements
  <2>q. QED
    BY <2>1 DEF NoneTwice
<1>7. Steers \in SUBSET Msgs /\ FollowUps \in SUBSET Msgs /\ Steers \cap FollowUps = {}
  BY LoopAssumption DEF Msgs
<1>8. h' = h
  BY <1>1
<1>9. steering \in Seq(Steers) /\ followUps \in Seq(FollowUps)
  BY DEF SeqsOK
<1>10. QueuesAreFaithful' <=> /\ S \o steering' = Only(sent', Steers)
                              /\ F \o followUps' = Only(sent', FollowUps)
  BY <1>8 DEF QueuesAreFaithful, OnlySteers, OnlyFollowUps
<1>11. \A K \in SUBSET Msgs : m \notin K => Only(sent', K) = Only(sent, K)
  BY <1>1, <1>2, OnlyAppend
<1> HIDE DEF S, F, h
<1>12. CASE m \in Steers /\ steering' = Append(steering, m) /\ UNCHANGED followUps
  <2>1. S \o steering' = Only(sent', Steers)
    BY <1>1, <1>2, <1>3, <1>4, <1>7, <1>9, <1>12, OneMoreSent
  <2>2. Only(sent', FollowUps) = Only(sent, FollowUps)
    BY <1>7, <1>11, <1>12
  <2>3. steering' \in Seq(Steers)
    BY <1>9, <1>12
  <2>q. QED
    BY <1>1, <1>2, <1>4, <1>5, <1>10, <1>12, <2>1, <2>2, <2>3 DEF SeqsOK
<1>13. CASE m \in FollowUps /\ followUps' = Append(followUps, m) /\ UNCHANGED steering
  <2>1. F \o followUps' = Only(sent', FollowUps)
    <3>1. F \o Append(followUps, m) = Only(Append(sent, m), FollowUps)
      BY <1>2, <1>3, <1>4, <1>7, <1>9, <1>13, OneMoreSent
    <3>q. QED
      BY <1>1, <1>13, <3>1
  <2>2. Only(sent', Steers) = Only(sent, Steers)
    BY <1>7, <1>11, <1>13
  <2>3. followUps' \in Seq(FollowUps)
    BY <1>9, <1>13
  <2>q. QED
    BY <1>1, <1>2, <1>4, <1>5, <1>10, <1>13, <2>1, <2>2, <2>3 DEF SeqsOK
<1>q. QED
  BY <1>12, <1>13

----------------------------------------------------------------------------
(* The inductive invariant. *)

\* the type invariant, in the two parts the proofs keep apart
LEMMA TypeOKParts == TypeOK <=> SeqsOK /\ ControlOK
BY DEF TypeOK, SeqsOK, ControlOK

\* nothing is queued at first
LEMMA InitIInv == Init => IInv
<1> SUFFICES ASSUME Init PROVE IInv
  OBVIOUS
<1>1. SeqsOK /\ PendingClear /\ NoneTwice(sent)
  BY DEF Init, SeqsOK, PendingClear, NoneTwice
<1>5. ControlOK
  <2>1. answered \in 0 .. Len(log)
    BY DEF Init
  <2>2. leaks \in 0 .. 2 /\ pauses \in 0 .. MaxPauses /\ aborts \in 0 .. MaxAborts
    BY LoopAssumption DEF Init
  <2>3. /\ more = FALSE /\ aborted = FALSE /\ cancelled = FALSE /\ resume = FALSE /\ flush = FALSE
        /\ last = "none" /\ pc = "off" /\ prompt = "none"
    BY DEF Init
  <2>q. QED
    BY <2>1, <2>2, <2>3 DEF ControlOK
<1>2. Only(<<>>, Steers) = <<>> /\ Only(<<>>, FollowUps) = <<>>
  BY OnlyEmpty
<1>3. log \o pending = <<>> /\ sent = <<>> /\ steering = <<>> /\ followUps = <<>>
  BY DEF Init
<1>4. QueuesAreFaithful
  BY <1>2, <1>3 DEF QueuesAreFaithful, OnlySteers, OnlyFollowUps
<1>q. QED
  BY <1>1, <1>4, <1>5 DEF IInv

\* the steps of a run keep the rest of the state typed, and poll only with nothing pending
LEMMA LoopStepControl ==
  ASSUME IInv, LoopStep
  PROVE  ControlOK' /\ PendingClear'
<1>0. SeqsOK /\ ControlOK /\ PendingClear
  BY DEF IInv
<1>1. Len(log) \in Nat
  BY <1>0 DEF SeqsOK
<1>2. CASE Injects
  <2>1. answered \in 0 .. Len(log \o pending)
    BY <1>0 DEF SeqsOK, ControlOK
  <2>q. QED
    BY <1>0, <1>2, <2>1 DEF Injects, ControlOK, PendingClear, sessionVars
<1>3. CASE Stops \/ Pauses \/ IsCutOff \/ ToolsEnd
  <2>1. /\ more' \in BOOLEAN /\ pc' \in {"turn", "yield"}
        /\ pc' = "yield" => pending' = <<>>
        /\ UNCHANGED <<log, aborted, prompt, cancelled, resume, flush, aborts>>
    BY <1>3 DEF Stops, Pauses, IsCutOff, ToolsEnd, TurnEnds, sessionVars
  <2>2. /\ answered' \in {answered, Len(log)} /\ last' \in {"assistant", "toolResult"}
        /\ leaks' \in {leaks, 0}
        /\ \/ pauses' \in {pauses, 0}
           \/ pauses < MaxPauses /\ pauses' = pauses + 1
    BY <1>3 DEF Stops, Pauses, IsCutOff, ToolsEnd, Answers
  <2>3. pauses' \in 0 .. MaxPauses
    BY <1>0, <2>2, LoopAssumption DEF ControlOK
  <2>4. ControlOK'
    BY <1>0, <1>1, <2>1, <2>2, <2>3 DEF ControlOK
  <2>q. QED
    BY <2>1, <2>4 DEF PendingClear
<1>4. CASE CallsTools
  BY <1>0, <1>1, <1>4 DEF CallsTools, Answers, ControlOK, PendingClear, sessionVars
<1>5. CASE Fails
  BY <1>0, <1>1, <1>5 DEF Fails, EndsWith, ControlOK, PendingClear, sessionVars
<1>6. CASE Leaks
  BY <1>0, <1>1, <1>6 DEF Leaks, EndsWith, ControlOK, PendingClear, sessionVars
<1>7. CASE PollsLate
  BY <1>0, <1>7 DEF PollsLate, ControlOK, PendingClear, sessionVars
<1>8. CASE DrainsFollowUps
  BY <1>0, <1>8 DEF DrainsFollowUps, ControlOK, PendingClear, sessionVars
<1>9. CASE RunSettles
  BY <1>0, <1>9 DEF RunSettles, ControlOK, PendingClear, sessionVars
<1>q. QED
  BY <1>2, <1>3, <1>4, <1>5, <1>6, <1>7, <1>8, <1>9 DEF LoopStep

\* what a run that begins does to the rest of the state
LEMMA BeginRunControl ==
  ASSUME SeqsOK, ControlOK, NEW msgs \in Seq(Msgs), NEW poll, NEW role \in {"user", last},
         BeginRun(msgs, poll, role)
  PROVE  /\ pc' = "turn"
         /\ answered' \in 0 .. Len(log') /\ last' \in {"none", "user", "assistant", "toolResult"}
         /\ more' \in BOOLEAN /\ aborted' \in BOOLEAN /\ leaks' \in 0 .. 2
         /\ pauses' \in 0 .. MaxPauses
<1>1. answered \in 0 .. Len(log \o msgs)
  BY DEF SeqsOK, ControlOK
<1>2. 0 \in 0 .. 2 /\ 0 \in 0 .. MaxPauses
  BY LoopAssumption
<1>3. last' \in {"none", "user", "assistant", "toolResult"}
  BY DEF BeginRun, ControlOK
<1>q. QED
  BY <1>1, <1>2, <1>3 DEF BeginRun

\* ... Agent.continue does, too
LEMMA ContinueControl ==
  ASSUME SeqsOK, ControlOK, PendingClear, Continue,
         UNCHANGED <<prompt, cancelled, aborts>>, resume' \in BOOLEAN, flush' \in BOOLEAN
  PROVE  ControlOK' /\ PendingClear'
<1>1. CASE UNCHANGED <<queueVars, runVars>>
  BY <1>1 DEF ControlOK, PendingClear, queueVars, runVars
<1>2. CASE ~UNCHANGED <<queueVars, runVars>>
  <2>1. /\ Taken(steering) \in Seq(Msgs) /\ Taken(followUps) \in Seq(Msgs)
        /\ <<>> \in Seq(Msgs)
    BY Dequeued, KindOfSteers, KindOfFollowUps DEF SeqsOK
  <2>2. \E msgs \in Seq(Msgs), poll \in {<<>>, Taken(steering)}, role \in {"user", last} :
          BeginRun(msgs, poll, role)
    BY <1>2, <2>1 DEF Continue
  <2>3. /\ pc' = "turn"
        /\ answered' \in 0 .. Len(log') /\ last' \in {"none", "user", "assistant", "toolResult"}
        /\ more' \in BOOLEAN /\ aborted' \in BOOLEAN /\ leaks' \in 0 .. 2
        /\ pauses' \in 0 .. MaxPauses
    BY <2>2, BeginRunControl
  <2>q. QED
    BY <2>3 DEF ControlOK, PendingClear
<1>q. QED
  BY <1>1, <1>2

\* ... and the other steps of the session
LEMMA SessionStepControl ==
  ASSUME IInv, SessionStep
  PROVE  ControlOK' /\ PendingClear'
<1>0. SeqsOK /\ ControlOK /\ PendingClear
  BY DEF IInv
<1>1. CASE PromptRuns
  <2>1. BeginRun(<<>>, Taken(steering), "user") /\ <<>> \in Seq(Msgs)
    BY <1>1 DEF PromptRuns
  <2>2. /\ pc' = "turn"
        /\ answered' \in 0 .. Len(log') /\ last' \in {"none", "user", "assistant", "toolResult"}
        /\ more' \in BOOLEAN /\ aborted' \in BOOLEAN /\ leaks' \in 0 .. 2
        /\ pauses' \in 0 .. MaxPauses
    BY <1>0, <2>1, BeginRunControl
  <2>q. QED
    BY <1>0, <1>1, <2>2 DEF PromptRuns, ControlOK, PendingClear
<1>2. CASE PromptGivesUp \/ PromptSettles
  BY <1>0, <1>2
  DEF PromptGivesUp, PromptSettles, EndInFlight, ControlOK, PendingClear, queueVars, runVars
<1>3. CASE Resumes \/ Flushes
  <2>1. /\ UNCHANGED <<prompt, cancelled, aborts>> /\ resume' \in BOOLEAN /\ flush' \in BOOLEAN
        /\ Continue \/ UNCHANGED <<queueVars, runVars>>
    BY <1>0, <1>3 DEF Resumes, Flushes, ControlOK
  <2>2. CASE Continue
    BY <1>0, <2>1, <2>2, ContinueControl
  <2>3. CASE UNCHANGED <<queueVars, runVars>>
    BY <1>0, <2>1, <2>3 DEF ControlOK, PendingClear, queueVars, runVars
  <2>q. QED
    BY <2>1, <2>2, <2>3
<1>q. QED
  BY <1>1, <1>2, <1>3 DEF SessionStep

\* what the user does keeps the invariant
LEMMA UserIInv ==
  ASSUME IInv, User
  PROVE  IInv'
<1>0. SeqsOK /\ ControlOK /\ PendingClear /\ NoneTwice(sent) /\ QueuesAreFaithful
  BY DEF IInv
<1>1. ASSUME NEW m \in Msgs, Enqueued(m),
             \/ m \in Steers /\ steering' = Append(steering, m) /\ UNCHANGED followUps
             \/ m \in FollowUps /\ followUps' = Append(followUps, m) /\ UNCHANGED steering
      PROVE  IInv'
  <2>1. SeqsOK' /\ QueuesAreFaithful' /\ NoneTwice(sent')
    BY <1>0, <1>1, EnqueuedKeeps
  <2>2. ControlOK' /\ PendingClear'
    BY <1>0, <1>1 DEF Enqueued, CanAutoContinue, ControlOK, PendingClear, runVars
  <2>q. QED
    BY <2>1, <2>2 DEF IInv
<1>2. ASSUME NEW m \in Steers, Steer(m) PROVE IInv'
  BY <1>1, <1>2 DEF Steer, Msgs
<1>3. ASSUME NEW m \in FollowUps, FollowUp(m) PROVE IInv'
  BY <1>1, <1>3 DEF FollowUp, Msgs
<1>4. CASE TakesBack
  <2>1. SeqsOK' /\ QueuesAreFaithful' /\ NoneTwice(sent')
    BY <1>0, <1>4, TakesBackKeeps
  <2>2. ControlOK' /\ PendingClear'
    BY <1>0, <1>4 DEF TakesBack, ControlOK, PendingClear, runVars, sessionVars
  <2>q. QED
    BY <2>1, <2>2 DEF IInv
<1>5. CASE Prompt \/ Abort \/ Interrupt
  <2>1. UNCHANGED <<log, pending, steering, followUps, sent>>
    BY <1>5 DEF Prompt, Abort, Interrupt, Aborts, queueVars, runVars
  <2>2. SeqsOK' /\ QueuesAreFaithful' /\ NoneTwice(sent')
    BY <1>0, <2>1, NothingMoves, MovesKeep
  <2>3. ControlOK' /\ PendingClear'
    <3>1. CASE Prompt
      BY <1>0, <3>1 DEF Prompt, ControlOK, PendingClear, runVars
    <3>2. CASE Abort \/ Interrupt
      <4>1. /\ aborts' = aborts + 1 /\ aborts < MaxAborts /\ cancelled' = TRUE
            /\ aborted' = (aborted \/ pc # "off") /\ flush' \in {flush, TRUE}
            /\ UNCHANGED <<pending, log, answered, last, pc, more, leaks, pauses, prompt, resume>>
        BY <3>2 DEF Abort, Interrupt, Aborts
      <4>2. aborts' \in 0 .. MaxAborts
        BY <1>0, <4>1, LoopAssumption DEF ControlOK
      <4>q. QED
        BY <1>0, <4>1, <4>2 DEF ControlOK, PendingClear
    <3>q. QED
      BY <1>5, <3>1, <3>2
  <2>q. QED
    BY <2>2, <2>3 DEF IInv
<1>q. QED
  BY <1>2, <1>3, <1>4, <1>5 DEF User

\* every step keeps the invariant
LEMMA NextIInv == IInv /\ [Next]_vars => IInv'
<1> SUFFICES ASSUME IInv, [Next]_vars PROVE IInv'
  OBVIOUS
<1>0. SeqsOK /\ ControlOK /\ PendingClear /\ NoneTwice(sent) /\ QueuesAreFaithful
  BY DEF IInv
<1>1. CASE User
  BY <1>1, UserIInv
<1>2. CASE LoopStep \/ SessionStep
  <2>1. SeqsOK' /\ QueuesAreFaithful' /\ NoneTwice(sent')
    BY <1>0, <1>2, LoopStepMoves, SessionStepMoves, MovesKeep
  <2>2. ControlOK' /\ PendingClear'
    BY <1>2, LoopStepControl, SessionStepControl
  <2>q. QED
    BY <2>1, <2>2 DEF IInv
<1>3. CASE UNCHANGED vars
  <2>1. SeqsOK' /\ QueuesAreFaithful' /\ NoneTwice(sent')
    BY <1>0, <1>3, NothingMoves, MovesKeep DEF vars, queueVars, runVars
  <2>2. ControlOK' /\ PendingClear'
    BY <1>0, <1>3 DEF ControlOK, PendingClear, vars, queueVars, runVars, sessionVars
  <2>q. QED
    BY <2>1, <2>2 DEF IInv
<1>q. QED
  BY <1>1, <1>2, <1>3 DEF Next

(* The inductive invariant holds for every set of messages, mode and limit.  *)
THEOREM IInvHolds == Spec => []IInv
BY InitIInv, NextIInv, PTL DEF Spec

(* Type correctness: queues hold messages of their own kind, the number of   *)
(* answered messages never passes the length of the history.                 *)
THEOREM LoopTypes == Spec => []TypeOK
<1>1. IInv => TypeOK
  BY TypeOKParts DEF IInv
<1>q. QED
  BY <1>1, IInvHolds, PTL

(* No queued message is lost, doubled or overtaken by a later one of its     *)
(* queue: history, pending messages and queue together are what was queued.  *)
THEOREM MessagesArriveInOrder == Spec => []QueuesAreFaithful
<1>1. IInv => QueuesAreFaithful
  BY DEF IInv
<1>q. QED
  BY <1>1, IInvHolds, PTL

----------------------------------------------------------------------------
(* Aborted runs. *)

(* What the pending messages and the history gain in a step of an aborted    *)
(* run that is not its last: nothing.                                        *)
GainsNothing ==
  Elements(log') \cup Elements(pending') \subseteq Elements(log) \cup Elements(pending)

(* A run starts only where there is none.                                    *)
LEMMA RunsStartFromOff ==
  ASSUME SessionStep, pc # "off"
  PROVE  UNCHANGED <<log, pending>>
BY DEF SessionStep, PromptRuns, PromptGivesUp, PromptSettles, EndInFlight, Resumes, Flushes,
       queueVars, runVars

\* what the user does puts nothing into history or pending messages
LEMMA UserGains ==
  ASSUME User
  PROVE  UNCHANGED <<log, pending>>
BY DEF User, Steer, FollowUp, Enqueued, TakesBack, Prompt, Abort, Interrupt, Aborts, queueVars,
       runVars

\* a run whose signal has fired only moves pending messages into the history
LEMMA AbortedLoopGains ==
  ASSUME SeqsOK, LoopStep, aborted
  PROVE  GainsNothing
<1>1. CASE Injects
  <2>1. log' = log \o pending /\ pending' = <<>>
    BY <1>1 DEF Injects
  <2>2. Elements(log \o pending) \subseteq Elements(log) \cup Elements(pending)
    BY ElementsOfConcat DEF SeqsOK
  <2>3. Elements(<<>>) = {}
    BY DEF Elements
  <2>q. QED
    BY <2>1, <2>2, <2>3 DEF GainsNothing
<1>2. CASE Stops \/ Pauses \/ IsCutOff \/ ToolsEnd
  <2>1. pending' = <<>> /\ UNCHANGED log
    BY <1>2, TurnEndingSteps DEF TurnEnds
  <2>2. Elements(<<>>) = {}
    BY DEF Elements
  <2>q. QED
    BY <2>1, <2>2 DEF GainsNothing
<1>3. CASE QuietStep \/ PollsLate \/ DrainsFollowUps
  <2>1. UNCHANGED <<log, pending>>
    BY <1>3, QuietLeaves DEF PollsLate, DrainsFollowUps
  <2>q. QED
    BY <2>1 DEF GainsNothing
<1>q. QED
  BY <1>1, <1>2, <1>3 DEF LoopStep, QuietStep

(* "On external abort leave the steering queue intact": once its signal has  *)
(* fired a run takes no message out of the queues, whatever it still does.   *)
THEOREM AbortLeavesTheQueues == Spec => AbortSparesQueues
<1>1. IInv /\ [Next]_vars
        => [aborted /\ aborted' /\ pc # "off" =>
              Elements(log') \cup Elements(pending') \subseteq Elements(log) \cup Elements(pending)]_vars
  <2> SUFFICES ASSUME IInv, Next, aborted, pc # "off"
               PROVE  GainsNothing
    BY DEF GainsNothing
  <2>1. CASE LoopStep
    BY <2>1, AbortedLoopGains DEF IInv
  <2>2. CASE User \/ SessionStep
    BY <2>2, UserGains, RunsStartFromOff DEF GainsNothing
  <2>q. QED
    BY <2>1, <2>2 DEF Next
<1>q. QED
  BY <1>1, IInvHolds, PTL DEF Spec, AbortSparesQueues

----------------------------------------------------------------------------
(* One steering message at a time. *)

\* what the model has not answered yet, injected or about to be
Unanswered == SubSeq(log, answered + 1, Len(log)) \o pending

\* what is not about to be sent to the model is answered
AnsweredAtRest == pc \in {"off", "tools", "yield", "drain", "ended"} => answered = Len(log)

OneSteer == Len(OnlySteers(Unanswered)) <= 1

\* the part of a history from position a on, when the history grows
LEMMA SuffixOfConcat ==
  ASSUME NEW S, NEW s \in Seq(S), NEW t \in Seq(S), NEW a \in 0 .. Len(s)
  PROVE  SubSeq(s \o t, a + 1, Len(s \o t)) = SubSeq(s, a + 1, Len(s)) \o t
<1> DEFINE n == Len(s)
           m == Len(t)
           c == s \o t
           p == SubSeq(s, a + 1, n)
           q == SubSeq(c, a + 1, n + m)
<1>1. /\ n \in Nat /\ m \in Nat /\ a \in 0 .. n
      /\ c \in Seq(S) /\ Len(c) = n + m
      /\ \A i \in 1 .. n + m : c[i] = IF i <= n THEN s[i] ELSE t[i - n]
  BY ConcatProperties
<1>2. /\ p \in Seq(S) /\ Len(p) = n - a
      /\ \A i \in 1 .. n - a : p[i] = s[i + a]
  OBVIOUS
<1> HIDE DEF c, n, m, p
<1>3. /\ q \in Seq(S) /\ Len(q) = (n + m) - a
      /\ \A i \in 1 .. (n + m) - a : q[i] = c[i + a]
  BY <1>1
<1>4. t \in Seq(S) /\ Len(t) = m /\ Len(s) = n
  BY DEF n, m
<1> HIDE DEF q
<1>5. /\ p \o t \in Seq(S) /\ Len(p \o t) = (n - a) + m
      /\ \A i \in 1 .. (n - a) + m : (p \o t)[i] = IF i <= n - a THEN p[i] ELSE t[i - (n - a)]
  <2>1. /\ p \o t \in Seq(S) /\ Len(p \o t) = Len(p) + Len(t)
        /\ \A i \in 1 .. Len(p) + Len(t) : (p \o t)[i] = IF i <= Len(p) THEN p[i] ELSE t[i - Len(p)]
    BY <1>2, <1>4, ConcatProperties
  <2>q. QED
    BY <1>2, <1>4, <2>1
<1>6. Len(q) = Len(p \o t)
  BY <1>1, <1>3, <1>5
<1>7. ASSUME NEW i \in 1 .. Len(q) PROVE q[i] = (p \o t)[i]
  <2>1. /\ i \in 1 .. (n + m) - a /\ i \in 1 .. (n - a) + m
        /\ i + a \in 1 .. n + m
    BY <1>1, <1>3
  <2>2. CASE i <= n - a
    <3>1. i \in 1 .. n - a /\ i + a <= n
      BY <1>1, <2>1, <2>2
    <3>q. QED
      BY <1>1, <1>2, <1>3, <1>5, <2>1, <2>2, <3>1
  <2>3. CASE ~(i <= n - a)
    <3>1. ~(i + a <= n) /\ (i + a) - n = i - (n - a)
      BY <1>1, <2>1, <2>3
    <3>2. q[i] = t[(i + a) - n]
      BY <1>1, <1>3, <2>1, <3>1
    <3>3. (p \o t)[i] = t[i - (n - a)]
      BY <1>5, <2>1, <2>3
    <3>q. QED
      BY <3>1, <3>2, <3>3
  <2>q. QED
    BY <2>2, <2>3
<1>8. q = p \o t
  BY <1>3, <1>5, <1>6, <1>7, SeqEqual
<1>q. QED
  BY <1>1, <1>8 DEF p, q, c, n

\* from an answered history, what is injected and made pending is all that is unanswered
LEMMA FromRest ==
  ASSUME SeqsOK, NEW msgs \in Seq(Msgs), log' = log \o msgs, answered' = Len(log),
         pending' \in Seq(Msgs), Len(OnlySteers(msgs \o pending')) <= 1
  PROVE  OneSteer'
<1> DEFINE n == Len(log)
<1>1. n \in 0 .. Len(log) /\ log \in Seq(Msgs)
  BY DEF SeqsOK
<1>2. SubSeq(log, n + 1, Len(log)) = <<>>
  BY <1>1, SubSeqEmpty
<1>3. SubSeq(log \o msgs, n + 1, Len(log \o msgs)) = SubSeq(log, n + 1, Len(log)) \o msgs
  <2> HIDE DEF n
  <2>q. QED
    BY <1>1, SuffixOfConcat
<1>4. SubSeq(log', answered' + 1, Len(log')) = msgs
  BY <1>2, <1>3, ConcatEmptySeq
<1>q. QED
  BY <1>4 DEF OneSteer, Unanswered

\* messages as they are taken from the queues, in one-at-a-time mode
LEMMA TakenSteers ==
  ASSUME SeqsOK, OneAtATime
  PROVE  /\ Taken(steering) \in Seq(Msgs) /\ Taken(followUps) \in Seq(Msgs) /\ <<>> \in Seq(Msgs)
         /\ Len(OnlySteers(<<>>)) <= 1
         /\ Len(OnlySteers(Taken(steering))) <= 1
         /\ OnlySteers(Taken(followUps)) = <<>>
<1>1. Taken(steering) \in Seq(Steers) /\ Len(Taken(steering)) <= 1
  BY Dequeued DEF SeqsOK
<1>2. Taken(followUps) \in Seq(FollowUps)
  BY Dequeued DEF SeqsOK
<1>3. /\ Taken(steering) \in Seq(Msgs) /\ OnlySteers(Taken(steering)) = Taken(steering)
      /\ Taken(followUps) \in Seq(Msgs) /\ OnlySteers(Taken(followUps)) = <<>>
  BY <1>1, <1>2, KindOfSteers, KindOfFollowUps
<1>4. OnlySteers(<<>>) = <<>> /\ Len(<<>>) = 0 /\ <<>> \in Seq(Msgs)
  BY OnlyEmpty DEF OnlySteers
<1>q. QED
  BY <1>1, <1>3, <1>4

\* agent.continue begins a run with one steering message at most
LEMMA ContinueSteer ==
  ASSUME SeqsOK, OneAtATime, AnsweredAtRest, OneSteer, pc = "off", pending = <<>>, Continue
  PROVE  AnsweredAtRest' /\ OneSteer'
<1>1. CASE UNCHANGED <<queueVars, runVars>>
  BY <1>1 DEF AnsweredAtRest, OneSteer, Unanswered, queueVars, runVars
<1>2. ASSUME NEW msgs \in {<<>>, Taken(steering), Taken(followUps)},
             NEW poll \in {<<>>, Taken(steering)}, msgs = <<>> \/ poll = <<>>,
             NEW role, BeginRun(msgs, poll, role)
      PROVE  AnsweredAtRest' /\ OneSteer'
  <2>1. /\ log' = log \o msgs /\ pending' = poll /\ pc' = "turn" /\ answered' = Len(log)
    BY <1>2 DEF BeginRun, AnsweredAtRest
  <2>2. msgs \in Seq(Msgs) /\ poll \in Seq(Msgs)
    BY <1>2, TakenSteers
  <2>3. msgs \o poll \in {msgs, poll}
    BY <1>2, <2>2, ConcatEmptySeq
  <2>4. Len(OnlySteers(msgs)) <= 1 /\ Len(OnlySteers(poll)) <= 1
    <3>1. \A s \in {<<>>, Taken(steering), Taken(followUps)} : Len(OnlySteers(s)) <= 1
      <4>1. Len(OnlySteers(Taken(followUps))) = 0
        BY TakenSteers
      <4>q. QED
        BY <4>1, TakenSteers
    <3>q. QED
      BY <1>2, <3>1
  <2>5. OneSteer'
    <3>1. Len(OnlySteers(msgs \o poll)) <= 1
      BY <2>3, <2>4
    <3>2. Len(OnlySteers(msgs \o pending')) <= 1 /\ pending' \in Seq(Msgs)
      BY <2>1, <2>2, <3>1
    <3>q. QED
      BY <2>1, <2>2, <3>2, FromRest
  <2>q. QED
    BY <2>1, <2>5 DEF AnsweredAtRest
<1>q. QED
  BY <1>1, <1>2 DEF Continue

\* a step of a run polls with the history answered, and injecting changes nothing
LEMMA LoopSteer ==
  ASSUME IInv, ~LeaksDetected, OneAtATime, AnsweredAtRest, OneSteer, LoopStep
  PROVE  AnsweredAtRest' /\ OneSteer'
<1>0. SeqsOK /\ ControlOK /\ PendingClear
  BY DEF IInv
<1>1. /\ log \in Seq(Msgs) /\ pending \in Seq(Msgs) /\ Len(log) \in Nat
      /\ log \o <<>> = log /\ \A s \in Seq(Msgs) : <<>> \o s = s
  BY <1>0, ConcatEmptySeq DEF SeqsOK
\* a step that leaves the history alone, which is answered by now
<1>2. ASSUME UNCHANGED log, answered' = Len(log), pending' \in Seq(Msgs),
             Len(OnlySteers(pending')) <= 1
      PROVE  AnsweredAtRest' /\ OneSteer'
  <2>1. log' = log \o <<>> /\ <<>> \in Seq(Msgs) /\ <<>> \o pending' = pending'
    BY <1>1, <1>2
  <2>2. OneSteer'
    BY <1>0, <1>2, <2>1, FromRest
  <2>q. QED
    BY <1>2, <2>2 DEF AnsweredAtRest
\* ... and takes from the steering queue at most
<1>3. ASSUME UNCHANGED log, answered' = Len(log), pending' \in {<<>>, Taken(steering)}
      PROVE  AnsweredAtRest' /\ OneSteer'
  <2>1. pending' \in Seq(Msgs) /\ Len(OnlySteers(pending')) <= 1
    BY <1>0, <1>3, TakenSteers
  <2>q. QED
    BY <1>2, <1>3, <2>1
<1>4. CASE Injects
  <2>1. log' = log \o pending /\ pending' = <<>> /\ pc' = "call" /\ answered' = answered
    BY <1>4 DEF Injects
  <2>2. answered \in 0 .. Len(log)
    BY <1>0 DEF ControlOK
  <2>3. SubSeq(log \o pending, answered + 1, Len(log \o pending))
          = SubSeq(log, answered + 1, Len(log)) \o pending
    BY <1>1, <2>2, SuffixOfConcat
  <2>4. Unanswered \in Seq(Msgs)
    <3>1. SubSeq(log, answered + 1, Len(log)) \in Seq(Msgs)
      BY <1>1, <2>2
    <3>q. QED
      BY <1>1, <3>1, ConcatProperties DEF Unanswered
  <2>5. Unanswered' = Unanswered \o <<>>
    BY <2>1, <2>3 DEF Unanswered
  <2>6. Unanswered' = Unanswered
    BY <2>4, <2>5, ConcatEmptySeq
  <2>q. QED
    BY <2>1, <2>6 DEF AnsweredAtRest, OneSteer
<1>5. CASE Stops \/ Pauses \/ IsCutOff \/ ToolsEnd
  <2>1. PICK again \in BOOLEAN : TurnEnds(again)
    BY <1>5, Zenon DEF Stops, Pauses, IsCutOff, ToolsEnd
  <2>2. UNCHANGED log /\ pending' \in {<<>>, Taken(steering)}
    BY <2>1 DEF TurnEnds
  <2>3. answered' = Len(log)
    BY <1>5 DEF Stops, Pauses, IsCutOff, ToolsEnd, Answers, AnsweredAtRest
  <2>q. QED
    BY <1>3, <2>2, <2>3
<1>6. CASE CallsTools \/ Fails
  BY <1>0, <1>3, <1>6 DEF CallsTools, Fails, EndsWith, Answers, PendingClear
<1>7. CASE Leaks
  BY <1>7 DEF Leaks
<1>8. CASE PollsLate
  BY <1>0, <1>3, <1>8 DEF PollsLate, PendingClear, AnsweredAtRest
<1>9. CASE RunSettles
  BY <1>0, <1>3, <1>9 DEF RunSettles, PendingClear, AnsweredAtRest
<1>10. CASE DrainsFollowUps
  <2>1. UNCHANGED log /\ answered' = Len(log) /\ answered = Len(log)
    BY <1>10 DEF DrainsFollowUps, AnsweredAtRest
  <2>2. Len(OnlySteers(pending)) <= 1
    <3>1. SubSeq(log, answered + 1, Len(log)) = <<>>
      BY <1>1, <2>1, SubSeqEmpty
    <3>2. Unanswered = pending
      BY <1>1, <3>1 DEF Unanswered
    <3>q. QED
      BY <3>2 DEF OneSteer
  <2>3. Taken(followUps) \in Seq(Msgs) /\ OnlySteers(Taken(followUps)) = <<>>
    BY <1>0, TakenSteers
  <2> DEFINE more2 == Taken(followUps)
  <2>4. pending' = pending \/ pending' = pending \o more2
    BY <1>10 DEF DrainsFollowUps
  <2>5. pending \o more2 \in Seq(Msgs) /\ OnlySteers(pending \o more2) = OnlySteers(pending)
    <3>1. more2 \in Seq(Msgs) /\ OnlySteers(more2) = <<>>
      BY <2>3
    <3> HIDE DEF more2
    <3>2. pending \o more2 \in Seq(Msgs)
      BY <1>1, <3>1, ConcatProperties
    <3>3. Only(pending \o more2, Steers) = Only(pending, Steers) \o Only(more2, Steers)
      BY <1>1, <3>1, OnlyConcat
    <3>4. Only(pending, Steers) \in Seq(Msgs \cap Steers)
      BY <1>1, OnlyType
    <3>q. QED
      BY <3>1, <3>2, <3>3, <3>4, ConcatEmptySeq DEF OnlySteers
  <2> HIDE DEF more2
  <2>6. pending' \in Seq(Msgs) /\ Len(OnlySteers(pending')) <= 1
    BY <1>1, <2>2, <2>4, <2>5
  <2>q. QED
    BY <1>2, <2>1, <2>6
<1>q. QED
  BY <1>4, <1>5, <1>6, <1>7, <1>8, <1>9, <1>10 DEF LoopStep

\* what the user does leaves the history and the pending messages alone
LEMMA UserSteer ==
  ASSUME AnsweredAtRest, OneSteer, User
  PROVE  AnsweredAtRest' /\ OneSteer'
<1>1. UNCHANGED <<log, pending, answered, pc>>
  BY Zenon DEF User, Steer, FollowUp, Enqueued, TakesBack, Prompt, Abort, Interrupt, Aborts, runVars
<1>q. QED
  BY <1>1 DEF AnsweredAtRest, OneSteer, Unanswered

\* a run begins with one steering message at most
LEMMA SessionSteer ==
  ASSUME IInv, OneAtATime, AnsweredAtRest, OneSteer, SessionStep
  PROVE  AnsweredAtRest' /\ OneSteer'
<1>0. SeqsOK /\ (pc = "off" => pending = <<>>)
  BY DEF IInv, PendingClear
<1>1. CASE PromptRuns
  <2>1. /\ pc = "off" /\ log' = log \o <<>> /\ pending' = Taken(steering)
        /\ pc' = "turn" /\ answered' = answered
    BY <1>1 DEF PromptRuns, BeginRun
  <2>2. answered' = Len(log)
    BY <2>1 DEF AnsweredAtRest
  <2>3. /\ <<>> \in Seq(Msgs) /\ pending' \in Seq(Msgs) /\ <<>> \o pending' = pending'
        /\ Len(OnlySteers(pending')) <= 1
    BY <1>0, <2>1, TakenSteers, ConcatEmptySeq
  <2>4. OneSteer'
    BY <1>0, <2>1, <2>2, <2>3, FromRest
  <2>q. QED
    BY <2>1, <2>4 DEF AnsweredAtRest
<1>2. CASE UNCHANGED <<queueVars, runVars>>
  BY <1>2 DEF AnsweredAtRest, OneSteer, Unanswered, queueVars, runVars
<1>3. CASE PromptGivesUp \/ PromptSettles
  BY <1>2, <1>3 DEF PromptGivesUp, PromptSettles, EndInFlight
<1>4. CASE Resumes \/ Flushes
  <2>1. (pc = "off" /\ Continue) \/ UNCHANGED <<queueVars, runVars>>
    BY <1>4 DEF Resumes, Flushes
  <2>q. QED
    BY <1>0, <1>2, <2>1, ContinueSteer
<1>q. QED
  BY <1>1, <1>3, <1>4 DEF SessionStep

(* Unless the model is one whose leaking responses are thrown away, it never  *)
(* gets two steering messages at once in one-at-a-time mode: whatever is      *)
(* polled or continued with finds the history answered, and a prompt, a       *)
(* continued run and each poll take one message at most.                      *)
THEOREM OneSteerAtATime ==
  ASSUME ~LeaksDetected
  PROVE  Spec => []OneSteerPerCall
<1> DEFINE Sent == OneAtATime => AnsweredAtRest /\ OneSteer
<1>1. Init => Sent
  <2> SUFFICES ASSUME Init PROVE AnsweredAtRest /\ OneSteer
    OBVIOUS
  <2>1. log = <<>> /\ pending = <<>> /\ answered = 0 /\ Len(<<>>) = 0
    BY DEF Init
  <2>2. OnlySteers(<<>>) = <<>>
    BY OnlyEmpty DEF OnlySteers
  <2>3. Unanswered = <<>>
    BY <2>1 DEF Unanswered
  <2>q. QED
    BY <2>1, <2>2, <2>3 DEF AnsweredAtRest, OneSteer
<1>2. IInv /\ Sent /\ [Next]_vars => Sent'
  <2> SUFFICES ASSUME IInv, AnsweredAtRest, OneSteer, OneAtATime, [Next]_vars
               PROVE  AnsweredAtRest' /\ OneSteer'
    BY Zenon
  <2>1. CASE UNCHANGED vars
    BY <2>1 DEF AnsweredAtRest, OneSteer, Unanswered, vars, runVars
  <2>2. CASE User
    BY <2>2, UserSteer
  <2>3. CASE LoopStep
    BY <2>3, LoopSteer
  <2>4. CASE SessionStep
    BY <2>4, SessionSteer
  <2>q. QED
    BY <2>1, <2>2, <2>3, <2>4 DEF Next
<1>3. Sent => OneSteerPerCall
  BY DEF OneSteer, Unanswered, OneSteerPerCall
<1> HIDE DEF Sent
<1>q. QED
  BY <1>1, <1>2, <1>3, IInvHolds, PTL DEF Spec
============================================================================
