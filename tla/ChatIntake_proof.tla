-------------------------- MODULE ChatIntake_proof --------------------------
(***************************************************************************)
(* For every number of users, messages and posts, every capacity of the     *)
(* queue and every length of texts: the state keeps its types, no message   *)
(* is lost unseen, doubled or overtaken by a later one of its user, and,    *)
(* with event handlers that are prompt, the answer of a prompt is sent whole. *)
(***************************************************************************)
EXTENDS ChatIntake, SequenceFilter_proof, FiniteSetTheorems

----------------------------------------------------------------------------
(* Sequences of numbers: what they contain, and when they increase. *)

Increasing(s) == \A i, j \in 1 .. Len(s) : i < j => s[i] < s[j]

\* what a concatenation contains
LEMMA InBatchConcat ==
  ASSUME NEW S, NEW s \in Seq(S), NEW t \in Seq(S)
  PROVE  InBatch(s \o t) = InBatch(s) \cup InBatch(t)
<1> DEFINE c == s \o t
<1>1. /\ c \in Seq(S) /\ Len(c) = Len(s) + Len(t)
      /\ \A i \in 1 .. Len(s) + Len(t) : c[i] = IF i <= Len(s) THEN s[i] ELSE t[i - Len(s)]
  BY ConcatProperties
<1>2. Len(s) \in Nat /\ Len(t) \in Nat
  OBVIOUS
<1> HIDE DEF c
<1>3. ASSUME NEW i \in 1 .. Len(c) PROVE c[i] \in InBatch(s) \cup InBatch(t)
  <2>1. CASE i <= Len(s)
    BY <1>1, <1>2, <2>1 DEF InBatch
  <2>2. CASE ~(i <= Len(s))
    <3>1. c[i] = t[i - Len(s)] /\ i - Len(s) \in 1 .. Len(t)
      BY <1>1, <1>2, <2>2
    <3>q. QED
      BY <3>1 DEF InBatch
  <2>q. QED
    BY <2>1, <2>2
<1>4. ASSUME NEW i \in 1 .. Len(s) PROVE s[i] \in InBatch(c)
  <2>1. i \in 1 .. Len(c) /\ c[i] = s[i]
    BY <1>1, <1>2
  <2>2. i \in DOMAIN c
    BY <1>1, <2>1
  <2>q. QED
    BY <2>1, <2>2 DEF InBatch
<1>5. ASSUME NEW i \in 1 .. Len(t) PROVE t[i] \in InBatch(c)
  <2>1. i + Len(s) \in 1 .. Len(c) /\ ~(i + Len(s) <= Len(s)) /\ (i + Len(s)) - Len(s) = i
    BY <1>1, <1>2
  <2>2. c[i + Len(s)] = t[i]
    BY <1>1, <2>1
  <2>3. i + Len(s) \in DOMAIN c
    BY <1>1, <2>1
  <2>q. QED
    BY <2>2, <2>3 DEF InBatch
<1>6. InBatch(c) \subseteq InBatch(s) \cup InBatch(t)
  BY <1>1, <1>3 DEF InBatch
<1>7. InBatch(s) \subseteq InBatch(c) /\ InBatch(t) \subseteq InBatch(c)
  BY <1>4, <1>5 DEF InBatch
<1>q. QED
  BY <1>6, <1>7 DEF c

\* a concatenation increases where both parts do and the second continues the first
LEMMA IncreasingConcat ==
  ASSUME NEW S \in SUBSET Nat, NEW s \in Seq(S), NEW t \in Seq(S)
  PROVE  Increasing(s \o t) <=>
           /\ Increasing(s) /\ Increasing(t)
           /\ \A x \in InBatch(s), y \in InBatch(t) : x < y
<1> DEFINE c == s \o t
<1>1. /\ c \in Seq(S) /\ Len(c) = Len(s) + Len(t)
      /\ \A i \in 1 .. Len(s) + Len(t) : c[i] = IF i <= Len(s) THEN s[i] ELSE t[i - Len(s)]
  BY ConcatProperties
<1>2. Len(s) \in Nat /\ Len(t) \in Nat
  OBVIOUS
<1> HIDE DEF c
<1>3. \A i \in 1 .. Len(s) : i \in 1 .. Len(c) /\ c[i] = s[i]
  BY <1>1, <1>2
<1>4. ASSUME NEW i \in 1 .. Len(t)
      PROVE  i + Len(s) \in 1 .. Len(c) /\ c[i + Len(s)] = t[i]
  <2>1. i + Len(s) \in 1 .. Len(c) /\ ~(i + Len(s) <= Len(s)) /\ (i + Len(s)) - Len(s) = i
    BY <1>1, <1>2
  <2>q. QED
    BY <1>1, <2>1
<1>5. ASSUME Increasing(c)
      PROVE  /\ Increasing(s) /\ Increasing(t)
             /\ \A x \in InBatch(s), y \in InBatch(t) : x < y
  <2>1. Increasing(s)
    BY <1>3, <1>5 DEF Increasing
  <2>2. ASSUME NEW i \in 1 .. Len(t), NEW j \in 1 .. Len(t), i < j PROVE t[i] < t[j]
    <3>1. i + Len(s) < j + Len(s)
      BY <1>2, <2>2
    <3>2. c[i + Len(s)] < c[j + Len(s)]
      BY <1>4, <1>5, <3>1 DEF Increasing
    <3>q. QED
      BY <1>4, <3>2
  <2>3. ASSUME NEW i \in 1 .. Len(s), NEW j \in 1 .. Len(t) PROVE s[i] < t[j]
    <3>1. i < j + Len(s)
      BY <1>2
    <3>2. c[i] < c[j + Len(s)]
      BY <1>3, <1>4, <1>5, <3>1 DEF Increasing
    <3>q. QED
      BY <1>3, <1>4, <3>2
  <2>q. QED
    BY <2>1, <2>2, <2>3 DEF Increasing, InBatch
<1>6. ASSUME Increasing(s), Increasing(t), \A x \in InBatch(s), y \in InBatch(t) : x < y
      PROVE  Increasing(c)
  <2> SUFFICES ASSUME NEW i \in 1 .. Len(c), NEW j \in 1 .. Len(c), i < j
               PROVE  c[i] < c[j]
    BY DEF Increasing
  <2>1. CASE j <= Len(s)
    <3>1. i \in 1 .. Len(s) /\ j \in 1 .. Len(s)
      BY <1>2, <2>1
    <3>q. QED
      BY <1>3, <1>6, <3>1 DEF Increasing
  <2>2. CASE i <= Len(s) /\ ~(j <= Len(s))
    <3>1. i \in 1 .. Len(s) /\ j - Len(s) \in 1 .. Len(t) /\ c[j] = t[j - Len(s)]
      BY <1>1, <1>2, <2>2
    <3>2. c[i] \in InBatch(s) /\ c[j] \in InBatch(t)
      BY <1>3, <3>1 DEF InBatch
    <3>q. QED
      BY <1>6, <3>2
  <2>3. CASE ~(i <= Len(s))
    <3>1. /\ i - Len(s) \in 1 .. Len(t) /\ c[i] = t[i - Len(s)]
          /\ j - Len(s) \in 1 .. Len(t) /\ c[j] = t[j - Len(s)]
          /\ i - Len(s) < j - Len(s)
      BY <1>1, <1>2, <2>3
    <3>q. QED
      BY <1>6, <3>1 DEF Increasing
  <2>q. QED
    BY <1>1, <1>2, <2>1, <2>2, <2>3
<1>q. QED
  BY <1>5, <1>6 DEF c

\* what a filter keeps
LEMMA InBatchOnly ==
  ASSUME NEW S, NEW s \in Seq(S), NEW T
  PROVE  InBatch(Only(s, T)) = InBatch(s) \cap T
<1> DEFINE G == {q \in Seq(S) : InBatch(Only(q, T)) = InBatch(q) \cap T}
<1>1. <<>> \in G
  BY OnlyEmpty DEF InBatch
<1>2. ASSUME NEW q \in Seq(S), NEW e \in S, q \in G PROVE Append(q, e) \in G
  <2>1. /\ Append(q, e) = q \o <<e>> /\ Append(q, e) \in Seq(S) /\ <<e>> \in Seq(S)
        /\ InBatch(<<e>>) = {e}
    BY DEF InBatch
  <2>2. InBatch(Append(q, e)) = InBatch(q) \cup {e}
    <3>0. <<e>> \in Seq(S)
      OBVIOUS
    <3>1. InBatch(q \o <<e>>) = InBatch(q) \cup InBatch(<<e>>)
      <4> HIDE DEF G
      <4>q. QED
        BY <3>0, InBatchConcat
    <3>q. QED
      BY <2>1, <3>1
  <2>3. CASE e \in T
    <3> DEFINE k == Only(q, T)
    <3>1. Only(Append(q, e), T) = Append(k, e) /\ k \in Seq(S \cap T)
      BY <2>3, OnlyAppend, OnlyType
    <3> HIDE DEF k
    <3>2. Append(k, e) = k \o <<e>> /\ <<e>> \in Seq(S \cap T)
      BY <2>3, <3>1
    <3>3. InBatch(Append(k, e)) = InBatch(k) \cup {e}
      <4>1. InBatch(k \o <<e>>) = InBatch(k) \cup InBatch(<<e>>)
        BY <3>1, <3>2, InBatchConcat
      <4>q. QED
        BY <2>1, <3>2, <4>1
    <3>q. QED
      BY <1>2, <2>1, <2>2, <2>3, <3>1, <3>3 DEF k
  <2>4. CASE e \notin T
    <3>1. Only(Append(q, e), T) = Only(q, T)
      BY <2>4, OnlyAppend
    <3>q. QED
      BY <1>2, <2>1, <2>2, <2>4, <3>1
  <2>q. QED
    BY <2>3, <2>4
<1> HIDE DEF G
<1>3. s \in G
  BY <1>1, <1>2, SeqSetInduction
<1>q. QED
  BY <1>3 DEF G

----------------------------------------------------------------------------
(* The batches of the queue, one after the other. *)

\* f is the function that FlattenSeq applies to a sequence of length len
Joins(f, q, len) == f = [i \in 1 .. len |-> IF i = 1 THEN q[i] ELSE f[i - 1] \o q[i]]

\* the recursive function of FlattenSeq exists for every length
LEMMA JoinsExists ==
  ASSUME NEW q, NEW len \in Nat \ {0}
  PROVE  \E f : Joins(f, q, len)
<1> DEFINE G == {m \in Nat : \E f : Joins(f, q, m + 1)}
<1>1. 0 \in G
  <2> DEFINE f == [i \in 1 .. 0 + 1 |-> q[1]]
             h == [i \in 1 .. 0 + 1 |-> IF i = 1 THEN q[i] ELSE f[i - 1] \o q[i]]
  <2>1. \A i \in 1 .. 0 + 1 : f[i] = h[i]
    OBVIOUS
  <2>2. f = h
    BY <2>1
  <2>3. Joins(f, q, 0 + 1)
    BY <2>2 DEF Joins
  <2>q. QED
    BY <2>3
<1>2. ASSUME NEW m \in Nat, m \in G PROVE m + 1 \in G
  <2>1. PICK f : Joins(f, q, m + 1)
    BY <1>2
  <2> DEFINE top == f[m + 1] \o q[m + 2]
             g == [i \in 1 .. (m + 1) + 1 |-> IF i = m + 2 THEN top ELSE f[i]]
             h == [i \in 1 .. (m + 1) + 1 |-> IF i = 1 THEN q[i] ELSE g[i - 1] \o q[i]]
  <2>2. ASSUME NEW i \in 1 .. (m + 1) + 1 PROVE g[i] = h[i]
    <3>1. CASE i = 1
      <4>1. 1 \in 1 .. m + 1 /\ 1 # m + 2
        OBVIOUS
      <4>2. f[1] = q[1]
        BY <2>1, <4>1 DEF Joins
      <4>q. QED
        BY <3>1, <4>1, <4>2
    <3>2. CASE i # 1 /\ i # m + 2
      <4>1. i - 1 \in 1 .. (m + 1) + 1 /\ i - 1 # m + 2 /\ i \in 1 .. m + 1
        BY <3>2
      <4>2. g[i] = f[i] /\ g[i - 1] = f[i - 1]
        BY <4>1, <3>2
      <4>3. f[i] = f[i - 1] \o q[i]
        BY <4>1, <3>2, <2>1 DEF Joins
      <4>4. h[i] = g[i - 1] \o q[i]
        BY <3>2
      <4>q. QED
        BY <4>2, <4>3, <4>4
    <3>3. CASE i = m + 2
      <4>1. i - 1 = m + 1 /\ i # 1 /\ m + 1 \in 1 .. (m + 1) + 1 /\ m + 1 # m + 2
        BY <3>3
      <4>2. g[i] = top /\ g[i - 1] = f[m + 1]
        BY <4>1, <3>3
      <4>3. h[i] = g[i - 1] \o q[i]
        BY <4>1
      <4>q. QED
        BY <4>2, <4>3, <3>3
    <3>q. QED
      BY <3>1, <3>2, <3>3
  <2>3. g = h
    BY <2>2
  <2>4. Joins(g, q, (m + 1) + 1)
    BY <2>3 DEF Joins
  <2> HIDE DEF g
  <2>q. QED
    BY <2>4
<1> HIDE DEF G
<1>3. len - 1 \in Nat /\ (len - 1) + 1 = len
  OBVIOUS
<1>4. len - 1 \in G
  BY <1>1, <1>2, <1>3, NatSetInduction
<1>q. QED
  BY <1>3, <1>4 DEF G

\* flattening is the last value of that function
LEMMA FlattenIsJoined ==
  ASSUME NEW q, Len(q) \in Nat, Len(q) # 0
  PROVE  \E f : Joins(f, q, Len(q)) /\ FlattenSeq(q) = f[Len(q)]
<1> DEFINE F == CHOOSE f : Joins(f, q, Len(q))
<1>1. FlattenSeq(q) = F[Len(q)]
  BY DEF FlattenSeq, Joins
<1>2. Joins(F, q, Len(q))
  <2>1. \E f : Joins(f, q, Len(q))
    BY JoinsExists
  <2>q. QED
    BY <2>1
<1> HIDE DEF F
<1>q. QED
  BY <1>1, <1>2

\* the functions of two sequences agree where the sequences do
LEMMA JoinsAgree ==
  ASSUME NEW m \in Nat \ {0}, NEW s, NEW t, \A i \in 1 .. m : s[i] = t[i],
         NEW f, Joins(f, s, m), NEW g, Joins(g, t, m + 1)
  PROVE  f[m] = g[m]
<1> DEFINE G == {n \in Nat : n + 1 <= m => f[n + 1] = g[n + 1]}
<1>1. 0 \in G
  BY DEF Joins
<1>2. ASSUME NEW n \in Nat, n \in G PROVE n + 1 \in G
  <2> SUFFICES ASSUME (n + 1) + 1 <= m PROVE f[(n + 1) + 1] = g[(n + 1) + 1]
    OBVIOUS
  <2> DEFINE k == (n + 1) + 1
  <2>1. k \in 1 .. m /\ k \in 1 .. m + 1 /\ k # 1 /\ k - 1 = n + 1 /\ n + 1 <= m
    OBVIOUS
  <2>2. f[k - 1] = g[k - 1]
    BY <1>2, <2>1
  <2> HIDE DEF k
  <2>3. f[k] = f[k - 1] \o s[k] /\ g[k] = g[k - 1] \o t[k]
    BY <2>1 DEF Joins
  <2>4. f[k] = g[k]
    BY <2>1, <2>2, <2>3
  <2>q. QED
    BY <2>4 DEF k
<1> HIDE DEF G
<1>3. m - 1 \in Nat /\ (m - 1) + 1 = m
  OBVIOUS
<1>4. m - 1 \in G
  BY <1>1, <1>2, <1>3, NatSetInduction
<1>q. QED
  BY <1>3, <1>4 DEF G

\* an empty queue has no messages
LEMMA FlattenEmpty == FlattenSeq(<<>>) = <<>>
BY DEF FlattenSeq

\* flattening a sequence of sequences from its end ...
LEMMA FlattenAppend ==
  ASSUME NEW S, NEW q \in Seq(Seq(S)), NEW b \in Seq(S)
  PROVE  FlattenSeq(Append(q, b)) = FlattenSeq(q) \o b
<1> DEFINE t == Append(q, b)
           len == Len(q)
<1>1. /\ len \in Nat /\ Len(q) = len
      /\ t \in Seq(Seq(S)) /\ Len(t) = len + 1 /\ t[len + 1] = b
      /\ \A i \in 1 .. len : t[i] = q[i]
  OBVIOUS
<1> HIDE DEF t, len
<1>2. PICK g : Joins(g, t, len + 1) /\ FlattenSeq(t) = g[len + 1]
  BY <1>1, FlattenIsJoined
<1>3. CASE len = 0
  <2>1. g[1] = t[1] /\ q = <<>>
    BY <1>1, <1>2, <1>3 DEF Joins
  <2>2. FlattenSeq(t) = b
    BY <1>1, <1>2, <1>3, <2>1
  <2>3. FlattenSeq(q) \o b = b
    BY <2>1, FlattenEmpty, ConcatEmptySeq
  <2>q. QED
    BY <2>2, <2>3 DEF t
<1>4. CASE len # 0
  <2>1. PICK f : Joins(f, q, len) /\ FlattenSeq(q) = f[len]
    BY <1>1, <1>4, FlattenIsJoined
  <2>2. f[len] = g[len]
    <3>1. \A i \in 1 .. len : q[i] = t[i]
      BY <1>1
    <3>2. Joins(f, q, len) /\ Joins(g, t, len + 1) /\ len \in Nat \ {0}
      BY <1>1, <1>2, <1>4, <2>1
    <3>q. QED
      BY <3>1, <3>2, JoinsAgree, Z3
  <2>3. len + 1 \in 1 .. len + 1 /\ len + 1 # 1 /\ (len + 1) - 1 = len
    BY <1>1, <1>4
  <2>4. g[len + 1] = g[len] \o t[len + 1]
    BY <1>2, <2>3 DEF Joins
  <2>5. FlattenSeq(t) = FlattenSeq(q) \o b
    BY <1>1, <1>2, <2>1, <2>2, <2>4
  <2>q. QED
    BY <2>5 DEF t
<1>q. QED
  BY <1>3, <1>4

\* ... gives a sequence of their elements
LEMMA FlattenType ==
  ASSUME NEW S, NEW q \in Seq(Seq(S))
  PROVE  FlattenSeq(q) \in Seq(S)
<1> DEFINE G == {s \in Seq(Seq(S)) : FlattenSeq(s) \in Seq(S)}
<1>1. <<>> \in G
  <2>1. <<>> \in Seq(Seq(S)) /\ <<>> \in Seq(S)
    OBVIOUS
  <2>q. QED
    BY <2>1, FlattenEmpty
<1>2. ASSUME NEW s \in Seq(Seq(S)), NEW b \in Seq(S), s \in G PROVE Append(s, b) \in G
  <2>1. FlattenSeq(s) \o b \in Seq(S)
    BY <1>2, ConcatProperties
  <2>2. FlattenSeq(Append(s, b)) \in Seq(S)
    BY <2>1, FlattenAppend
  <2>q. QED
    BY <2>2
<1> HIDE DEF G
<1>3. q \in G
  <2> DEFINE B == Seq(S)
  <2>1. q \in Seq(B) /\ <<>> \in G /\ \A s \in Seq(B), b \in B : s \in G => Append(s, b) \in G
    BY <1>1, <1>2
  <2> HIDE DEF B
  <2>q. QED
    BY <2>1, SeqSetInduction
<1>q. QED
  BY <1>3 DEF G

\* ... and from its front
LEMMA FlattenFirst ==
  ASSUME NEW S, NEW b \in Seq(S), NEW q \in Seq(Seq(S))
  PROVE  FlattenSeq(<<b>> \o q) = b \o FlattenSeq(q)
<1> DEFINE B == Seq(S)
           G == {s \in Seq(B) : FlattenSeq(<<b>> \o s) = b \o FlattenSeq(s)}
<1>0. b \in B /\ q \in Seq(B) /\ <<>> \in Seq(B) /\ <<b>> \in Seq(B)
  OBVIOUS
<1>1. <<>> \in G
  <2>1. FlattenSeq(Append(<<>>, b)) = FlattenSeq(<<>>) \o b
    BY <1>0, FlattenAppend
  <2>2. <<b>> \o <<>> = <<b>> /\ Append(<<>>, b) = <<b>> /\ b \o <<>> = b /\ <<>> \o b = b
    BY <1>0, ConcatEmptySeq
  <2>q. QED
    BY <1>0, <2>1, <2>2, FlattenEmpty
<1>2. ASSUME NEW s \in Seq(B), NEW e \in B, s \in G PROVE Append(s, e) \in G
  <2>1. <<b>> \o s \in Seq(B) /\ <<b>> \o Append(s, e) = Append(<<b>> \o s, e)
    <3> HIDE DEF B
    <3>1. <<b>> \o s \in Seq(B)
      BY <1>0, ConcatProperties
    <3>2. Append(s, e) = s \o <<e>> /\ <<e>> \in Seq(B)
      OBVIOUS
    <3>3. Append(<<b>> \o s, e) = (<<b>> \o s) \o <<e>>
      BY <3>1
    <3>4. <<b>> \o (s \o <<e>>) = (<<b>> \o s) \o <<e>>
      BY <1>0, <3>2, ConcatAssociative
    <3>q. QED
      BY <3>1, <3>2, <3>3, <3>4
  <2>2. FlattenSeq(Append(<<b>> \o s, e)) = FlattenSeq(<<b>> \o s) \o e
    BY <2>1, FlattenAppend
  <2>3. FlattenSeq(Append(s, e)) = FlattenSeq(s) \o e /\ FlattenSeq(s) \in Seq(S)
    BY FlattenAppend, FlattenType
  <2>4. (b \o FlattenSeq(s)) \o e = b \o (FlattenSeq(s) \o e)
    BY <2>3, ConcatAssociative
  <2>5. FlattenSeq(<<b>> \o Append(s, e)) = b \o FlattenSeq(Append(s, e))
    BY <1>2, <2>1, <2>2, <2>3, <2>4
  <2>6. Append(s, e) \in Seq(B)
    <3> HIDE DEF B
    <3>q. QED
      OBVIOUS
  <2>q. QED
    BY <2>5, <2>6
<1> HIDE DEF G, B
<1>3. q \in G
  BY <1>0, <1>1, <1>2, SeqSetInduction
<1>q. QED
  BY <1>3 DEF G

----------------------------------------------------------------------------
(* The invariant of the intake. *)

\* the types of the intake; a worker that is idle has no batch
IntakeOK ==
  /\ from \in [Messages -> UserIds] /\ arrived \in 0 .. M /\ lost \subseteq 1 .. arrived
  /\ pending \in [UserIds -> Batch] /\ timers \in SUBSET UserIds /\ tied \subseteq timers
  /\ queue \in Seq(Batch) /\ Len(queue) <= Capacity
  /\ job \in [Workers -> Batch] /\ log \in Seq(Messages)
  /\ pc["loop"] = "idle" => job["loop"] = <<>>

\* the messages of a user that are somewhere
Alive(u) == {m \in FromUser(u) : m <= arrived /\ m \notin lost}

\* they are on his trace, in order
TraceOK(u) ==
  /\ pending[u] \in Seq(FromUser(u))
  /\ Increasing(Trace(u)) /\ InBatch(Trace(u)) = Alive(u)

Intake == IntakeOK /\ \A u \in UserIds : TraceOK(u)

(* Each worker creates one session at most: it does so only where none is    *)
(* known.                                                                    *)
SessionsOK ==
  /\ made \in {0} \cup Sessions /\ global = made
  /\ made = 1 => ~(pc["loop"] = "creating" /\ pc["post"] = "creating")
  /\ made = 2 => pc["loop"] # "creating" /\ pc["post"] # "creating"
  /\ \A w \in Workers : pc[w] \in Subscribed \cup {"enriching"} => mine[w] \in Sessions
  /\ \A w \in Workers : pc[w] = "prompting" => run[mine[w]] = w

\* what a sequence contains
LEMMA InBatchType ==
  ASSUME NEW S, NEW s \in Seq(S)
  PROVE  InBatch(s) \subseteq S
BY DEF InBatch

\* an increasing sequence without its end
LEMMA DropEnd ==
  ASSUME NEW S \in SUBSET Nat, NEW l \in Seq(S), NEW p \in Seq(S), Increasing(l \o p)
  PROVE  Increasing(l) /\ InBatch(l) = InBatch(l \o p) \ InBatch(p)
<1>1. Increasing(l) /\ \A x \in InBatch(l), y \in InBatch(p) : x < y
  BY IncreasingConcat
<1>2. InBatch(l \o p) = InBatch(l) \cup InBatch(p)
  BY InBatchConcat
<1>3. InBatch(l) \subseteq Nat
  BY InBatchType
<1>4. \A x \in InBatch(l) : x \notin InBatch(p)
  BY <1>1, <1>3
<1>q. QED
  BY <1>1, <1>2, <1>4

\* an increasing sequence without its middle
LEMMA DropMiddle ==
  ASSUME NEW S \in SUBSET Nat, NEW a \in Seq(S), NEW h \in Seq(S), NEW b \in Seq(S),
         Increasing(a \o (h \o b))
  PROVE  Increasing(a \o b) /\ InBatch(a \o b) = InBatch(a \o (h \o b)) \ InBatch(h)
<1>0. h \o b \in Seq(S)
  BY ConcatProperties
<1>1. /\ Increasing(a) /\ Increasing(h \o b)
      /\ \A x \in InBatch(a), y \in InBatch(h \o b) : x < y
  <2> DEFINE c == h \o b
  <2>1. c \in Seq(S) /\ Increasing(a \o c)
    BY <1>0
  <2> HIDE DEF c
  <2>2. /\ Increasing(a) /\ Increasing(c)
        /\ \A x \in InBatch(a), y \in InBatch(c) : x < y
    BY <2>1, IncreasingConcat
  <2>q. QED
    BY <2>2 DEF c
<1>2. Increasing(b) /\ \A x \in InBatch(h), y \in InBatch(b) : x < y
  BY <1>1, IncreasingConcat
<1>3. /\ InBatch(h \o b) = InBatch(h) \cup InBatch(b)
      /\ InBatch(a \o b) = InBatch(a) \cup InBatch(b)
  BY InBatchConcat
<1>4. InBatch(a \o (h \o b)) = InBatch(a) \cup InBatch(h \o b)
  <2> DEFINE c == h \o b
  <2>1. c \in Seq(S)
    BY <1>0
  <2> HIDE DEF c
  <2>2. InBatch(a \o c) = InBatch(a) \cup InBatch(c)
    BY <2>1, InBatchConcat
  <2>q. QED
    BY <2>2 DEF c
<1>5. InBatch(a) \subseteq Nat /\ InBatch(b) \subseteq Nat
  BY InBatchType
<1>6. Increasing(a \o b)
  BY <1>1, <1>2, <1>3, IncreasingConcat
<1>7. (\A x \in InBatch(a) : x \notin InBatch(h)) /\ (\A x \in InBatch(b) : x \notin InBatch(h))
  BY <1>1, <1>2, <1>3, <1>5
<1>q. QED
  BY <1>3, <1>4, <1>6, <1>7

\* what is worked off and on its way is a sequence of messages
LEMMA LineType ==
  ASSUME IntakeOK
  PROVE  /\ Messages \subseteq Nat /\ M \in Nat /\ arrived \in Nat
         /\ log \in Seq(Messages) /\ job["loop"] \in Seq(Messages)
         /\ FlattenSeq(queue) \in Seq(Messages) /\ Line \in Seq(Messages)
<1>1. Messages \subseteq Nat /\ M \in Nat
  BY ChatAssumption DEF Messages
<1>2. log \in Seq(Messages) /\ job["loop"] \in Seq(Messages) /\ arrived \in Nat
  BY <1>1 DEF IntakeOK, Workers, Batch
<1>3. FlattenSeq(queue) \in Seq(Messages)
  BY FlattenType DEF IntakeOK, Batch
<1>4. log \o job["loop"] \in Seq(Messages)
  BY <1>2, ConcatProperties
<1>5. (log \o job["loop"]) \o FlattenSeq(queue) \in Seq(Messages)
  BY <1>3, <1>4, ConcatProperties
<1>q. QED
  BY <1>1, <1>2, <1>3, <1>5 DEF Line

\* the messages of a user are found in a sequence by a filter
LEMMA OwnMessages ==
  ASSUME NEW u, NEW s \in Seq(Messages)
  PROVE  /\ Only(s, FromUser(u)) \in Seq(FromUser(u))
         /\ Only(s, FromUser(u)) \in Seq(Messages)
         /\ InBatch(Only(s, FromUser(u))) = InBatch(s) \cap FromUser(u)
         /\ FromUser(u) \subseteq Messages
<1>1. Messages \cap FromUser(u) = FromUser(u) /\ FromUser(u) \subseteq Messages
  BY DEF FromUser
<1>2. Only(s, FromUser(u)) \in Seq(FromUser(u))
  BY <1>1, OnlyType
<1>3. Only(s, FromUser(u)) \in Seq(Messages)
  <2> DEFINE k == Only(s, FromUser(u))
  <2>1. k \in Seq(FromUser(u))
    BY <1>2
  <2> HIDE DEF k
  <2>2. k \in Seq(Messages)
    BY <1>1, <2>1, SeqMonotonic
  <2>q. QED
    BY <2>2 DEF k
<1>q. QED
  BY <1>1, <1>2, <1>3, InBatchOnly

\* nothing moves with respect to the trace
LEMMA SameTrace ==
  ASSUME NEW u, TraceOK(u), Line' = Line, UNCHANGED <<from, arrived, pending, lost>>
  PROVE  TraceOK(u)'
BY DEF TraceOK, Trace, Alive, FromUser

\* the steps that leave the intake alone, where the loop does not become idle
LEMMA IntakeStays ==
  ASSUME Intake, UNCHANGED <<from, arrived, pending, timers, tied, lost, queue, job, log>>,
         pc'["loop"] = "idle" => pc["loop"] = "idle"
  PROVE  Intake'
<1>1. IntakeOK'
  BY DEF Intake, IntakeOK
<1>2. Line' = Line
  BY DEF Line
<1>3. ASSUME NEW u \in UserIds PROVE TraceOK(u)'
  BY <1>2, SameTrace DEF Intake
<1>q. QED
  BY <1>1, <1>3 DEF Intake

\* the loop takes the first batch
LEMMA LoopTakesIntake ==
  ASSUME Intake, LoopTakes, DOMAIN pc = Workers
  PROVE  Intake'
<1>1. /\ queue # <<>> /\ pc["loop"] = "idle" /\ pc' = [pc EXCEPT !["loop"] = "session"]
      /\ job' = [job EXCEPT !["loop"] = Head(queue)] /\ queue' = Tail(queue)
      /\ UNCHANGED <<from, arrived, pending, timers, tied, lost, log>>
  BY DEF LoopTakes, reply, Goes, Quiet
<1>2. IntakeOK /\ "loop" \in Workers
  BY DEF Intake, Workers
<1>3. queue \in Seq(Batch) /\ Head(queue) \in Batch /\ Tail(queue) \in Seq(Batch)
      /\ Len(Tail(queue)) <= Len(queue) /\ queue = <<Head(queue)>> \o Tail(queue)
  BY <1>1 DEF Intake, IntakeOK
<1>4. job["loop"] = <<>> /\ job'["loop"] = Head(queue)
  BY <1>1, <1>2 DEF IntakeOK
<1>5. IntakeOK'
  <2>1. job' \in [Workers -> Batch]
    BY <1>1, <1>2, <1>3 DEF IntakeOK
  <2>2. pc'["loop"] = "session"
    BY <1>1, <1>2
  <2>3. Len(Tail(queue)) <= Capacity
    <3>1. Len(queue) \in Nat /\ Len(Tail(queue)) \in Nat /\ Capacity \in Nat
      BY <1>3, ChatAssumption
    <3>q. QED
      BY <1>2, <1>3, <3>1 DEF IntakeOK
  <2>q. QED
    BY <1>1, <1>2, <1>3, <2>1, <2>2, <2>3 DEF IntakeOK
<1>6. Line' = Line
  <2> DEFINE hd == Head(queue)
             tl == FlattenSeq(Tail(queue))
  <2>1. hd \in Seq(Messages) /\ tl \in Seq(Messages) /\ log \in Seq(Messages)
    BY <1>2, <1>3, FlattenType, LineType DEF Batch
  <2>2. FlattenSeq(<<hd>> \o Tail(queue)) = hd \o tl
    BY <1>3, FlattenFirst DEF Batch
  <2>3. FlattenSeq(queue) = hd \o tl
    BY <1>3, <2>2
  <2>4. Line = (log \o <<>>) \o (hd \o tl) /\ Line' = (log \o hd) \o tl
    BY <1>1, <1>4, <2>3 DEF Line
  <2> HIDE DEF hd, tl
  <2>5. log \o <<>> = log /\ log \o (hd \o tl) = (log \o hd) \o tl
    BY <2>1, ConcatEmptySeq, ConcatAssociative
  <2>q. QED
    BY <2>4, <2>5
<1>7. ASSUME NEW u \in UserIds PROVE TraceOK(u)'
  BY <1>1, <1>6, SameTrace DEF Intake
<1>q. QED
  BY <1>5, <1>7 DEF Intake

\* a worker is through with its batch
LEMMA FinishIntake ==
  ASSUME Intake, NEW w \in Workers, NEW t, Finish(w, t), DOMAIN pc = Workers,
         UNCHANGED <<from, arrived, pending, timers, tied, lost, queue>>
  PROVE  Intake'
<1>1. IntakeOK /\ "loop" \in Workers
  BY DEF Intake, Workers
<1>2. /\ pc' = [pc EXCEPT ![w] = "idle"] /\ job' = [job EXCEPT ![w] = <<>>]
      /\ log' = IF w = "loop" THEN log \o job[w] ELSE log
  BY DEF Finish
<1>3. log' \in Seq(Messages)
  <2>1. log \o job["loop"] \in Seq(Messages)
    BY <1>1, LineType, ConcatProperties
  <2>q. QED
    BY <1>1, <1>2, <2>1 DEF IntakeOK
<1>4. IntakeOK'
  <2>1. job' \in [Workers -> Batch]
    BY <1>1, <1>2 DEF IntakeOK, Batch
  <2>2. pc'["loop"] = "idle" => job'["loop"] = <<>>
    BY <1>1, <1>2 DEF IntakeOK
  <2>q. QED
    BY <1>1, <1>3, <2>1, <2>2 DEF IntakeOK
<1>5. Line' = Line
  <2>1. CASE w = "loop"
    <3>1. log' = log \o job["loop"] /\ job'["loop"] = <<>>
      BY <1>1, <1>2, <2>1 DEF IntakeOK
    <3>2. Line' = (log' \o <<>>) \o FlattenSeq(queue)
      BY <3>1 DEF Line
    <3>3. log' \o <<>> = log'
      BY <1>3, ConcatEmptySeq
    <3>q. QED
      BY <3>1, <3>2, <3>3 DEF Line
  <2>2. CASE w # "loop"
    <3>1. log' = log /\ job'["loop"] = job["loop"]
      BY <1>1, <1>2, <2>2 DEF IntakeOK
    <3>q. QED
      BY <3>1 DEF Line
  <2>q. QED
    BY <2>1, <2>2
<1>6. ASSUME NEW u \in UserIds PROVE TraceOK(u)'
  BY <1>5, SameTrace DEF Intake
<1>q. QED
  BY <1>4, <1>6 DEF Intake

\* what is on a trace has arrived
LEMMA HaveArrived ==
  ASSUME Intake
  PROVE  /\ InBatch(Line) \subseteq 1 .. arrived
         /\ \A u \in UserIds : InBatch(pending[u]) \subseteq 1 .. arrived
<1>0. IntakeOK /\ Line \in Seq(Messages) /\ from \in [Messages -> UserIds]
  BY LineType DEF Intake, IntakeOK
<1>1. ASSUME NEW u \in UserIds
      PROVE  /\ InBatch(pending[u]) \subseteq 1 .. arrived
             /\ InBatch(Line) \cap FromUser(u) \subseteq 1 .. arrived
  <2> DEFINE l == Only(Line, FromUser(u))
             p == pending[u]
  <2>1. /\ l \in Seq(FromUser(u)) /\ InBatch(l) = InBatch(Line) \cap FromUser(u)
        /\ FromUser(u) \subseteq Messages
    BY <1>0, OwnMessages
  <2>2. p \in Seq(FromUser(u)) /\ InBatch(l \o p) = Alive(u)
    BY DEF Intake, TraceOK, Trace
  <2> HIDE DEF l, p
  <2>3. InBatch(l) \cup InBatch(p) = Alive(u)
    BY <2>1, <2>2, InBatchConcat
  <2>4. Alive(u) \subseteq 1 .. arrived
    BY <2>1 DEF Alive, Messages
  <2>q. QED
    BY <2>1, <2>3, <2>4 DEF p
<1>2. ASSUME NEW m \in InBatch(Line) PROVE m \in 1 .. arrived
  <2>1. m \in Messages /\ from[m] \in UserIds
    BY <1>0, InBatchType
  <2>2. m \in FromUser(from[m])
    BY <2>1 DEF FromUser
  <2>q. QED
    BY <1>1, <2>1, <2>2
<1>q. QED
  BY <1>1, <1>2

\* a message arrives: it is the last one of its user's trace
LEMMA ArrivesIntake ==
  ASSUME Intake, Arrives
  PROVE  Intake'
<1> DEFINE n == arrived + 1
           u == from[n]
<1>0. IntakeOK /\ Line \in Seq(Messages) /\ M \in Nat /\ arrived \in Nat /\ Messages \subseteq Nat
  BY LineType DEF Intake
<1>1. n \in Messages /\ u \in UserIds /\ n \in Nat /\ n \notin lost /\ n \in FromUser(u)
  BY <1>0 DEF Arrives, Messages, IntakeOK, FromUser
<1>2. /\ arrived < M /\ arrived' = n /\ pending' = [pending EXCEPT ![u] = Append(@, n)]
      /\ timers' = timers \cup {u} /\ tied' = tied \ {u}
      /\ UNCHANGED <<from, queue, lost, pc, job, log>>
  BY DEF Arrives, reply
<1>3. Line' = Line
  BY <1>2 DEF Line
<1>4. IntakeOK'
  <2>1. pending[u] \in Seq(Messages) /\ Append(pending[u], n) \in Seq(Messages)
    <3>1. pending[u] \in Seq(Messages)
      BY <1>0, <1>1 DEF IntakeOK, Batch
    <3> HIDE DEF n, u
    <3>q. QED
      BY <1>1, <3>1
  <2>2. pending' \in [UserIds -> Batch]
    BY <1>0, <1>1, <1>2, <2>1 DEF IntakeOK, Batch
  <2>3. arrived' \in 0 .. M /\ lost' \subseteq 1 .. arrived'
    BY <1>0, <1>2 DEF IntakeOK
  <2>4. timers' \in SUBSET UserIds /\ tied' \subseteq timers'
    BY <1>0, <1>1, <1>2 DEF IntakeOK
  <2>q. QED
    BY <1>0, <1>2, <2>2, <2>3, <2>4 DEF IntakeOK
<1>5. ASSUME NEW v \in UserIds, v # u PROVE TraceOK(v)'
  <2>1. pending'[v] = pending[v]
    BY <1>0, <1>2, <1>5 DEF IntakeOK
  <2>2. Trace(v)' = Trace(v) /\ FromUser(v)' = FromUser(v)
    BY <1>2, <1>3, <2>1 DEF Trace, FromUser
  <2>3. Alive(v)' = Alive(v)
    <3>1. n \notin FromUser(v) /\ FromUser(v) \subseteq Nat
      BY <1>0, <1>5 DEF FromUser
    <3>q. QED
      BY <1>0, <1>2, <2>2, <3>1 DEF Alive
  <2>q. QED
    BY <2>1, <2>2, <2>3 DEF TraceOK, Intake
<1>6. ASSUME NEW v \in UserIds, v = u PROVE TraceOK(v)'
  <2> DEFINE T == FromUser(v)
             l == Only(Line, T)
             p == pending[v]
  <2>1. /\ l \in Seq(T) /\ p \in Seq(T) /\ n \in T /\ <<n>> \in Seq(T) /\ T \in SUBSET Nat
        /\ Increasing(l \o p) /\ InBatch(l \o p) = Alive(v)
    <3>1. l \in Seq(T)
      BY <1>0, OwnMessages
    <3>2. p \in Seq(T) /\ Increasing(l \o p) /\ InBatch(l \o p) = Alive(v)
      BY DEF Intake, TraceOK, Trace
    <3>3. T \in SUBSET Nat
      BY <1>0 DEF FromUser
    <3>5. n \in T
      BY <1>1, <1>6
    <3>4. <<n>> \in Seq(T)
      <4> HIDE DEF n, T
      <4>q. QED
        BY <3>5
    <3>q. QED
      BY <3>1, <3>2, <3>3, <3>4, <3>5
  <2>2. pending'[v] = Append(p, n) /\ FromUser(v)' = T
    BY <1>0, <1>1, <1>2, <1>6 DEF IntakeOK, FromUser
  <2>3. Trace(v)' = l \o Append(p, n)
    BY <1>3, <2>2 DEF Trace
  <2>4. Alive(v)' = Alive(v) \cup {n} /\ \A x \in Alive(v) : x < n
    BY <1>0, <1>1, <1>2, <1>6, <2>1, <2>2 DEF Alive
  <2> HIDE DEF l, p, n, T, u
  <2> DEFINE t == l \o p
  <2>5. t \in Seq(T) /\ Append(p, n) = p \o <<n>>
    BY <2>1
  <2>6. l \o Append(p, n) = t \o <<n>>
    BY <2>1, <2>5, ConcatAssociative
  <2>7. Append(p, n) \in Seq(T)
    BY <2>1
  <2> HIDE DEF t
  <2>8. InBatch(<<n>>) = {n} /\ Increasing(<<n>>)
    BY DEF InBatch, Increasing
  <2>9. InBatch(t \o <<n>>) = InBatch(t) \cup {n}
    <3>1. InBatch(t \o <<n>>) = InBatch(t) \cup InBatch(<<n>>)
      <4>1. <<n>> \in Seq(T) /\ t \in Seq(T)
        BY <2>1, <2>5
      <4>q. QED
        BY <4>1, InBatchConcat, Zenon
    <3>q. QED
      BY <2>8, <3>1
  <2>10. Increasing(t \o <<n>>)
    <3>1. Increasing(t) /\ \A x \in InBatch(t), y \in InBatch(<<n>>) : x < y
      BY <2>1, <2>4, <2>8 DEF t
    <3>q. QED
      BY <2>1, <2>5, <2>8, <3>1, IncreasingConcat
  <2>11. InBatch(t) = Alive(v)
    BY <2>1 DEF t
  <2>q. QED
    BY <2>2, <2>3, <2>4, <2>6, <2>7, <2>9, <2>10, <2>11 DEF TraceOK
<1>q. QED
  BY <1>4, <1>5, <1>6 DEF Intake

\* a batch is added to the end of the line; the oldest one may leave for it
LEMMA PushLine ==
  ASSUME IntakeOK, NEW b \in Batch, Push(b), UNCHANGED <<log, job>>
  PROVE  /\ queue' \in Seq(Batch) /\ Len(queue') <= Capacity
         /\ \E A, H, B \in Seq(Messages) :
              /\ Line = A \o (H \o B) /\ Line' = (A \o B) \o b
              /\ lost' = lost \cup InBatch(H)
<1> DEFINE A == log \o job["loop"]
           F == FlattenSeq(queue)
<1>0. /\ queue \in Seq(Batch) /\ Len(queue) \in Nat /\ Len(queue) <= Capacity /\ Capacity \in Nat \ {0}
      /\ A \in Seq(Messages) /\ F \in Seq(Messages) /\ b \in Seq(Messages) /\ Line = A \o F
      /\ Line' = A \o FlattenSeq(queue')
  <2>1. log \in Seq(Messages) /\ job["loop"] \in Seq(Messages) /\ F \in Seq(Messages)
    BY LineType
  <2>2. A \in Seq(Messages)
    BY <2>1, ConcatProperties
  <2>q. QED
    BY <2>1, <2>2, ChatAssumption DEF IntakeOK, Line, Batch
<1>1. CASE Len(queue) < Capacity
  <2>1. queue' = Append(queue, b) /\ lost' = lost
    BY <1>1 DEF Push
  <2>2. queue' \in Seq(Batch) /\ Len(queue') <= Capacity
    BY <1>0, <1>1, <2>1
  <2>3. FlattenSeq(queue') = F \o b
    BY <1>0, <2>1, FlattenAppend DEF Batch
  <2> HIDE DEF A, F
  <2> DEFINE L == A \o F
  <2>4. L \in Seq(Messages) /\ <<>> \in Seq(Messages)
    BY <1>0
  <2>5. A \o (F \o b) = L \o b
    <3>1. A \in Seq(Messages) /\ F \in Seq(Messages) /\ b \in Seq(Messages)
      BY <1>0
    <3>q. QED
      BY <3>1, ConcatAssociative
  <2>6. L = L \o (<<>> \o <<>>) /\ L \o <<>> = L
    <3> HIDE DEF L
    <3>q. QED
      BY <2>4, ConcatEmptySeq
  <2>7. Line = L \o (<<>> \o <<>>) /\ Line' = (L \o <<>>) \o b /\ InBatch(<<>>) = {}
    BY <1>0, <2>3, <2>5, <2>6 DEF InBatch
  <2> HIDE DEF L
  <2>q. QED
    BY <2>1, <2>2, <2>4, <2>7
<1>2. CASE ~(Len(queue) < Capacity)
  <2> DEFINE H == Head(queue)
             R == Tail(queue)
             B == FlattenSeq(R)
  <2>1. queue' = Append(R, b) /\ lost' = lost \cup InBatch(H)
    BY <1>2 DEF Push
  <2>2. /\ queue # <<>> /\ H \in Batch /\ R \in Seq(Batch) /\ queue = <<H>> \o R
        /\ Len(R) + 1 = Len(queue)
    <3>1. queue # <<>>
      BY <1>0, <1>2
    <3>q. QED
      BY <1>0, <3>1
  <2>3. queue' \in Seq(Batch) /\ Len(queue') <= Capacity
    <3> HIDE DEF R
    <3>q. QED
      BY <1>0, <2>1, <2>2
  <2>4. FlattenSeq(<<H>> \o R) = H \o B /\ B \in Seq(Messages) /\ H \in Seq(Messages)
    BY <2>2, FlattenFirst, FlattenType DEF Batch
  <2>5. FlattenSeq(Append(R, b)) = B \o b
    BY <2>2, FlattenAppend DEF Batch
  <2> HIDE DEF A, F, H, B, R
  <2>6. A \o (B \o b) = (A \o B) \o b
    <3>1. A \in Seq(Messages) /\ B \in Seq(Messages) /\ b \in Seq(Messages)
      BY <1>0, <2>4
    <3>q. QED
      BY <3>1, ConcatAssociative
  <2>7. Line = A \o (H \o B) /\ Line' = (A \o B) \o b
    BY <1>0, <2>1, <2>2, <2>4, <2>5, <2>6 DEF F
  <2>q. QED
    BY <1>0, <2>1, <2>3, <2>4, <2>7
<1>q. QED
  BY <1>1, <1>2

Associates(s, t, u) == (s \o t) \o u = s \o (t \o u)
Distributes(s, t, T) == Only(s \o t, T) = Only(s, T) \o Only(t, T)

\* two known facts, in a form that is easy to use among many sequences
LEMMA AllAssociate ==
  ASSUME NEW S, NEW s \in Seq(S), NEW t \in Seq(S), NEW u \in Seq(S)
  PROVE  Associates(s, t, u)
BY ConcatAssociative DEF Associates

\* ... and how a filter goes through a concatenation
LEMMA AllDistribute ==
  ASSUME NEW S, NEW s \in Seq(S), NEW t \in Seq(S), NEW T
  PROVE  Distributes(s, t, T)
BY OnlyConcat DEF Distributes

FilteredApart(a, b, c, T) ==
  /\ Only(a \o (b \o c), T) = Only(a, T) \o (Only(b, T) \o Only(c, T))
  /\ Only((a \o b) \o c, T) = (Only(a, T) \o Only(b, T)) \o Only(c, T)

\* a filter goes through a sequence of three parts
LEMMA OnlyThree ==
  ASSUME NEW S, NEW a \in Seq(S), NEW b \in Seq(S), NEW c \in Seq(S), NEW T
  PROVE  FilteredApart(a, b, c, T)
<1>1. Only(a \o b, T) = Only(a, T) \o Only(b, T) /\ Only(b \o c, T) = Only(b, T) \o Only(c, T)
  BY OnlyConcat
<1> DEFINE l == a \o b
           r == b \o c
<1>2. l \in Seq(S) /\ r \in Seq(S)
  BY ConcatProperties
<1> HIDE DEF l, r
<1>3. Distributes(a, r, T) /\ Distributes(l, c, T)
  BY <1>2, AllDistribute
<1>q. QED
  BY <1>1, <1>3 DEF l, r, FilteredApart, Distributes

SecondDropped(a, h, b, r, z) ==
  Increasing((a \o (h \o b)) \o (r \o z)) =>
    /\ Increasing(((a \o b) \o r) \o z)
    /\ InBatch(((a \o b) \o r) \o z) = InBatch((a \o (h \o b)) \o (r \o z)) \ InBatch(h)

\* of increasing parts the second leaves
LEMMA DropSecond ==
  ASSUME NEW T \in SUBSET Nat, NEW a \in Seq(T), NEW h \in Seq(T), NEW b \in Seq(T),
         NEW r \in Seq(T), NEW z \in Seq(T)
  PROVE  SecondDropped(a, h, b, r, z)
<1> SUFFICES ASSUME Increasing((a \o (h \o b)) \o (r \o z))
             PROVE  /\ Increasing(((a \o b) \o r) \o z)
                    /\ InBatch(((a \o b) \o r) \o z)
                         = InBatch((a \o (h \o b)) \o (r \o z)) \ InBatch(h)
  BY DEF SecondDropped
<1> DEFINE q == r \o z
           bq == b \o q
<1>1. q \in Seq(T)
  BY ConcatProperties
<1>2. h \o b \in Seq(T) /\ a \o b \in Seq(T)
  BY ConcatProperties
<1>3. ((a \o b) \o r) \o z = (a \o b) \o q
  <2>1. Associates(a \o b, r, z)
    BY <1>2, AllAssociate
  <2>q. QED
    BY <2>1 DEF Associates
<1> HIDE DEF q
<1>4. bq \in Seq(T)
  BY <1>1, ConcatProperties
<1>5. (a \o b) \o q = a \o bq
  <2>1. Associates(a, b, q)
    BY <1>1, AllAssociate
  <2>q. QED
    BY <2>1 DEF Associates
<1>9. (h \o b) \o q = h \o bq
  <2>1. Associates(h, b, q)
    BY <1>1, AllAssociate
  <2>q. QED
    BY <2>1 DEF Associates
<1>6. (a \o (h \o b)) \o q = a \o ((h \o b) \o q)
  <2>1. Associates(a, h \o b, q)
    BY <1>1, <1>2, AllAssociate
  <2>q. QED
    BY <2>1 DEF Associates
<1> HIDE DEF bq
<1>7. Increasing(a \o (h \o bq))
  BY <1>9, <1>6 DEF q
<1>8. Increasing(a \o bq) /\ InBatch(a \o bq) = InBatch(a \o (h \o bq)) \ InBatch(h)
  BY <1>4, <1>7, DropMiddle
<1>q. QED
  BY <1>3, <1>5, <1>6, <1>8, <1>9 DEF q

\* a batch of the user u joins the line, and its middle part H is dropped
LEMMA TraceMoves ==
  ASSUME Intake, NEW u \in UserIds, NEW v \in UserIds,
         NEW A \in Seq(Messages), NEW H \in Seq(Messages), NEW B \in Seq(Messages),
         Line = A \o (H \o B), Line' = (A \o B) \o pending[u],
         lost' = lost \cup InBatch(H), UNCHANGED <<from, arrived>>,
         pending' = [pending EXCEPT ![u] = <<>>]
  PROVE  TraceOK(v)'
<1> DEFINE T == FromUser(v)
           a == Only(A, T)
           h == Only(H, T)
           b == Only(B, T)
           p == pending[u]
           q == pending[v]
<1>0. IntakeOK /\ Messages \subseteq Nat /\ TraceOK(v) /\ pending[u] \in Seq(FromUser(u))
  BY LineType DEF Intake, TraceOK
<1>1. /\ a \in Seq(T) /\ h \in Seq(T) /\ b \in Seq(T) /\ q \in Seq(T) /\ T \in SUBSET Nat
      /\ InBatch(h) = InBatch(H) \cap T /\ p \in Seq(Messages) /\ T \subseteq Messages
      /\ p \in Seq(FromUser(u))
  <2>1. a \in Seq(T) /\ h \in Seq(T) /\ b \in Seq(T) /\ InBatch(h) = InBatch(H) \cap T
    BY OwnMessages
  <2>2. T \subseteq Messages
    BY DEF FromUser
  <2>3. q \in Seq(T) /\ p \in Seq(Messages)
    BY <1>0 DEF TraceOK, IntakeOK, Batch
  <2>q. QED
    BY <1>0, <2>1, <2>2, <2>3
<1>2. Only(Line, T) = a \o (h \o b) /\ Only(Line', T) = (a \o b) \o Only(p, T)
  <2>1. Only(A \o (H \o B), T) = a \o (h \o b)
    <3>1. FilteredApart(A, H, B, T)
      BY OnlyThree
    <3>q. QED
      BY <3>1 DEF FilteredApart
  <2>2. Only((A \o B) \o p, T) = (a \o b) \o Only(p, T)
    <3>1. FilteredApart(A, B, p, T)
      BY <1>1, OnlyThree
    <3>q. QED
      BY <3>1 DEF FilteredApart
  <2>q. QED
    BY <2>1, <2>2
<1>4. FromUser(v)' = T /\ Alive(v)' = Alive(v) \ InBatch(H) /\ Alive(v) \subseteq T
  BY DEF FromUser, Alive
<1>5. Only(p, T) \o pending'[v] = q /\ pending'[v] \in Seq(T)
  <2>1. CASE v = u
    <3>1. Only(p, T) = p /\ pending'[v] = <<>> /\ p = q
      BY <1>0, <1>1, <2>1, OnlyAll DEF IntakeOK
    <3> HIDE DEF p, q, T
    <3>2. <<>> \in Seq(T) /\ q \o <<>> = q
      BY <1>1, ConcatEmptySeq
    <3>q. QED
      BY <3>1, <3>2
  <2>2. CASE v # u
    <3>1. FromUser(u) \cap T = {}
      BY <2>2 DEF FromUser
    <3>2. Only(p, T) = <<>> /\ pending'[v] = q
      BY <1>0, <1>1, <2>2, <3>1, OnlyNone DEF IntakeOK
    <3> HIDE DEF p, q, T
    <3>3. <<>> \o q = q
      BY <1>1, ConcatEmptySeq
    <3>q. QED
      BY <1>1, <3>2, <3>3
  <2>q. QED
    BY <2>1, <2>2
<1>6. Trace(v) = (a \o (h \o b)) \o q /\ Trace(v)' = ((a \o b) \o Only(p, T)) \o pending'[v]
  BY <1>2, <1>4 DEF Trace
<1> DEFINE r == Only(p, T)
           z == pending'[v]
<1>7. r \in Seq(T) /\ z \in Seq(T) /\ r \o z = q
  BY <1>1, <1>5, OwnMessages
<1>8. Increasing((a \o (h \o b)) \o (r \o z)) /\ InBatch((a \o (h \o b)) \o (r \o z)) = Alive(v)
  BY <1>0, <1>6, <1>7 DEF TraceOK
<1>9. Trace(v)' = ((a \o b) \o r) \o z
  BY <1>6
<1> HIDE DEF a, h, b, p, q, T, r, z
<1>10. /\ Increasing(((a \o b) \o r) \o z)
       /\ InBatch(((a \o b) \o r) \o z) = InBatch((a \o (h \o b)) \o (r \o z)) \ InBatch(h)
  <2>1. /\ T \in SUBSET Nat /\ a \in Seq(T) /\ h \in Seq(T) /\ b \in Seq(T)
        /\ r \in Seq(T) /\ z \in Seq(T)
    BY <1>1, <1>7
  <2>2. Increasing((a \o (h \o b)) \o (r \o z))
    BY <1>8
  <2>3. SecondDropped(a, h, b, r, z)
    BY <2>1, DropSecond
  <2>q. QED
    BY <2>2, <2>3 DEF SecondDropped
<1>11. InBatch(((a \o b) \o r) \o z) = Alive(v) \ InBatch(H)
  BY <1>1, <1>4, <1>8, <1>10
<1>q. QED
  BY <1>4, <1>5, <1>9, <1>10, <1>11 DEF TraceOK

\* a batch is refused: its messages are lost
LEMMA TraceEnds ==
  ASSUME Intake, NEW u \in UserIds, NEW v \in UserIds,
         Line' = Line, lost' = lost \cup InBatch(pending[u]), UNCHANGED <<from, arrived>>,
         pending' = [pending EXCEPT ![u] = <<>>]
  PROVE  TraceOK(v)'
<1> DEFINE T == FromUser(v)
           l == Only(Line, T)
           p == pending[u]
<1>0. IntakeOK /\ Messages \subseteq Nat /\ TraceOK(v) /\ Line \in Seq(Messages)
  BY LineType DEF Intake
<1>1. FromUser(v)' = T /\ T \subseteq Nat /\ l \in Seq(T)
  BY <1>0, OwnMessages DEF FromUser
<1>2. Alive(v)' = Alive(v) \ InBatch(p) /\ Alive(v) \subseteq T
  BY DEF FromUser, Alive
<1>3. p \in Seq(FromUser(u))
  BY DEF Intake, TraceOK
<1>4. CASE v = u
  <2>1. p \in Seq(T) /\ Increasing(l \o p) /\ InBatch(l \o p) = Alive(v)
    BY <1>0, <1>4 DEF TraceOK, Trace
  <2>2. pending'[v] = <<>>
    BY <1>0, <1>4 DEF IntakeOK
  <2>3. Trace(v)' = l \o <<>>
    BY <1>1, <2>2 DEF Trace
  <2> HIDE DEF l, p, T
  <2>4. l \o <<>> = l /\ <<>> \in Seq(T)
    BY <1>1, ConcatEmptySeq
  <2>5. Increasing(l) /\ InBatch(l) = Alive(v) \ InBatch(p)
    BY <1>1, <2>1, DropEnd
  <2>q. QED
    BY <1>1, <1>2, <2>2, <2>3, <2>4, <2>5 DEF TraceOK
<1>5. CASE v # u
  <2>1. pending'[v] = pending[v]
    BY <1>0, <1>5 DEF IntakeOK
  <2>2. Trace(v)' = Trace(v)
    BY <1>1, <2>1 DEF Trace
  <2>3. InBatch(p) \cap T = {}
    <3>1. InBatch(p) \subseteq FromUser(u)
      BY <1>3, InBatchType
    <3>2. FromUser(u) \cap T = {}
      BY <1>5 DEF FromUser
    <3>q. QED
      BY <3>1, <3>2
  <2>4. Alive(v)' = Alive(v)
    BY <1>2, <2>3
  <2>q. QED
    BY <1>0, <1>1, <2>1, <2>2, <2>4 DEF TraceOK
<1>q. QED
  BY <1>4, <1>5

\* the debounce of a user ends
LEMMA FlushIntake ==
  ASSUME Intake, NEW u \in UserIds, FlushUserMessages(u)
  PROVE  Intake'
<1>0. IntakeOK /\ pending[u] \in Batch
  BY DEF Intake, IntakeOK
<1>1. /\ timers' = timers \ {u} /\ pending' = [pending EXCEPT ![u] = <<>>] /\ tied' = timers'
      /\ UNCHANGED <<from, arrived, pc, job, log>>
      /\ \/ Push(pending[u])
         \/ lost' = lost \cup InBatch(pending[u]) /\ UNCHANGED queue
  BY DEF FlushUserMessages, reply
<1>2. pending' \in [UserIds -> Batch] /\ timers' \in SUBSET UserIds /\ tied' \subseteq timers'
  BY <1>0, <1>1 DEF IntakeOK, Batch
<1>3. CASE Push(pending[u])
  <2>1. queue' \in Seq(Batch) /\ Len(queue') <= Capacity
    BY <1>0, <1>1, <1>3, PushLine
  <2>2. PICK A, H, B \in Seq(Messages) :
              /\ Line = A \o (H \o B) /\ Line' = (A \o B) \o pending[u]
              /\ lost' = lost \cup InBatch(H)
    BY <1>0, <1>1, <1>3, PushLine
  <2>3. ASSUME NEW v \in UserIds PROVE TraceOK(v)'
    BY <1>1, <2>2, TraceMoves
  <2>4. InBatch(H) \subseteq InBatch(Line)
    <3>1. H \o B \in Seq(Messages) /\ InBatch(H \o B) = InBatch(H) \cup InBatch(B)
      BY ConcatProperties, InBatchConcat
    <3> DEFINE c == H \o B
    <3>2. c \in Seq(Messages) /\ Line = A \o c /\ InBatch(H) \subseteq InBatch(c)
      BY <2>2, <3>1
    <3> HIDE DEF c
    <3>3. InBatch(A \o c) = InBatch(A) \cup InBatch(c)
      BY <3>2, InBatchConcat
    <3>q. QED
      BY <3>2, <3>3
  <2>5. lost' \subseteq 1 .. arrived'
    BY <1>0, <1>1, <2>2, <2>4, HaveArrived DEF IntakeOK
  <2>6. IntakeOK'
    BY <1>0, <1>1, <1>2, <2>1, <2>5 DEF IntakeOK
  <2>q. QED
    BY <2>3, <2>6 DEF Intake
<1>4. CASE lost' = lost \cup InBatch(pending[u]) /\ UNCHANGED queue
  <2>1. Line' = Line
    BY <1>1, <1>4 DEF Line
  <2>2. ASSUME NEW v \in UserIds PROVE TraceOK(v)'
    BY <1>1, <1>4, <2>1, TraceEnds
  <2>3. lost' \subseteq 1 .. arrived'
    BY <1>0, <1>1, <1>4, HaveArrived DEF IntakeOK
  <2>4. IntakeOK'
    BY <1>0, <1>1, <1>2, <1>4, <2>3 DEF IntakeOK
  <2>q. QED
    BY <2>2, <2>4 DEF Intake
<1>q. QED
  BY <1>1, <1>3, <1>4

----------------------------------------------------------------------------
(* What the invariant says of the traces. *)

\* in an increasing sequence a number has one place at most
LEMMA OnePlace ==
  ASSUME NEW S \in SUBSET Nat, NEW t \in Seq(S), Increasing(t), NEW m
  PROVE  Cardinality({i \in DOMAIN t : t[i] = m}) = IF m \in InBatch(t) THEN 1 ELSE 0
<1> DEFINE P == {i \in DOMAIN t : t[i] = m}
<1>1. CASE m \in InBatch(t)
  <2>1. PICK i \in DOMAIN t : t[i] = m
    BY <1>1 DEF InBatch
  <2>2. ASSUME NEW j \in DOMAIN t, t[j] = m PROVE j = i
    <3>1. i \in 1 .. Len(t) /\ j \in 1 .. Len(t) /\ t[i] \in Nat /\ Len(t) \in Nat
      <4>1. Len(t) \in Nat /\ DOMAIN t = 1 .. Len(t) /\ \A k \in 1 .. Len(t) : t[k] \in S
        OBVIOUS
      <4>q. QED
        BY <4>1
    <3>2. ~(i < j) /\ ~(j < i)
      BY <2>1, <2>2, <3>1 DEF Increasing
    <3>q. QED
      BY <3>1, <3>2
  <2>3. P = {i}
    BY <2>1, <2>2
  <2>q. QED
    BY <1>1, <2>3, FS_Singleton
<1>2. CASE m \notin InBatch(t)
  <2>1. P = {}
    BY <1>2 DEF InBatch
  <2>q. QED
    BY <1>2, <2>1, FS_EmptySet
<1>q. QED
  BY <1>1, <1>2

\* a trace is a sequence of messages of its user
LEMMA TraceType ==
  ASSUME Intake, NEW u \in UserIds
  PROVE  Trace(u) \in Seq(FromUser(u)) /\ FromUser(u) \in SUBSET Nat
<1> DEFINE l == Only(Line, FromUser(u))
<1>1. l \in Seq(FromUser(u)) /\ FromUser(u) \in SUBSET Nat
  BY LineType, OwnMessages DEF Intake, FromUser
<1>2. pending[u] \in Seq(FromUser(u)) /\ Trace(u) = l \o pending[u]
  BY DEF Intake, TraceOK, Trace
<1> HIDE DEF l
<1>q. QED
  BY <1>1, <1>2, ConcatProperties

\* the traces are in order
LEMMA IntakeOrder == Intake => InOrder
<1> SUFFICES ASSUME Intake, NEW u \in UserIds, NEW i \in DOMAIN Trace(u),
                    NEW j \in DOMAIN Trace(u), i < j
             PROVE  Trace(u)[i] < Trace(u)[j]
  BY DEF InOrder
<1> DEFINE t == Trace(u)
<1>1. t \in Seq(FromUser(u)) /\ Increasing(t)
  BY TraceType DEF Intake, TraceOK
<1>2. i \in DOMAIN t /\ j \in DOMAIN t
  OBVIOUS
<1> HIDE DEF t
<1>3. t[i] < t[j]
  BY <1>1, <1>2 DEF Increasing
<1>q. QED
  BY <1>3 DEF t

\* each message that is alive has one place
LEMMA IntakeSeen == Intake => NoneLostUnseen
<1> SUFFICES ASSUME Intake, NEW m \in Messages
             PROVE  Cardinality({i \in DOMAIN Trace(from[m]) : Trace(from[m])[i] = m})
                      = IF m <= arrived /\ m \notin lost THEN 1 ELSE 0
  BY DEF NoneLostUnseen
<1> DEFINE u == from[m]
           t == Trace(u)
<1>1. u \in UserIds /\ m \in FromUser(u)
  BY DEF Intake, IntakeOK, FromUser
<1>2. t \in Seq(FromUser(u)) /\ FromUser(u) \in SUBSET Nat /\ Increasing(t) /\ InBatch(t) = Alive(u)
  BY <1>1, TraceType DEF Intake, TraceOK
<1>3. m \in Alive(u) <=> m <= arrived /\ m \notin lost
  BY <1>1 DEF Alive
<1> HIDE DEF t, u
<1>4. Cardinality({i \in DOMAIN t : t[i] = m}) = IF m \in InBatch(t) THEN 1 ELSE 0
  BY <1>2, OnePlace
<1>q. QED
  BY <1>2, <1>3, <1>4 DEF t, u

----------------------------------------------------------------------------
(* The stream of the reply, and the control of workers and sessions. *)

Streams == [buffer : Seq(Pieces), final : BOOLEAN, timer : BOOLEAN]

\* no text of the loop's prompt waits to be sent
NoneOurs == \A i \in DOMAIN stream.buffer : ~stream.buffer[i].ours

Stages == Subscribed \cup {"idle", "session", "creating", "enriching"}

\* the types the argument needs
Typed ==
  /\ pc \in [Workers -> Stages]
  /\ run \in [Sessions -> Workers \cup {"none", "own"}]
  /\ mine \in [Workers -> Nat] /\ global \in Nat /\ made \in Nat
  /\ stream \in Streams
  /\ due \in [Sessions -> BOOLEAN] /\ ending \in [Sessions -> BOOLEAN]
  /\ held \in [Sessions -> BOOLEAN] /\ broke \in BOOLEAN

\* the run of a worker is that of the prompt it is in
RunsBelong ==
  \A w \in Workers, s \in Sessions : run[s] = w => pc[w] = "prompting" /\ mine[w] = s

Control == Typed /\ RunsBelong /\ SessionsOK

----------------------------------------------------------------------------
(* Streams. *)

\* A non-empty set of numbers up to n has a largest one, which Max chooses.
LEMMA MaxUpTo ==
  ASSUME NEW n \in Nat, NEW S \in SUBSET (0 .. n), S # {}
  PROVE  Max(S) \in S
<1> DEFINE T == {n - x : x \in S}
<1>1. T \subseteq Nat /\ T # {}
  <2>1. \A x \in S : n - x \in Nat
    OBVIOUS
  <2> QED BY <2>1
<1>2. PICK t \in T : \A u \in T : ~(<<u, t>> \in OpToRel(<, Nat))
  <2> HIDE DEF T
  <2> QED BY <1>1, WFMin, NatLessThanWellFounded
<1>3. \A u \in T : ~(u < t)
  BY <1>1, <1>2 DEF OpToRel
<1>4. PICK m \in S : t = n - m
  OBVIOUS
<1>5. ASSUME NEW y \in S PROVE m >= y
  <2>1. n - y \in T
    OBVIOUS
  <2>2. ~(n - y < n - m)
    BY <1>3, <1>4, <2>1
  <2> QED BY <2>2
<1> QED BY <1>4, <1>5 DEF Max

\* The boundary is a position of the text, or before it.
LEMMA BoundaryInText ==
  ASSUME NEW text \in Seq(Pieces)
  PROVE  LastSentenceBoundary(text) \in 0 .. Len(text)
<1> DEFINE S == {0} \cup {i \in DOMAIN text : text[i].stop}
<1>1. S \in SUBSET (0 .. Len(text)) /\ S # {}
  OBVIOUS
<1>2. Max(S) \in S
  <2> HIDE DEF S
  <2> QED BY <1>1, MaxUpTo, LenProperties
<1> QED BY <1>1, <1>2 DEF LastSentenceBoundary

\* A flush keeps some of the text from the end, and adds none.
LEMMA DoFlushKeeps ==
  ASSUME NEW s \in Streams
  PROVE  /\ DoFlush(s) \in Streams
         /\ \A i \in DOMAIN DoFlush(s).buffer :
              \E j \in DOMAIN s.buffer : DoFlush(s).buffer[i] = s.buffer[j]
<1>1. CASE s.buffer = <<>>
  BY <1>1 DEF DoFlush, Streams
<1>2. CASE s.buffer # <<>>
  <2> DEFINE k == IF s.final THEN Len(s.buffer) ELSE LastSentenceBoundary(s.buffer)
             rest == SubSeq(s.buffer, k + 1, Len(s.buffer))
  <2>1. k \in 0 .. Len(s.buffer) /\ s.buffer \in Seq(Pieces) /\ Len(s.buffer) \in Nat
    BY BoundaryInText DEF Streams
  <2>2. \A i \in (k + 1) .. Len(s.buffer) : s.buffer[i] \in Pieces
    <3> HIDE DEF k
    <3> QED BY <2>1
  <2>3. /\ rest \in Seq(Pieces)
        /\ Len(rest) = IF k + 1 <= Len(s.buffer) THEN Len(s.buffer) - k ELSE 0
        /\ \A i \in 1 .. Len(s.buffer) - k : rest[i] = s.buffer[k + i]
    <3> HIDE DEF k
    <3>1. k + 1 \in Int /\ Len(s.buffer) \in Int
      BY <2>1
    <3> QED BY <2>1, <2>2, <3>1, SubSeqProperties
  <2>4. DoFlush(s) = [buffer |-> rest, final |-> FALSE, timer |-> s.timer]
    BY <1>2 DEF DoFlush
  <2>5. DoFlush(s) \in Streams /\ DoFlush(s).buffer = rest
    <3> HIDE DEF rest
    <3> QED BY <2>3, <2>4 DEF Streams
  <2>6. \A i \in DOMAIN rest : k + i \in DOMAIN s.buffer /\ rest[i] = s.buffer[k + i]
    <3> HIDE DEF k, rest
    <3>1. DOMAIN rest = 1 .. Len(rest) /\ DOMAIN s.buffer = 1 .. Len(s.buffer)
      BY <2>1, <2>3
    <3> QED BY <2>1, <2>3, <3>1
  <2>7. ASSUME NEW i \in DOMAIN rest
        PROVE  \E j \in DOMAIN s.buffer : rest[i] = s.buffer[j]
    <3> HIDE DEF k, rest
    <3> QED BY <2>6
  <2> HIDE DEF rest
  <2> QED BY <2>5, <2>7
<1> QED BY <1>1, <1>2

\* A final flush leaves nothing.
LEMMA FinalFlushEmpties ==
  ASSUME NEW s \in Streams
  PROVE  Flush(s, TRUE) \in Streams /\ Flush(s, TRUE).buffer = <<>>
<1> DEFINE t == [buffer |-> s.buffer, final |-> TRUE, timer |-> FALSE]
<1>1. t \in Streams /\ t.final = TRUE /\ t.buffer = s.buffer
  BY DEF Streams
<1>2. Flush(s, TRUE) = DoFlush(t)
  BY DEF Flush
<1>3. Len(t.buffer) \in Nat
  BY <1>1 DEF Streams
<1>4. DoFlush(t).buffer = <<>>
  <2> HIDE DEF t
  <2>1. CASE t.buffer = <<>>
    BY <2>1 DEF DoFlush
  <2>2. CASE t.buffer # <<>>
    <3>1. SubSeq(t.buffer, Len(t.buffer) + 1, Len(t.buffer)) = <<>>
      BY <1>3, SubSeqEmpty
    <3>2. DoFlush(t) = [buffer |-> <<>>, final |-> FALSE, timer |-> t.timer]
      BY <1>1, <2>2, <3>1 DEF DoFlush
    <3> QED BY <1>1, <3>2 DEF Streams
  <2> QED BY <2>1, <2>2
<1>5. DoFlush(t) \in Streams
  <2> HIDE DEF t
  <2> QED BY <1>1, DoFlushKeeps
<1> QED BY <1>2, <1>4, <1>5

\* Every method of the stream gives a stream.  OnEnd empties the buffer, and a
\* tool call empties it too.
LEMMA StreamTypes ==
  /\ NewStream \in Streams
  /\ \A s \in Streams :
       /\ OnEnd(s) \in Streams /\ OnEnd(s).buffer = <<>>
       /\ OnToolCall(s) \in Streams /\ OnToolCall(s).buffer = <<>>
       /\ \A p \in Pieces : OnDelta(s, p) \in Streams
<1>1. NewStream \in Streams
  BY DEF NewStream, Streams
<1>2. ASSUME NEW s \in Streams
      PROVE  OnEnd(s) \in Streams /\ OnEnd(s).buffer = <<>>
  BY FinalFlushEmpties DEF OnEnd
<1>3. ASSUME NEW s \in Streams
      PROVE  OnToolCall(s) \in Streams /\ OnToolCall(s).buffer = <<>>
  BY FinalFlushEmpties DEF OnToolCall
<1>4. ASSUME NEW s \in Streams, NEW p \in Pieces
      PROVE  OnDelta(s, p) \in Streams
  <2>1. s.buffer \in Seq(Pieces) /\ s.final \in BOOLEAN
    BY DEF Streams
  <2>2. Append(s.buffer, p) \in Seq(Pieces)
    BY <2>1
  <2> QED BY <2>1, <2>2 DEF OnDelta, Streams
<1> QED BY <1>1, <1>2, <1>3, <1>4

----------------------------------------------------------------------------
(* Workers and sessions. *)

\* At first nobody is at work and no session has a run.
LEMMA InitControl == Init => Control
<1> SUFFICES ASSUME Init PROVE Control
  OBVIOUS
<1>1. /\ pc = [w \in Workers |-> "idle"] /\ mine = [w \in Workers |-> 0]
      /\ run = [s \in Sessions |-> "none"] /\ global = 0 /\ made = 0
      /\ due = [s \in Sessions |-> FALSE] /\ ending = due /\ held = due /\ broke = FALSE
      /\ stream \in Streams
  BY StreamTypes DEF Init
<1>2. "none" \notin Workers /\ "loop" \in Workers /\ "post" \in Workers
  BY DEF Workers
<1>3. Typed
  BY <1>1 DEF Typed, Stages
<1>4. RunsBelong
  BY <1>1, <1>2 DEF RunsBelong
<1>5. SessionsOK
  BY <1>1, <1>2 DEF SessionsOK, Subscribed, InFlightAt
<1> QED BY <1>3, <1>4, <1>5 DEF Control

\* what the last prompt to unwind does to the stream and to the agent_end
LEMMA UnwindTypes ==
  ASSUME Typed, NEW w \in Workers
  PROVE  /\ FlushPendingAgentEnd(w) \in Streams
         /\ EndInFlight(w) => held' \in [Sessions -> BOOLEAN]
BY StreamTypes DEF Typed, FlushPendingAgentEnd, EndInFlight, Heard

\* a worker that finishes is idle and has no session
LEMMA FinishTypes ==
  ASSUME Typed, NEW w \in Workers, NEW t \in Streams, Finish(w, t)
  PROVE  /\ pc' = [pc EXCEPT ![w] = "idle"] /\ mine' = [mine EXCEPT ![w] = 0]
         /\ pc' \in [Workers -> Stages] /\ mine' \in [Workers -> Nat]
         /\ stream' \in Streams /\ broke' \in BOOLEAN
BY StreamTypes DEF Typed, Finish, Stages

\* a worker goes on outside of a run
LEMMA MovesControl ==
  ASSUME Control, Typed', NEW w \in Workers, NEW to \in Stages \ {"prompting", "creating"},
         NEW g \in Nat, to \in Subscribed \cup {"enriching"} => g \in Sessions,
         pc[w] # "prompting", pc' = [pc EXCEPT ![w] = to], mine' = [mine EXCEPT ![w] = g],
         UNCHANGED <<run, global, made>>
  PROVE  Control'
<1>0. Typed /\ RunsBelong /\ SessionsOK
  BY DEF Control
<1>1. \A v \in Workers : /\ pc'[v] = IF v = w THEN to ELSE pc[v]
                         /\ mine'[v] = IF v = w THEN g ELSE mine[v]
  BY <1>0 DEF Typed
<1>2. RunsBelong'
  BY <1>0, <1>1 DEF RunsBelong
<1>3. "loop" \in Workers /\ "post" \in Workers
  BY DEF Workers
<1>4. SessionsOK'
  BY <1>0, <1>1, <1>3 DEF SessionsOK
<1> QED BY <1>2, <1>4 DEF Control

\* a run of a worker starts
LEMMA StartsControl ==
  ASSUME Control, NEW w \in Workers, pc[w] \in {"starting", "settling"},
         pc' = [pc EXCEPT ![w] = "prompting"], Runs(mine[w], w),
         UNCHANGED <<mine, global, made, stream, broke, ending, held>>
  PROVE  Control'
<1>0. Typed /\ RunsBelong /\ SessionsOK
  BY DEF Control
<1>1. mine[w] \in Sessions
  BY <1>0 DEF SessionsOK, Subscribed, InFlightAt
<1>2. run[mine[w]] = "none" /\ run' = [run EXCEPT ![mine[w]] = w]
      /\ due' = [due EXCEPT ![mine[w]] = TRUE]
  BY DEF Runs
<1>3. \A v \in Workers : pc'[v] = IF v = w THEN "prompting" ELSE pc[v]
  BY <1>0 DEF Typed
<1>4. \A s \in Sessions : run'[s] = IF s = mine[w] THEN w ELSE run[s]
  BY <1>0, <1>2 DEF Typed
<1>5. Typed'
  BY <1>0, <1>1, <1>2 DEF Typed, Stages, Subscribed, InFlightAt
<1>6. RunsBelong'
  BY <1>0, <1>3, <1>4 DEF RunsBelong
<1>7. "loop" \in Workers /\ "post" \in Workers /\ "none" \notin Workers
  BY DEF Workers
<1>8. ASSUME NEW v \in Workers, pc'[v] = "prompting" PROVE run'[mine[v]] = v
  <2>1. CASE v = w
    BY <1>1, <1>4, <2>1
  <2>2. CASE v # w
    <3>1. run[mine[v]] = v /\ mine[v] \in Sessions
      BY <1>0, <1>3, <1>8, <2>2 DEF SessionsOK, Subscribed, InFlightAt
    <3>2. mine[v] # mine[w]
      BY <1>2, <1>7, <3>1
    <3> QED BY <1>4, <3>1, <3>2
  <2> QED BY <2>1, <2>2
<1>9. SessionsOK'
  BY <1>0, <1>1, <1>3, <1>7, <1>8 DEF SessionsOK, Subscribed, InFlightAt
<1> QED BY <1>5, <1>6, <1>9 DEF Control

\* a worker finds its session, or creates it
LEMMA SessionControl ==
  ASSUME Control, NEW w \in Workers, EnsureGlobalSession(w) \/ Created(w)
  PROVE  Control'
<1>0. /\ Typed /\ RunsBelong /\ SessionsOK
      /\ "loop" \in Workers /\ "post" \in Workers /\ Workers = {"loop", "post"}
  BY DEF Control, Workers
<1>1. CASE EnsureGlobalSession(w)
  <2>1. /\ pc' = [pc EXCEPT ![w] = IF global = 0 THEN "creating" ELSE "enriching"]
        /\ mine' = [mine EXCEPT ![w] = global] /\ pc[w] = "session"
        /\ UNCHANGED <<run, global, made, stream, broke, due, ending, held>>
    BY <1>1 DEF EnsureGlobalSession, Goes, agents, events, reply
  <2>2. \A v \in Workers : /\ pc'[v] = IF v # w THEN pc[v] ELSE IF global = 0 THEN "creating" ELSE "enriching"
                           /\ mine'[v] = IF v = w THEN global ELSE mine[v]
    BY <1>0, <2>1 DEF Typed
  <2>3. Typed'
    BY <1>0, <2>1 DEF Typed, Stages
  <2>4. RunsBelong'
    BY <1>0, <2>1, <2>2 DEF RunsBelong
  <2>5. SessionsOK'
    BY <1>0, <2>1, <2>2 DEF SessionsOK, Subscribed, InFlightAt, Sessions
  <2> QED BY <2>3, <2>4, <2>5 DEF Control
<1>2. CASE Created(w)
  <2>1. /\ pc' = [pc EXCEPT ![w] = "enriching"] /\ mine' = [mine EXCEPT ![w] = made + 1]
        /\ made' = made + 1 /\ global' = made + 1 /\ pc[w] = "creating"
        /\ UNCHANGED <<run, stream, broke, due, ending, held>>
    BY <1>2 DEF Created, Goes, events, reply
  <2>2. \A v \in Workers : /\ pc'[v] = IF v = w THEN "enriching" ELSE pc[v]
                           /\ mine'[v] = IF v = w THEN made + 1 ELSE mine[v]
    BY <1>0, <2>1 DEF Typed
  <2>3. made \in {0, 1}
    BY <1>0, <2>1 DEF SessionsOK, Sessions
  <2>4. Typed'
    BY <1>0, <2>1 DEF Typed, Stages
  <2>5. RunsBelong'
    BY <1>0, <2>1, <2>2 DEF RunsBelong
  <2>6. SessionsOK'
    BY <1>0, <2>1, <2>2, <2>3 DEF SessionsOK, Subscribed, InFlightAt, Sessions
  <2> QED BY <2>4, <2>5, <2>6 DEF Control
<1> QED BY <1>1, <1>2

\* what the steps of a worker other than those above do: it goes on, with its
\* session or, when it is idle, without
Moves(w) ==
  /\ pc[w] # "prompting" /\ UNCHANGED <<run, global, made>>
  /\ \/ \E to \in {"waiting", "checked", "starting", "ended"} :
          /\ pc[w] \in Subscribed \cup {"enriching"}
          /\ pc' = [pc EXCEPT ![w] = to] /\ UNCHANGED mine
     \/ pc' = [pc EXCEPT ![w] = "idle"] /\ mine' = [mine EXCEPT ![w] = 0]

\* they keep the types
LEMMA WorkMoves ==
  ASSUME Typed, NEW w \in Workers,
         \/ CreationFails(w) \/ Clears(w) \/ DispatchPrompt(w) \/ RetryPrompt(w)
         \/ BeginInFlight(w) \/ PromptThrows(w) \/ Settles(w) \/ Returns(w)
  PROVE  Typed' /\ Moves(w)
<1> USE DEF Goes, agents, events, reply
<1>0. stream \in Streams
  BY DEF Typed
<1>1. CASE CreationFails(w) \/ Clears(w) \/ Returns(w)
  <2>1. /\ Finish(w, stream) /\ pc[w] # "prompting"
        /\ UNCHANGED <<run, global, made, due, ending, held>>
    BY <1>1 DEF CreationFails, Clears, Returns
  <2>2. /\ pc' = [pc EXCEPT ![w] = "idle"] /\ mine' = [mine EXCEPT ![w] = 0]
        /\ pc' \in [Workers -> Stages] /\ mine' \in [Workers -> Nat]
        /\ stream' \in Streams /\ broke' \in BOOLEAN
    BY <1>0, <2>1, FinishTypes
  <2> QED BY <2>1, <2>2 DEF Typed, Moves
<1>2. CASE DispatchPrompt(w) \/ BeginInFlight(w)
  <2>1. /\ \E to \in {"waiting", "checked", "starting"} : pc' = [pc EXCEPT ![w] = to]
        /\ pc[w] \in {"enriching", "checked"}
        /\ UNCHANGED <<run, global, made, mine, stream, broke, due, ending, held>>
    BY <1>2 DEF DispatchPrompt, BeginInFlight
  <2> QED BY <2>1 DEF Typed, Moves, Stages, Subscribed, InFlightAt
<1>3. CASE RetryPrompt(w)
  <2>1. pc[w] = "waiting" /\ UNCHANGED <<run, global, made, due, ending, held>>
    BY <1>3 DEF RetryPrompt
  <2>2. CASE Finish(w, stream)
    <3>1. /\ pc' = [pc EXCEPT ![w] = "idle"] /\ mine' = [mine EXCEPT ![w] = 0]
          /\ pc' \in [Workers -> Stages] /\ mine' \in [Workers -> Nat]
          /\ stream' \in Streams /\ broke' \in BOOLEAN
      BY <1>0, <2>2, FinishTypes
    <3> QED BY <2>1, <3>1 DEF Typed, Moves
  <2>3. CASE pc' = [pc EXCEPT ![w] = "checked"] /\ UNCHANGED <<mine, stream, broke>>
    BY <2>1, <2>3 DEF Typed, Moves, Stages, Subscribed
  <2> QED BY <1>3, <2>2, <2>3 DEF RetryPrompt
<1>4. CASE PromptThrows(w)
  <2> DEFINE t == FlushPendingAgentEnd(w)
  <2>1. /\ Finish(w, t) /\ pc[w] # "prompting" /\ EndInFlight(w)
        /\ UNCHANGED <<run, global, made, due, ending>>
    BY <1>4 DEF PromptThrows
  <2>2. t \in Streams /\ held' \in [Sessions -> BOOLEAN]
    BY <2>1, UnwindTypes
  <2> HIDE DEF t
  <2>3. /\ pc' = [pc EXCEPT ![w] = "idle"] /\ mine' = [mine EXCEPT ![w] = 0]
        /\ pc' \in [Workers -> Stages] /\ mine' \in [Workers -> Nat]
        /\ stream' \in Streams /\ broke' \in BOOLEAN
    BY <2>1, <2>2, FinishTypes
  <2> QED BY <2>1, <2>2, <2>3 DEF Typed, Moves
<1>5. CASE Settles(w)
  <2>1. /\ pc' = [pc EXCEPT ![w] = "ended"] /\ pc[w] = "settling" /\ EndInFlight(w)
        /\ stream' = FlushPendingAgentEnd(w)
        /\ UNCHANGED <<run, global, made, mine, broke, due, ending>>
    BY <1>5 DEF Settles
  <2>2. stream' \in Streams /\ held' \in [Sessions -> BOOLEAN]
    BY <2>1, UnwindTypes
  <2> QED BY <2>1, <2>2 DEF Typed, Moves, Stages, Subscribed, InFlightAt
<1> QED BY <1>1, <1>2, <1>3, <1>4, <1>5

\* every step of a worker
LEMMA WorkControl ==
  ASSUME Control, NEW w \in Workers, Work(w)
  PROVE  Control'
<1>0. Typed /\ RunsBelong /\ SessionsOK
  BY DEF Control
<1>1. CASE StartRun(w) \/ Continues(w)
  <2>1. /\ pc[w] \in {"starting", "settling"} /\ pc' = [pc EXCEPT ![w] = "prompting"]
        /\ Runs(mine[w], w) /\ UNCHANGED <<mine, global, made, stream, broke, ending, held>>
    BY <1>1 DEF StartRun, Continues, Goes, reply
  <2> QED BY <2>1, StartsControl
<1>2. CASE \/ CreationFails(w) \/ Clears(w) \/ DispatchPrompt(w) \/ RetryPrompt(w)
           \/ BeginInFlight(w) \/ PromptThrows(w) \/ Settles(w) \/ Returns(w)
  <2>1. Typed' /\ Moves(w)
    BY <1>0, <1>2, WorkMoves
  <2>2. CASE pc' = [pc EXCEPT ![w] = "idle"] /\ mine' = [mine EXCEPT ![w] = 0]
    <3>1. "idle" \in Stages \ {"prompting", "creating"} /\ "idle" \notin Subscribed \cup {"enriching"}
      BY DEF Stages, Subscribed, InFlightAt
    <3> QED BY <2>1, <2>2, <3>1, MovesControl DEF Moves
  <2>3. CASE \E to \in {"waiting", "checked", "starting", "ended"} :
               /\ pc[w] \in Subscribed \cup {"enriching"}
               /\ pc' = [pc EXCEPT ![w] = to] /\ UNCHANGED mine
    <3>1. PICK to \in {"waiting", "checked", "starting", "ended"} :
             /\ pc[w] \in Subscribed \cup {"enriching"}
             /\ pc' = [pc EXCEPT ![w] = to] /\ UNCHANGED mine
      BY <2>3
    <3>2. to \in Stages \ {"prompting", "creating"}
      BY DEF Stages, Subscribed, InFlightAt
    <3>3. mine[w] \in Sessions /\ mine[w] \in Nat /\ mine' = [mine EXCEPT ![w] = mine[w]]
      BY <1>0, <3>1 DEF SessionsOK, Typed
    <3> QED BY <2>1, <3>1, <3>2, <3>3, MovesControl DEF Moves
  <2> QED BY <2>1, <2>2, <2>3 DEF Moves
<1> QED BY <1>1, <1>2, SessionControl DEF Work

\* what a run does to the stream
LEMMA TurnStreams ==
  ASSUME Control, NEW s \in Sessions, Turn(s)
  PROVE  stream' \in Streams
<1>0. Typed /\ stream \in Streams
  BY DEF Control, Typed
<1>1. CASE TextDelta(s)
  <2>1. PICK stop \in BOOLEAN :
             stream' = Heard(s, OnDelta(stream, [stop |-> stop, ours |-> run[s] = "loop"]))
    BY <1>1 DEF TextDelta
  <2> DEFINE p == [stop |-> stop, ours |-> run[s] = "loop"]
  <2>2. p \in Pieces
    BY DEF Pieces
  <2> HIDE DEF p
  <2>3. stream' = Heard(s, OnDelta(stream, p))
    BY <2>1 DEF p
  <2> QED BY <1>0, <2>2, <2>3, StreamTypes DEF Heard
<1>2. CASE OwnTurn(s) \/ RunEnds(s)
  BY <1>0, <1>2 DEF OwnTurn, RunEnds, reply
<1>3. CASE ToolCall(s) \/ HearsEnd(s) \/ HearsAgentEnd(s)
  BY <1>0, <1>3, StreamTypes DEF ToolCall, HearsEnd, HearsAgentEnd, Heard
<1> QED BY <1>1, <1>2, <1>3 DEF Turn

\* every step of a run
LEMMA TurnControl ==
  ASSUME Control, NEW s \in Sessions, Turn(s)
  PROVE  Control'
<1>0. /\ Typed /\ RunsBelong /\ SessionsOK /\ stream' \in Streams
      /\ "loop" \in Workers /\ "post" \in Workers /\ "own" \notin Workers /\ "none" \notin Workers
  BY TurnStreams DEF Control, Workers
<1>1. CASE OwnTurn(s)
  <2>1. /\ run[s] = "none" /\ run' = [run EXCEPT ![s] = "own"]
        /\ due' = [due EXCEPT ![s] = TRUE]
        /\ UNCHANGED <<pc, mine, global, made, broke, ending, held>>
    BY <1>1 DEF OwnTurn, Runs, reply
  <2>2. \A r \in Sessions : run'[r] = IF r = s THEN "own" ELSE run[r]
    BY <1>0, <2>1 DEF Typed
  <2>3. Typed'
    BY <1>0, <2>1 DEF Typed
  <2>4. RunsBelong'
    BY <1>0, <2>1, <2>2 DEF RunsBelong
  <2>5. \A v \in Workers : pc[v] = "prompting" =>
          mine[v] \in Sessions /\ run[mine[v]] = v /\ mine[v] # s
    BY <1>0, <2>1 DEF SessionsOK, Subscribed, InFlightAt
  <2>6. SessionsOK'
    BY <1>0, <2>1, <2>2, <2>5 DEF SessionsOK
  <2> QED BY <2>3, <2>4, <2>6 DEF Control
<1>2. CASE TextDelta(s) \/ ToolCall(s) \/ HearsEnd(s) \/ HearsAgentEnd(s)
  <2>1. /\ UNCHANGED <<pc, mine, run, global, made, broke>>
        /\ \/ due' = due \/ \E b \in BOOLEAN : due' = [due EXCEPT ![s] = b]
        /\ \/ ending' = ending \/ ending' = [ending EXCEPT ![s] = FALSE]
        /\ \/ held' = held \/ held' = [held EXCEPT ![s] = TRUE]
    BY <1>2 DEF TextDelta, ToolCall, HearsEnd, HearsAgentEnd, agents, events
  <2>2. Typed'
    <3>1. due' \in [Sessions -> BOOLEAN]
      BY <1>0, <2>1 DEF Typed
    <3>2. ending' \in [Sessions -> BOOLEAN] /\ held' \in [Sessions -> BOOLEAN]
      BY <1>0, <2>1 DEF Typed
    <3> QED BY <1>0, <2>1, <3>1, <3>2 DEF Typed
  <2> QED BY <1>0, <2>1, <2>2 DEF Control, RunsBelong, SessionsOK
<1>3. CASE RunEnds(s)
  <2>1. /\ run' = [run EXCEPT ![s] = "none"] /\ ending' = [ending EXCEPT ![s] = TRUE]
        /\ pc' = [w \in Workers |-> IF run[s] = w THEN "settling" ELSE pc[w]]
        /\ UNCHANGED <<mine, global, made, held>>
    BY <1>3 DEF RunEnds
  <2>2. broke' \in BOOLEAN /\ due' \in [Sessions -> BOOLEAN]
    BY <1>0, <1>3 DEF RunEnds, Typed
  <2>3. \A r \in Sessions : run'[r] = IF r = s THEN "none" ELSE run[r]
    BY <1>0, <2>1 DEF Typed
  <2>4. \A v \in Workers : pc'[v] = IF run[s] = v THEN "settling" ELSE pc[v]
    BY <2>1
  <2>5. \A v \in Workers : run[s] = v => pc[v] = "prompting"
    BY <1>0 DEF RunsBelong
  <2>6. Typed'
    BY <1>0, <2>1, <2>2 DEF Typed, Stages, Subscribed, InFlightAt
  <2>7. RunsBelong'
    BY <1>0, <2>1, <2>3, <2>4 DEF RunsBelong
  <2>8. ASSUME NEW v \in Workers, pc'[v] = "prompting" PROVE run'[mine[v]] = v
    <3>1. pc[v] = "prompting" /\ run[s] # v
      BY <2>4, <2>8
    <3>2. run[mine[v]] = v /\ mine[v] \in Sessions
      BY <1>0, <3>1 DEF SessionsOK, Subscribed, InFlightAt
    <3> QED BY <2>3, <3>1, <3>2
  <2>9. SessionsOK'
    BY <1>0, <2>1, <2>4, <2>5, <2>8 DEF SessionsOK, Subscribed, InFlightAt
  <2> QED BY <2>6, <2>7, <2>9 DEF Control
<1> QED BY <1>1, <1>2, <1>3 DEF Turn

\* the debounce timer of the stream sends, and adds nothing
LEMMA TimerKeeps ==
  ASSUME Typed, StreamTimer
  PROVE  /\ stream' \in Streams
         /\ \A i \in DOMAIN stream'.buffer :
              \E j \in DOMAIN stream.buffer : stream'.buffer[i] = stream.buffer[j]
<1> DEFINE t == [buffer |-> stream.buffer, final |-> stream.final, timer |-> FALSE]
<1>1. stream' = DoFlush(t)
  BY DEF StreamTimer, TimerFires
<1>2. t \in Streams /\ t.buffer = stream.buffer
  BY DEF Typed, Streams
<1> HIDE DEF t
<1> QED BY <1>1, <1>2, DoFlushKeeps

\* a worker is given something to do
LEMMA TakesControl ==
  ASSUME Control, LoopTakes \/ Posted
  PROVE  Control'
<1>1. PICK w \in Workers : /\ pc[w] = "idle" /\ pc' = [pc EXCEPT ![w] = "session"]
                           /\ UNCHANGED <<mine, run, global, made, stream, broke, due, ending, held>>
  BY DEF LoopTakes, Posted, Goes, agents, events, reply, Workers
<1>2. Typed /\ mine[w] \in Nat /\ mine' = [mine EXCEPT ![w] = mine[w]]
  BY <1>1 DEF Control, Typed
<1>3. Typed'
  BY <1>1, <1>2 DEF Typed, Stages
<1>4. /\ "session" \in Stages \ {"prompting", "creating"}
      /\ "session" \notin Subscribed \cup {"enriching"}
  BY DEF Stages, Subscribed, InFlightAt
<1> QED BY <1>1, <1>2, <1>3, <1>4, MovesControl

\* every step
LEMMA NextControl == Control /\ [Next]_vars => Control'
<1> SUFFICES ASSUME Control, [Next]_vars PROVE Control'
  OBVIOUS
<1>1. CASE UNCHANGED vars \/ StreamTimer \/ Arrives \/ \E u \in UserIds : FlushUserMessages(u)
  <2>1. UNCHANGED <<pc, mine, run, global, made, broke, due, ending, held>>
    BY <1>1 DEF vars, agents, events, reply, StreamTimer, Arrives, FlushUserMessages
  <2>2. stream' = stream \/ StreamTimer
    BY <1>1 DEF vars, reply, Arrives, FlushUserMessages
  <2>3. stream' \in Streams
    BY <2>2, TimerKeeps DEF Control, Typed
  <2> QED BY <2>1, <2>3 DEF Control, Typed, RunsBelong, SessionsOK
<1> QED BY <1>1, TakesControl, WorkControl, TurnControl DEF Next

\* ... in all states
LEMMA ControlHolds == Spec => []Control
BY InitControl, NextControl, PTL DEF Spec

----------------------------------------------------------------------------
(* The answer of a prompt. *)

\* the other worker's prompt is in flight on the session of the loop
PostBeside == pc["post"] \in InFlightAt /\ mine["post"] = mine["loop"]

(* Text of the loop's prompt is in the stream only where something to hear    *)
(* will send it: the end of a message of its run, or, of a run that broke     *)
(* off, the agent_end, which goes from its handlers to where it is held.      *)
Answered ==
  /\ pc["loop"] \notin {"prompting", "settling", "ended"} => NoneOurs
  /\ pc["loop"] = "prompting" => NoneOurs \/ due[mine["loop"]]
  /\ pc["loop"] = "settling" =>
       NoneOurs \/ (broke /\ (ending[mine["loop"]] \/ held[mine["loop"]]))
  /\ pc["loop"] = "ended" => NoneOurs \/ (broke /\ held[mine["loop"]] /\ PostBeside)

\* that is what the property asks for
LEMMA AnsweredMeans == Answered => AnswerIsOut
BY DEF Answered, AnswerIsOut, NoneOurs, PostBeside, InFlight, Workers

\* who is the last prompt in flight
LEMMA LastMeans ==
  ASSUME NEW w \in Workers, NEW v \in Workers, v # w, pc[w] \in InFlightAt
  PROVE  IsLast(w) <=> ~(pc[v] \in InFlightAt /\ mine[v] = mine[w])
<1>1. Workers = {v, w}
  BY DEF Workers
<1>2. w \in InFlight(mine[w]) /\ InFlight(mine[w]) \subseteq {v, w}
  BY <1>1 DEF InFlight
<1>3. v \in InFlight(mine[w]) <=> pc[v] \in InFlightAt /\ mine[v] = mine[w]
  BY DEF InFlight
<1>4. InFlight(mine[w]) = {w} <=> v \notin InFlight(mine[w])
  BY <1>2
<1> QED BY <1>3, <1>4 DEF IsLast

\* an event that is heard sends everything, or is not for the loop
LEMMA HeardAll ==
  ASSUME Typed, NEW s, NEW t \in {OnEnd(stream), OnToolCall(stream)}, stream' = Heard(s, t)
  PROVE  /\ NoneOurs => NoneOurs'
         /\ pc["loop"] \in Subscribed /\ mine["loop"] = s => NoneOurs'
<1>1. t.buffer = <<>>
  BY StreamTypes DEF Typed
<1>2. stream' = t \/ stream' = stream
  BY DEF Heard
<1>3. stream' = t => NoneOurs'
  BY <1>1 DEF NoneOurs
<1>4. stream' = stream /\ NoneOurs => NoneOurs'
  BY DEF NoneOurs
<1> QED BY <1>2, <1>3, <1>4 DEF Heard

\* with nothing unheard the loop starts afresh
LEMMA AfreshAnswered ==
  ASSUME Typed, NEW t, Finish("loop", t)
  PROVE  Answered'
<1>1. pc' = [pc EXCEPT !["loop"] = "idle"] /\ stream'.buffer = <<>>
  BY DEF Finish, NewStream
<1>2. pc'["loop"] = "idle"
  BY <1>1 DEF Typed, Workers
<1> QED BY <1>1, <1>2 DEF Answered, NoneOurs

\* steps of the other worker that leave the stream and the flags alone
LEMMA PostMoves ==
  ASSUME Control, Answered, pc'["loop"] = pc["loop"], mine'["loop"] = mine["loop"],
         UNCHANGED <<stream, ending, held, broke>>,
         \A s \in Sessions : due[s] => due'[s],
         PostBeside => PostBeside'
  PROVE  Answered'
<1>1. NoneOurs' <=> NoneOurs
  BY DEF NoneOurs
<1>2. pc["loop"] = "prompting" => mine["loop"] \in Sessions
  BY DEF Control, SessionsOK, Subscribed, InFlightAt, Workers
<1> QED BY <1>1, <1>2 DEF Answered

\* steps of the loop
LEMMA LoopAnswered ==
  ASSUME HooksArePrompt, Control, Answered, Work("loop")
  PROVE  Answered'
<1>0. Typed /\ SessionsOK /\ "loop" \in Workers /\ "post" \in Workers
  BY DEF Control, Workers
<1>1. CASE CreationFails("loop") \/ Clears("loop") \/ PromptThrows("loop") \/ Returns("loop")
  <2>1. \E t : Finish("loop", t)
    BY <1>1 DEF CreationFails, Clears, PromptThrows, Returns
  <2> QED BY <1>0, <2>1, AfreshAnswered
<1>2. CASE EnsureGlobalSession("loop") \/ Created("loop") \/ DispatchPrompt("loop")
           \/ BeginInFlight("loop")
  <2>1. /\ pc["loop"] \notin {"prompting", "settling", "ended"}
        /\ \E to \in {"creating", "enriching", "checked", "waiting", "starting"} :
             pc' = [pc EXCEPT !["loop"] = to]
        /\ stream' = stream
    BY <1>2 DEF EnsureGlobalSession, Created, DispatchPrompt, BeginInFlight, Goes, reply
  <2>2. pc'["loop"] \notin {"prompting", "settling", "ended"}
    BY <1>0, <2>1 DEF Typed
  <2> QED BY <2>1, <2>2 DEF Answered, NoneOurs
<1>3. CASE RetryPrompt("loop")
  <2>1. CASE Finish("loop", stream)
    BY <1>0, <2>1, AfreshAnswered
  <2>2. CASE pc' = [pc EXCEPT !["loop"] = "checked"] /\ UNCHANGED reply
    <3>1. pc'["loop"] = "checked" /\ pc["loop"] = "waiting"
      BY <1>0, <1>3, <2>2 DEF Typed, RetryPrompt
    <3> QED BY <2>2, <3>1 DEF Answered, NoneOurs, reply
  <2> QED BY <1>3, <2>1, <2>2 DEF RetryPrompt
<1>4. CASE StartRun("loop") \/ Continues("loop")
  <2>1. /\ pc["loop"] \in {"starting", "settling"} /\ pc' = [pc EXCEPT !["loop"] = "prompting"]
        /\ due' = [due EXCEPT ![mine["loop"]] = TRUE] /\ UNCHANGED mine
    BY <1>4 DEF StartRun, Continues, Goes, Runs
  <2>2. mine["loop"] \in Sessions
    BY <1>0, <2>1 DEF SessionsOK, Subscribed, InFlightAt
  <2>3. pc'["loop"] = "prompting" /\ due'[mine["loop"]]
    BY <1>0, <2>1, <2>2 DEF Typed
  <2> QED BY <2>1, <2>3 DEF Answered
<1>5. CASE Settles("loop")
  <2>1. /\ pc["loop"] = "settling" /\ pc' = [pc EXCEPT !["loop"] = "ended"]
        /\ ~ending[mine["loop"]] /\ stream' = FlushPendingAgentEnd("loop")
        /\ held' = IF IsLast("loop") THEN [held EXCEPT ![mine["loop"]] = FALSE] ELSE held
        /\ UNCHANGED <<mine, broke>>
    BY <1>5 DEF Settles, Goes, EndInFlight
  <2>2. pc'["loop"] = "ended" /\ pc'["post"] = pc["post"]
    BY <1>0, <2>1 DEF Typed
  <2>3. NoneOurs \/ (broke /\ held[mine["loop"]])
    BY <2>1 DEF Answered
  <2>4. CASE NoneOurs
    <3>1. stream' = stream \/ stream' = Heard(mine["loop"], OnEnd(stream))
      BY <2>1 DEF FlushPendingAgentEnd
    <3>2. NoneOurs'
      BY <1>0, <2>4, <3>1, HeardAll DEF NoneOurs
    <3> QED BY <2>2, <3>2 DEF Answered
  <2>5. CASE IsLast("loop") /\ held[mine["loop"]]
    <3>1. stream' = Heard(mine["loop"], OnEnd(stream))
      BY <2>1, <2>5 DEF FlushPendingAgentEnd
    <3>2. pc["loop"] \in Subscribed
      BY <2>1 DEF Subscribed, InFlightAt
    <3>3. NoneOurs'
      BY <1>0, <3>1, <3>2, HeardAll
    <3> QED BY <2>2, <3>3 DEF Answered
  <2>6. CASE ~IsLast("loop") /\ broke /\ held[mine["loop"]]
    <3>1. PostBeside
      BY <1>0, <2>1, <2>6, LastMeans DEF PostBeside, InFlightAt
    <3>2. PostBeside' /\ held' = held
      BY <2>1, <2>2, <2>6, <3>1 DEF PostBeside
    <3> QED BY <2>1, <2>2, <2>6, <3>2 DEF Answered
  <2> QED BY <2>3, <2>4, <2>5, <2>6
<1> QED BY <1>1, <1>2, <1>3, <1>4, <1>5 DEF Work

\* the other worker's prompt unwinds: what is held is heard, or stays for the loop
LEMMA PostUnwinds ==
  ASSUME Control, Answered, stream' = FlushPendingAgentEnd("post"), EndInFlight("post"),
         pc["post"] \in {"checked", "starting", "settling"},
         pc'["loop"] = pc["loop"], mine'["loop"] = mine["loop"], UNCHANGED <<due, ending, broke>>
  PROVE  Answered'
<1>0. /\ Typed /\ SessionsOK /\ "loop" \in Workers /\ "post" \in Workers
      /\ held' = IF IsLast("post") THEN [held EXCEPT ![mine["post"]] = FALSE] ELSE held
  BY DEF Control, EndInFlight, Workers
<1>1. stream' = stream \/ stream' = Heard(mine["post"], OnEnd(stream))
  BY DEF FlushPendingAgentEnd
<1>2. NoneOurs => NoneOurs'
  BY <1>0, <1>1, HeardAll DEF NoneOurs
<1>3. CASE mine["post"] # mine["loop"] \/ ~IsLast("post")
  <2>1. pc["loop"] \in {"settling", "ended"} => held'[mine["loop"]] = held[mine["loop"]]
    <3>1. pc["loop"] \in {"settling", "ended"} => mine["loop"] \in Sessions
      BY <1>0 DEF SessionsOK, Subscribed, InFlightAt
    <3> QED BY <1>0, <1>3, <3>1 DEF Typed
  <2>2. pc["loop"] = "ended" => NoneOurs
    <3>1. ASSUME PostBeside, pc["loop"] = "ended" PROVE IsLast("post")
      BY <1>0, <3>1, LastMeans DEF PostBeside, InFlightAt
    <3> QED BY <1>3, <3>1 DEF Answered, PostBeside
  <2> QED BY <1>2, <2>1, <2>2 DEF Answered
<1>4. CASE mine["post"] = mine["loop"] /\ IsLast("post")
  <2>1. pc["post"] \in InFlightAt
    BY <1>4 DEF IsLast
  <2>2. pc["loop"] \notin InFlightAt
    BY <1>0, <1>4, <2>1, LastMeans
  <2>3. pc["loop"] \notin {"prompting", "settling"}
    BY <2>2 DEF InFlightAt
  <2>4. pc["loop"] = "ended" => NoneOurs'
    <3>1. CASE held[mine["post"]]
      <4>1. stream' = Heard(mine["post"], OnEnd(stream))
        BY <1>4, <3>1 DEF FlushPendingAgentEnd
      <4>2. pc["loop"] = "ended" => pc["loop"] \in Subscribed
        BY DEF Subscribed
      <4> QED BY <1>0, <1>4, <4>1, <4>2, HeardAll
    <3>2. CASE ~held[mine["post"]]
      BY <1>2, <1>4, <3>2 DEF Answered
    <3> QED BY <3>1, <3>2
  <2> QED BY <1>2, <2>3, <2>4 DEF Answered
<1> QED BY <1>3, <1>4

\* steps of the other worker
LEMMA PostAnswered ==
  ASSUME Control, Answered, Work("post")
  PROVE  Answered'
<1>0. Typed /\ SessionsOK /\ "loop" \in Workers /\ "post" \in Workers
  BY DEF Control, Workers
<1> USE DEF Goes, agents, events, reply
<1>1. CASE PromptThrows("post") \/ Settles("post")
  <2>1. /\ EndInFlight("post") /\ stream' = FlushPendingAgentEnd("post")
        /\ pc["post"] \in {"checked", "starting", "settling"}
        /\ UNCHANGED <<due, ending, broke>>
        /\ \E to \in {"idle", "ended"} : pc' = [pc EXCEPT !["post"] = to]
        /\ mine' = mine \/ mine' = [mine EXCEPT !["post"] = 0]
    BY <1>1 DEF PromptThrows, Settles, Finish
  <2>2. pc'["loop"] = pc["loop"] /\ mine'["loop"] = mine["loop"]
    BY <1>0, <2>1 DEF Typed
  <2> QED BY <2>1, <2>2, PostUnwinds
<1>2. CASE \/ EnsureGlobalSession("post") \/ Created("post") \/ CreationFails("post")
           \/ Clears("post") \/ DispatchPrompt("post") \/ RetryPrompt("post")
           \/ BeginInFlight("post") \/ Returns("post")
  <2>1. /\ pc["post"] \notin InFlightAt
        /\ UNCHANGED <<stream, ending, held, broke, due>>
        /\ \E to : pc' = [pc EXCEPT !["post"] = to]
        /\ mine' = mine \/ \E g : mine' = [mine EXCEPT !["post"] = g]
    BY <1>2 DEF EnsureGlobalSession, Created, CreationFails, Clears, DispatchPrompt,
                RetryPrompt, BeginInFlight, Returns, Finish, InFlightAt
  <2>2. pc'["loop"] = pc["loop"] /\ mine'["loop"] = mine["loop"] /\ ~PostBeside
    BY <1>0, <2>1 DEF Typed, PostBeside
  <2> QED BY <2>1, <2>2, PostMoves
<1>3. CASE StartRun("post") \/ Continues("post")
  <2>1. /\ pc["post"] \in InFlightAt /\ pc' = [pc EXCEPT !["post"] = "prompting"]
        /\ UNCHANGED <<stream, ending, held, broke, mine>>
        /\ due' = [due EXCEPT ![mine["post"]] = TRUE]
    BY <1>3 DEF StartRun, Continues, Runs, InFlightAt
  <2>2. pc'["loop"] = pc["loop"] /\ pc'["post"] = "prompting" /\ mine'["loop"] = mine["loop"]
    BY <1>0, <2>1 DEF Typed
  <2>3. PostBeside => PostBeside'
    BY <2>1, <2>2 DEF PostBeside, InFlightAt
  <2>4. \A s \in Sessions : due[s] => due'[s]
    BY <1>0, <2>1 DEF Typed
  <2> QED BY <2>1, <2>2, <2>3, <2>4, PostMoves
<1> QED BY <1>1, <1>2, <1>3 DEF Work

\* text
LEMMA DeltaAnswered ==
  ASSUME Control, Answered, NEW s \in Sessions, TextDelta(s)
  PROVE  Answered'
<1>0. Typed /\ RunsBelong /\ "loop" \in Workers
  BY DEF Control, Workers
<1>1. PICK stop \in BOOLEAN :
           stream' = Heard(s, OnDelta(stream, [stop |-> stop, ours |-> run[s] = "loop"]))
  BY DEF TextDelta
<1>2. UNCHANGED <<pc, mine, ending, held, broke>> /\ due' = [due EXCEPT ![s] = TRUE]
  BY DEF TextDelta
<1> DEFINE p == [stop |-> stop, ours |-> run[s] = "loop"]
<1>3. CASE run[s] = "loop"
  <2>1. pc["loop"] = "prompting" /\ mine["loop"] = s
    BY <1>0, <1>3 DEF RunsBelong
  <2>2. due'[mine["loop"]]
    BY <1>0, <1>2, <2>1 DEF Typed
  <2> QED BY <1>2, <2>1, <2>2 DEF Answered
<1>4. CASE run[s] # "loop"
  <2>1. p \in Pieces /\ ~p.ours /\ stream.buffer \in Seq(Pieces)
    BY <1>0, <1>4 DEF Pieces, Typed, Streams
  <2>2. stream'.buffer \in {stream.buffer, Append(stream.buffer, p)}
    BY <1>1 DEF Heard, OnDelta
  <2> HIDE DEF p
  <2>3. ASSUME NoneOurs, NEW i \in DOMAIN stream'.buffer PROVE ~stream'.buffer[i].ours
    <3>1. CASE stream'.buffer = stream.buffer
      BY <2>3, <3>1 DEF NoneOurs
    <3>2. CASE stream'.buffer = Append(stream.buffer, p)
      <4>1. CASE i = Len(stream.buffer) + 1
        BY <2>1, <3>2, <4>1
      <4>2. CASE i # Len(stream.buffer) + 1
        <5>1. i \in DOMAIN stream.buffer /\ stream'.buffer[i] = stream.buffer[i]
          BY <2>1, <2>3, <3>2, <4>2
        <5> QED BY <2>3, <5>1 DEF NoneOurs
      <4> QED BY <4>1, <4>2
    <3> QED BY <2>2, <3>1, <3>2
  <2>4. NoneOurs => NoneOurs'
    BY <2>3 DEF NoneOurs
  <2>5. pc["loop"] = "prompting" => mine["loop"] \in Sessions
    BY <1>0 DEF Control, SessionsOK, Subscribed, InFlightAt
  <2>6. \A r \in Sessions : due[r] => due'[r]
    BY <1>0, <1>2 DEF Typed
  <2> QED BY <1>2, <2>4, <2>5, <2>6 DEF Answered, PostBeside
<1> QED BY <1>3, <1>4

\* steps of a run
LEMMA TurnAnswered ==
  ASSUME HooksArePrompt, Control, Answered, NEW s \in Sessions, Turn(s)
  PROVE  Answered'
<1>0. Typed /\ RunsBelong /\ SessionsOK /\ "loop" \in Workers /\ "post" \in Workers
  BY DEF Control, Workers
<1>1. CASE OwnTurn(s)
  <2>1. /\ UNCHANGED <<pc, mine, stream, ending, held, broke>>
        /\ due' = [due EXCEPT ![s] = TRUE]
    BY <1>1 DEF OwnTurn, Runs, reply
  <2>2. \A r \in Sessions : due[r] => due'[r]
    BY <1>0, <2>1 DEF Typed
  <2> QED BY <2>1, <2>2, PostMoves DEF PostBeside
<1>2. CASE ToolCall(s)
  <2>1. /\ UNCHANGED <<pc, mine, due, ending, held, broke>>
        /\ stream' = Heard(s, OnToolCall(stream))
    BY <1>2 DEF ToolCall, agents, events
  <2>2. NoneOurs => NoneOurs'
    BY <1>0, <2>1, HeardAll
  <2> QED BY <2>1, <2>2 DEF Answered, PostBeside
<1>3. CASE HearsEnd(s)
  <2>1. /\ UNCHANGED <<pc, mine, ending, held, broke>> /\ due' = [due EXCEPT ![s] = FALSE]
        /\ stream' = Heard(s, OnEnd(stream))
    BY <1>3 DEF HearsEnd
  <2>2. /\ NoneOurs => NoneOurs'
        /\ pc["loop"] \in Subscribed /\ mine["loop"] = s => NoneOurs'
    BY <1>0, <2>1, HeardAll
  <2>3. pc["loop"] = "prompting" => mine["loop"] \in Sessions /\ pc["loop"] \in Subscribed
    BY <1>0 DEF SessionsOK, Subscribed, InFlightAt
  <2>4. mine["loop"] # s => due'[mine["loop"]] = due[mine["loop"]]
    BY <1>0, <2>1 DEF Typed
  <2> QED BY <2>1, <2>2, <2>3, <2>4 DEF Answered, PostBeside
<1>4. CASE HearsAgentEnd(s)
  <2>1. UNCHANGED <<pc, mine, due, broke>> /\ ending' = [ending EXCEPT ![s] = FALSE]
    BY <1>4 DEF HearsAgentEnd
  <2>2. /\ stream' = stream \/ stream' = Heard(s, OnEnd(stream))
        /\ held' = held \/ held' = [held EXCEPT ![s] = TRUE]
    BY <1>4 DEF HearsAgentEnd
  <2>3. NoneOurs => NoneOurs'
    BY <1>0, <2>2, HeardAll DEF NoneOurs
  <2>4. pc["loop"] \in {"settling", "ended"} => (held[mine["loop"]] => held'[mine["loop"]])
    <3>1. pc["loop"] \in {"settling", "ended"} => mine["loop"] \in Sessions
      BY <1>0 DEF SessionsOK, Subscribed, InFlightAt
    <3> QED BY <1>0, <2>2, <3>1 DEF Typed
  <2>5. ASSUME pc["loop"] = "settling"
        PROVE  ending'[mine["loop"]] = ending[mine["loop"]] \/ held'[mine["loop"]]
    <3>1. CASE mine["loop"] = s
      <4>1. "loop" \in InFlight(s)
        BY <1>0, <2>5, <3>1 DEF InFlight, InFlightAt
      <4>2. held' = [held EXCEPT ![s] = TRUE]
        BY <1>4, <4>1 DEF HearsAgentEnd
      <4> QED BY <1>0, <3>1, <4>2 DEF Typed
    <3>2. CASE mine["loop"] # s
      BY <1>0, <2>1, <3>2 DEF Typed
    <3> QED BY <3>1, <3>2
  <2> QED BY <2>1, <2>3, <2>4, <2>5 DEF Answered, PostBeside
<1>5. CASE RunEnds(s)
  <2>1. PICK breaks \in BOOLEAN :
             /\ due[s] => breaks
             /\ broke' = IF run[s] = "loop" THEN breaks ELSE broke
    BY <1>5 DEF RunEnds
  <2>2. /\ run[s] # "none" /\ ending' = [ending EXCEPT ![s] = TRUE]
        /\ due' = [due EXCEPT ![s] = FALSE]
        /\ pc' = [w \in Workers |-> IF run[s] = w THEN "settling" ELSE pc[w]]
        /\ UNCHANGED <<mine, held, stream>>
    BY <1>5 DEF RunEnds
  <2>3. NoneOurs' <=> NoneOurs
    BY <2>2 DEF NoneOurs
  <2>4. CASE run[s] = "loop"
    <3>1. pc["loop"] = "prompting" /\ mine["loop"] = s /\ pc'["loop"] = "settling"
      BY <1>0, <2>2, <2>4 DEF RunsBelong
    <3>2. ending'[mine["loop"]]
      BY <1>0, <2>2, <3>1 DEF Typed
    <3>3. NoneOurs \/ broke'
      BY <2>1, <2>4, <3>1 DEF Answered
    <3> QED BY <2>2, <2>3, <3>1, <3>2, <3>3 DEF Answered
  <2>5. CASE run[s] # "loop"
    <3>1. pc'["loop"] = pc["loop"] /\ broke' = broke
      BY <1>0, <2>1, <2>2, <2>5
    <3>2. PostBeside => PostBeside'
      BY <1>0, <2>2 DEF PostBeside, InFlightAt
    <3>3. pc["loop"] = "prompting" => due'[mine["loop"]] = due[mine["loop"]]
      <4>1. pc["loop"] = "prompting" => run[mine["loop"]] = "loop" /\ mine["loop"] \in Sessions
        BY <1>0 DEF SessionsOK, Subscribed, InFlightAt
      <4> QED BY <1>0, <2>2, <2>5, <4>1 DEF Typed
    <3>4. ending[mine["loop"]] => ending'[mine["loop"]]
      BY <1>0, <2>2 DEF Typed
    <3> QED BY <2>2, <2>3, <3>1, <3>2, <3>3, <3>4 DEF Answered
  <2> QED BY <2>4, <2>5
<1> QED BY <1>1, <1>2, <1>3, <1>4, <1>5, DeltaAnswered DEF Turn

\* every step
LEMMA NextAnswered ==
  HooksArePrompt /\ Control /\ Answered /\ [Next]_vars => Answered'
<1> SUFFICES ASSUME HooksArePrompt, Control, Answered, [Next]_vars PROVE Answered'
  OBVIOUS
<1>0. Typed /\ "loop" \in Workers /\ "post" \in Workers
  BY DEF Control, Workers
<1>1. CASE UNCHANGED vars \/ Arrives \/ \E u \in UserIds : FlushUserMessages(u)
  <2>1. UNCHANGED <<pc, mine, stream, due, ending, held, broke>>
    BY <1>1 DEF vars, agents, events, reply, Arrives, FlushUserMessages
  <2> QED BY <2>1, PostMoves DEF PostBeside
<1>2. CASE StreamTimer
  <2>1. UNCHANGED <<pc, mine, due, ending, held, broke>>
    BY <1>2 DEF StreamTimer, agents, events
  <2>2. NoneOurs => NoneOurs'
    BY <1>0, <1>2, TimerKeeps DEF NoneOurs
  <2> QED BY <2>1, <2>2 DEF Answered, PostBeside
<1>3. CASE LoopTakes
  <2>1. pc["loop"] = "idle" /\ pc' = [pc EXCEPT !["loop"] = "session"] /\ stream' = stream
    BY <1>3 DEF LoopTakes, Goes, reply
  <2>2. pc'["loop"] = "session"
    BY <1>0, <2>1 DEF Typed
  <2> QED BY <2>1, <2>2 DEF Answered, NoneOurs
<1>4. CASE Posted
  <2>1. /\ pc["post"] = "idle" /\ pc' = [pc EXCEPT !["post"] = "session"]
        /\ UNCHANGED <<mine, stream, due, ending, held, broke>>
    BY <1>4 DEF Posted, Goes, agents, events, reply
  <2>2. pc'["loop"] = pc["loop"] /\ ~PostBeside
    BY <1>0, <2>1 DEF Typed, PostBeside, InFlightAt
  <2> QED BY <2>1, <2>2, PostMoves
<1>5. CASE \E w \in Workers : Work(w)
  BY <1>5, LoopAnswered, PostAnswered DEF Workers
<1>6. CASE \E s \in Sessions : Turn(s)
  BY <1>6, TurnAnswered
<1> QED BY <1>1, <1>2, <1>3, <1>4, <1>5, <1>6 DEF Next

(* If event handlers are prompt: when a prompt has returned and its stream is  *)
(* about to be dropped, what its runs said has been sent to the last word,    *)
(* whatever timers, tool calls, errors and runs of others came in between;    *)
(* but where its last run broke off beside another prompt in flight, which    *)
(* holds back the agent_end.                                                  *)
THEOREM AnswersAreSent == HooksArePrompt => (Spec => []AnswerIsOut)
<1> SUFFICES ASSUME HooksArePrompt PROVE Spec => []AnswerIsOut
  OBVIOUS
<1>1. Init => Answered
  BY StreamTypes DEF Init, Answered, NoneOurs, NewStream, Workers
<1>2. Control /\ Answered /\ [Next]_vars => Answered'
  BY NextAnswered
<1> QED
  BY <1>1, <1>2, ControlHolds, AnsweredMeans, PTL DEF Spec

----------------------------------------------------------------------------
(* The intake is kept. *)

\* nothing has arrived at first
LEMMA InitIntake == Init => Intake
<1> SUFFICES ASSUME Init PROVE Intake
  OBVIOUS
<1>0. M \in Nat /\ Capacity \in Nat /\ "loop" \in Workers
  BY ChatAssumption DEF Workers
<1>1. IntakeOK
  <2>1. <<>> \in Seq(Messages) /\ <<>> \in Seq(Seq(Messages)) /\ Len(<<>>) = 0
    OBVIOUS
  <2>2. queue \in Seq(Batch) /\ Len(queue) <= Capacity
    BY <1>0, <2>1 DEF Init, Batch
  <2>3. log \in Seq(Messages) /\ job \in [Workers -> Batch] /\ pending \in [UserIds -> Batch]
    BY <2>1 DEF Init, Batch
  <2>4. from \in [Messages -> UserIds] /\ arrived \in 0 .. M /\ lost \subseteq 1 .. arrived
    BY <1>0, ChatAssumption DEF Init
  <2>q. QED
    BY <1>0, <2>2, <2>3, <2>4 DEF Init, IntakeOK
<1>2. Line = <<>>
  <2>1. Line = (<<>> \o <<>>) \o <<>>
    BY <1>0, FlattenEmpty DEF Init, Line
  <2>q. QED
    BY <2>1, <1>0, ConcatEmptySeq
<1>3. ASSUME NEW u \in UserIds PROVE TraceOK(u)
  <2>1. pending[u] = <<>> /\ <<>> \in Seq(FromUser(u)) /\ <<>> \o <<>> = <<>>
    BY ConcatEmptySeq DEF Init
  <2>2. Trace(u) = <<>>
    BY <1>2, <2>1, OnlyEmpty DEF Trace
  <2>3. Alive(u) = {} /\ InBatch(<<>>) = {} /\ Increasing(<<>>)
    BY DEF Init, Alive, FromUser, Messages, InBatch, Increasing
  <2>q. QED
    BY <2>1, <2>2, <2>3 DEF TraceOK
<1>q. QED
  BY <1>1, <1>3 DEF Intake

\* every step of a worker keeps the intake
LEMMA WorkIntake ==
  ASSUME Intake, Typed, NEW w \in Workers, Work(w)
  PROVE  Intake'
<1>0. DOMAIN pc = Workers /\ "loop" \in Workers
  BY DEF Typed, Workers
<1>1. CASE CreationFails(w) \/ Clears(w) \/ PromptThrows(w) \/ Returns(w)
  <2>1. /\ \E t : Finish(w, t)
        /\ UNCHANGED <<from, arrived, pending, timers, tied, lost, queue>>
    BY <1>1 DEF CreationFails, Clears, PromptThrows, Returns, Quiet
  <2>q. QED
    BY <1>0, <2>1, FinishIntake
<1>2. CASE \/ EnsureGlobalSession(w) \/ Created(w) \/ DispatchPrompt(w) \/ BeginInFlight(w)
           \/ StartRun(w) \/ Continues(w) \/ Settles(w)
  <2>1. /\ \E to \in Stages \ {"idle"} : pc' = [pc EXCEPT ![w] = to]
        /\ UNCHANGED <<from, arrived, pending, timers, tied, lost, queue, job, log>>
    BY <1>2 DEF EnsureGlobalSession, Created, DispatchPrompt, BeginInFlight, StartRun,
                Continues, Settles, Goes, Quiet, reply, Stages, Subscribed, InFlightAt
  <2>2. pc'["loop"] = "idle" => pc["loop"] = "idle"
    BY <1>0, <2>1
  <2>q. QED
    BY <2>1, <2>2, IntakeStays
<1>3. CASE RetryPrompt(w)
  <2>1. UNCHANGED <<from, arrived, pending, timers, tied, lost, queue>>
    BY <1>3 DEF RetryPrompt, Quiet
  <2>2. CASE Finish(w, stream)
    BY <1>0, <2>1, <2>2, FinishIntake
  <2>3. CASE pc' = [pc EXCEPT ![w] = "checked"] /\ UNCHANGED <<job, log>>
    <3>1. pc'["loop"] = "idle" => pc["loop"] = "idle"
      BY <1>0, <2>3
    <3>q. QED
      BY <2>1, <2>3, <3>1, IntakeStays
  <2>q. QED
    BY <1>3, <2>2, <2>3 DEF RetryPrompt, reply
<1>q. QED
  BY <1>1, <1>2, <1>3 DEF Work

\* a run leaves the intake alone
LEMMA TurnIntake ==
  ASSUME Intake, Typed, NEW s \in Sessions, Turn(s)
  PROVE  Intake'
<1>1. UNCHANGED <<from, arrived, pending, timers, tied, lost, queue, job, log>>
  BY DEF Turn, OwnTurn, TextDelta, ToolCall, HearsEnd, RunEnds, HearsAgentEnd, Quiet, reply
<1>2. pc'["loop"] = "idle" => pc["loop"] = "idle"
  <2>1. \/ pc' = pc
        \/ pc' = [w \in Workers |-> IF run[s] = w THEN "settling" ELSE pc[w]]
    BY DEF Turn, OwnTurn, TextDelta, ToolCall, HearsEnd, RunEnds, HearsAgentEnd
  <2>q. QED
    BY <2>1 DEF Workers
<1>q. QED
  BY <1>1, <1>2, IntakeStays

\* every step keeps the intake
LEMMA NextIntake == Control /\ Intake /\ [Next]_vars => Intake'
<1> SUFFICES ASSUME Control, Intake, [Next]_vars PROVE Intake'
  OBVIOUS
<1>0. Typed /\ DOMAIN pc = Workers /\ "loop" \in Workers
  BY DEF Control, Typed, Workers
<1>1. CASE UNCHANGED vars \/ StreamTimer
  <2>1. UNCHANGED <<from, arrived, pending, timers, tied, lost, queue, job, log, pc>>
    BY <1>1 DEF vars, intake, reply, StreamTimer, Quiet
  <2>q. QED
    BY <2>1, IntakeStays
<1>2. CASE Posted
  <2>1. /\ pc' = [pc EXCEPT !["post"] = "session"]
        /\ UNCHANGED <<from, arrived, pending, timers, tied, lost, queue, job, log>>
    BY <1>2 DEF Posted, Goes, Quiet, reply
  <2>2. pc'["loop"] = pc["loop"]
    BY <1>0, <2>1
  <2>q. QED
    BY <2>1, <2>2, IntakeStays
<1>3. CASE Arrives
  BY <1>3, ArrivesIntake
<1>4. CASE LoopTakes
  BY <1>0, <1>4, LoopTakesIntake
<1>5. CASE \E u \in UserIds : FlushUserMessages(u)
  BY <1>5, FlushIntake
<1>6. CASE \E w \in Workers : Work(w)
  BY <1>0, <1>6, WorkIntake
<1>7. CASE \E s \in Sessions : Turn(s)
  BY <1>0, <1>7, TurnIntake
<1>q. QED
  BY <1>1, <1>2, <1>3, <1>4, <1>5, <1>6, <1>7 DEF Next

\* ... and that of the intake
LEMMA IntakeHolds == Spec => []Intake
BY InitIntake, NextIntake, ControlHolds, PTL DEF Spec

(* Whatever is merged, dropped and prompted beside the loop, and whichever    *)
(* batches fail: the messages of a user are worked off in the order in which  *)
(* he wrote them, for any number of users and messages and every capacity.    *)
THEOREM MessagesInOrder == Spec => []InOrder
BY IntakeHolds, IntakeOrder, PTL

(* Each message that has arrived is in exactly one place, with the debounce,  *)
(* in the queue, with the loop or behind it, unless it was dropped.           *)
THEOREM NoMessageLostUnseen == Spec => []NoneLostUnseen
BY IntakeHolds, IntakeSeen, PTL

----------------------------------------------------------------------------
(* The types. *)

\* the two invariants give the types
LEMMA TypesTogether == Control /\ Intake => TypeOK
<1> SUFFICES ASSUME Control, Intake PROVE TypeOK
  OBVIOUS
<1>0. Typed /\ RunsBelong /\ SessionsOK /\ IntakeOK
  BY DEF Control, Intake
<1>1. ASSUME NEW w \in Workers
      PROVE  pc[w] = "prompting" <=> \E s \in Sessions : run[s] = w /\ mine[w] = s
  BY <1>0 DEF RunsBelong, SessionsOK, Subscribed, InFlightAt
<1>2. {due, ending, held} \subseteq [Sessions -> BOOLEAN]
  BY <1>0 DEF Typed
<1>q. QED
  BY <1>0, <1>1, <1>2 DEF Typed, Stages, SessionsOK, IntakeOK, TypeOK, Streams

(* The types; the queue is never over its capacity, each worker creates one   *)
(* session at most, and a session is in a run of a worker exactly while that  *)
(* worker's prompt waits for it.                                              *)
THEOREM ChatTypes == Spec => []TypeOK
BY ControlHolds, IntakeHolds, TypesTogether, PTL
============================================================================
