------------------------ MODULE SequenceFilter_proof ------------------------
(***************************************************************************)
(* What filtering a queue does, for queues of every length: it keeps the    *)
(* order, takes concatenations apart, and finds everything or nothing when  *)
(* the set says so.  Induction over a queue is stated with a set of         *)
(* sequences, so that it needs no operator as a parameter.                  *)
(***************************************************************************)
EXTENDS SequenceFilter, SequenceTheorems, WellFoundedInduction, TLAPS

(* Induction over the naturals, for a set.                                   *)
LEMMA NatSetInduction ==
  ASSUME NEW G, 0 \in G, \A n \in Nat : n \in G => n + 1 \in G
  PROVE  \A n \in Nat : n \in G
<1> SUFFICES ASSUME NEW n \in Nat, n \notin G PROVE FALSE
  OBVIOUS
<1> DEFINE B == Nat \ G
<1>1. PICK m \in B : \A k \in B : ~(<<k, m>> \in OpToRel(<, Nat))
  <2>1. B \subseteq Nat /\ B # {}
    OBVIOUS
  <2> HIDE DEF B
  <2>q. QED
    BY <2>1, WFMin, NatLessThanWellFounded
<1>2. \A k \in B : ~(k < m)
  BY <1>1 DEF OpToRel
<1>3. m # 0 /\ m - 1 \in Nat /\ m - 1 < m
  OBVIOUS
<1>4. m - 1 \in G
  BY <1>2, <1>3
<1>5. (m - 1) + 1 \in G
  BY <1>3, <1>4
<1>q. QED
  BY <1>5

\* f is the function that Only applies to a sequence of length len
Keeps(f, s, T, len) ==
  f = [n \in 0 .. len |->
         IF n = 0 THEN <<>>
         ELSE IF s[n] \in T THEN Append(f[n - 1], s[n]) ELSE f[n - 1]]

(* The recursive function of Only exists for every length.                   *)
LEMMA KeptExists ==
  ASSUME NEW s, NEW T, NEW len \in Nat
  PROVE  \E f : Keeps(f, s, T, len)
<1> DEFINE G == {m \in Nat : \E f : Keeps(f, s, T, m)}
<1>1. 0 \in G
  <2>1. Keeps([n \in 0 .. 0 |-> <<>>], s, T, 0)
    BY DEF Keeps
  <2>q. QED
    BY <2>1
<1>2. ASSUME NEW m \in Nat, m \in G PROVE m + 1 \in G
  <2>1. PICK f : Keeps(f, s, T, m)
    BY <1>2
  <2> DEFINE top == IF s[m + 1] \in T THEN Append(f[m], s[m + 1]) ELSE f[m]
             g == [n \in 0 .. m + 1 |-> IF n = m + 1 THEN top ELSE f[n]]
             h == [n \in 0 .. m + 1 |->
                     IF n = 0 THEN <<>>
                     ELSE IF s[n] \in T THEN Append(g[n - 1], s[n]) ELSE g[n - 1]]
  <2>2. ASSUME NEW n \in 0 .. m + 1 PROVE g[n] = h[n]
    <3>1. CASE n = 0
      BY <3>1, <2>1 DEF Keeps
    <3>2. CASE n # 0 /\ n # m + 1
      <4>1. n - 1 \in 0 .. m + 1 /\ n - 1 # m + 1 /\ n \in 0 .. m
        BY <3>2
      <4>2. g[n] = f[n] /\ g[n - 1] = f[n - 1]
        BY <4>1, <3>2
      <4>3. f[n] = IF s[n] \in T THEN Append(f[n - 1], s[n]) ELSE f[n - 1]
        BY <4>1, <3>2, <2>1 DEF Keeps
      <4>4. h[n] = IF s[n] \in T THEN Append(g[n - 1], s[n]) ELSE g[n - 1]
        BY <3>2
      <4>q. QED
        BY <4>2, <4>3, <4>4
    <3>3. CASE n = m + 1
      <4>1. n - 1 = m /\ n # 0 /\ m \in 0 .. m + 1 /\ m # m + 1
        BY <3>3
      <4>2. g[n] = top /\ g[n - 1] = f[m]
        BY <4>1, <3>3
      <4>3. h[n] = IF s[n] \in T THEN Append(g[n - 1], s[n]) ELSE g[n - 1]
        BY <4>1
      <4>q. QED
        BY <4>2, <4>3, <3>3
    <3>q. QED
      BY <3>1, <3>2, <3>3
  <2>3. g = h
    BY <2>2
  <2>4. Keeps(g, s, T, m + 1)
    BY <2>3 DEF Keeps
  <2> HIDE DEF g
  <2>q. QED
    BY <2>4
<1>3. len \in G
  <2> HIDE DEF G
  <2>q. QED
    BY <1>1, <1>2, NatSetInduction
<1>q. QED
  BY <1>3

(* Only is the last value of such a function.                                *)
LEMMA OnlyIsKept ==
  ASSUME NEW s, NEW T, Len(s) \in Nat
  PROVE  \E f : Keeps(f, s, T, Len(s)) /\ Only(s, T) = f[Len(s)]
<1> DEFINE F == CHOOSE f : Keeps(f, s, T, Len(s))
<1>1. Only(s, T) = F[Len(s)]
  BY DEF Only, Keeps
<1>2. Keeps(F, s, T, Len(s))
  BY KeptExists
<1>q. QED
  BY <1>1, <1>2

\* Two such functions agree as far as the sequences do.
(* Two of them agree as far as their sequences do.                           *)
LEMMA KeptAgree ==
  ASSUME NEW T, NEW m \in Nat, NEW s, NEW t, \A n \in 1 .. m : s[n] = t[n],
         NEW f, Keeps(f, s, T, m), NEW g, Keeps(g, t, T, m + 1)
  PROVE  f[m] = g[m]
<1> DEFINE G == {n \in Nat : n <= m => f[n] = g[n]}
<1>1. 0 \in G
  BY DEF Keeps
<1>2. ASSUME NEW n \in Nat, n \in G PROVE n + 1 \in G
  <2> SUFFICES ASSUME n + 1 <= m PROVE f[n + 1] = g[n + 1]
    OBVIOUS
  <2>1. f[n] = g[n] /\ s[n + 1] = t[n + 1]
    BY <1>2
  <2>2. n + 1 \in 0 .. m /\ n + 1 \in 0 .. m + 1 /\ (n + 1) - 1 = n /\ n + 1 # 0
    OBVIOUS
  <2>3. f[n + 1] = IF s[n + 1] \in T THEN Append(f[n], s[n + 1]) ELSE f[n]
    BY <2>2 DEF Keeps
  <2>4. g[n + 1] = IF t[n + 1] \in T THEN Append(g[n], t[n + 1]) ELSE g[n]
    BY <2>2 DEF Keeps
  <2>q. QED
    BY <2>1, <2>3, <2>4
<1>3. m \in G
  <2> HIDE DEF G
  <2>q. QED
    BY <1>1, <1>2, NatSetInduction
<1>q. QED
  BY <1>3

(* Nothing comes of nothing.                                                 *)
LEMMA OnlyEmpty ==
  ASSUME NEW T
  PROVE  Only(<<>>, T) = <<>>
<1>1. PICK f : Keeps(f, <<>>, T, 0) /\ Only(<<>>, T) = f[0]
  BY OnlyIsKept
<1>q. QED
  BY <1>1 DEF Keeps

(* What filter does with the next element.                                   *)
LEMMA OnlyAppend ==
  ASSUME NEW S, NEW s \in Seq(S), NEW e \in S, NEW T
  PROVE  Only(Append(s, e), T) = IF e \in T THEN Append(Only(s, T), e) ELSE Only(s, T)
<1> DEFINE t == Append(s, e)
           len == Len(s)
<1>1. /\ Len(t) = len + 1 /\ len \in Nat /\ t[len + 1] = e
      /\ \A n \in 1 .. len : t[n] = s[n]
  OBVIOUS
<1> HIDE DEF t
<1>2. PICK f : Keeps(f, s, T, len) /\ Only(s, T) = f[len]
  BY OnlyIsKept
<1> HIDE DEF len
<1>3. PICK g : Keeps(g, t, T, len + 1) /\ Only(t, T) = g[len + 1]
  BY <1>1, OnlyIsKept
<1>4. f[len] = g[len]
  <2>1. \A n \in 1 .. len : s[n] = t[n]
    BY <1>1
  <2>q. QED
    BY <1>1, <1>2, <1>3, <2>1, KeptAgree
<1>5. /\ len + 1 \in 0 .. len + 1 /\ len + 1 # 0 /\ (len + 1) - 1 = len
  BY <1>1
<1>6. g[len + 1] = IF t[len + 1] \in T THEN Append(g[len], t[len + 1]) ELSE g[len]
  BY <1>3, <1>5 DEF Keeps
<1>q. QED
  BY <1>1, <1>2, <1>3, <1>4, <1>6 DEF t

(* Induction over sequences, for a set of them. *)
(* Induction over sequences, built from the left, for a set of them.         *)
LEMMA SeqSetInduction ==
  ASSUME NEW S, NEW G, <<>> \in G,
         \A q \in Seq(S), e \in S : q \in G => Append(q, e) \in G
  PROVE  \A q \in Seq(S) : q \in G
<1> DEFINE H == {n \in Nat : \A q \in Seq(S) : Len(q) = n => q \in G}
<1>1. 0 \in H
  <2>1. \A q \in Seq(S) : Len(q) = 0 => q = <<>>
    OBVIOUS
  <2>q. QED
    BY <2>1
<1>2. ASSUME NEW n \in Nat, n \in H PROVE n + 1 \in H
  <2>1. SUFFICES ASSUME NEW q \in Seq(S), Len(q) = n + 1 PROVE q \in G
    OBVIOUS
  <2> DEFINE p == SubSeq(q, 1, n)
  <2>2. p \in Seq(S) /\ Len(p) = n /\ q[n + 1] \in S /\ q = Append(p, q[n + 1])
    BY <2>1
  <2>3. p \in G
    BY <1>2, <2>2
  <2>q. QED
    BY <2>2, <2>3
<1>3. \A n \in Nat : n \in H
  <2> HIDE DEF H
  <2>q. QED
    BY <1>1, <1>2, NatSetInduction
<1>q. QED
  BY <1>3

(* The result consists of elements of T.                                     *)
LEMMA OnlyType ==
  ASSUME NEW S, NEW s \in Seq(S), NEW T
  PROVE  Only(s, T) \in Seq(S \cap T)
<1> DEFINE G == {q \in Seq(S) : Only(q, T) \in Seq(S \cap T)}
<1>1. <<>> \in G
  <2>1. Only(<<>>, T) = <<>>
    BY OnlyEmpty
  <2>2. <<>> \in Seq(S \cap T) /\ <<>> \in Seq(S)
    OBVIOUS
  <2>q. QED
    BY <2>1, <2>2
<1>2. ASSUME NEW q \in Seq(S), NEW e \in S, q \in G PROVE Append(q, e) \in G
  <2>1. Only(Append(q, e), T) = IF e \in T THEN Append(Only(q, T), e) ELSE Only(q, T)
    BY OnlyAppend
  <2>2. Only(q, T) \in Seq(S \cap T)
    BY <1>2
  <2>3. Only(Append(q, e), T) \in Seq(S \cap T)
    BY <2>1, <2>2
  <2>q. QED
    BY <2>3
<1>q. QED
  <2> HIDE DEF G
  <2>1. s \in G
    BY <1>1, <1>2, SeqSetInduction
  <2>q. QED
    BY <2>1 DEF G

(* Filtering two queues in a row.                                            *)
LEMMA OnlyConcat ==
  ASSUME NEW S, NEW s \in Seq(S), NEW t \in Seq(S), NEW T
  PROVE  Only(s \o t, T) = Only(s, T) \o Only(t, T)
<1> DEFINE G == {q \in Seq(S) : Only(s \o q, T) = Only(s, T) \o Only(q, T)}
<1>1. <<>> \in G
  <2>1. s \o <<>> = s /\ Only(s, T) \o <<>> = Only(s, T)
    BY OnlyType
  <2>2. Only(<<>>, T) = <<>>
    BY OnlyEmpty
  <2>3. <<>> \in Seq(S)
    OBVIOUS
  <2>q. QED
    BY <2>1, <2>2, <2>3
<1>2. ASSUME NEW q \in Seq(S), NEW e \in S, q \in G PROVE Append(q, e) \in G
  <2>1. s \o Append(q, e) = Append(s \o q, e) /\ s \o q \in Seq(S)
    OBVIOUS
  <2>2. Only(Append(q, e), T) = IF e \in T THEN Append(Only(q, T), e) ELSE Only(q, T)
    BY OnlyAppend
  <2>3. Only(Append(s \o q, e), T)
          = IF e \in T THEN Append(Only(s \o q, T), e) ELSE Only(s \o q, T)
    BY <2>1, OnlyAppend
  <2>4. Only(s, T) \in Seq(S) /\ Only(q, T) \in Seq(S)
    <3>1. Seq(S \cap T) \subseteq Seq(S)
      OBVIOUS
    <3>q. QED
      BY <3>1, OnlyType
  <2>5. Only(s, T) \o Append(Only(q, T), e) = Append(Only(s, T) \o Only(q, T), e)
    BY <2>4
  <2>6. Only(s \o q, T) = Only(s, T) \o Only(q, T)
    BY <1>2
  <2>7. Only(s \o Append(q, e), T) = Only(s, T) \o Only(Append(q, e), T)
    BY <2>1, <2>2, <2>3, <2>5, <2>6
  <2>8. Append(q, e) \in Seq(S)
    OBVIOUS
  <2>q. QED
    BY <2>7, <2>8
<1>q. QED
  <2> HIDE DEF G
  <2>1. t \in G
    BY <1>1, <1>2, SeqSetInduction
  <2>q. QED
    BY <2>1 DEF G

(* A filter that everything passes.                                          *)
LEMMA OnlyAll ==
  ASSUME NEW S, NEW s \in Seq(S), NEW T, S \subseteq T
  PROVE  Only(s, T) = s
<1> DEFINE G == {q \in Seq(S) : Only(q, T) = q}
<1>1. <<>> \in G
  BY OnlyEmpty
<1>2. ASSUME NEW q \in Seq(S), NEW e \in S, q \in G PROVE Append(q, e) \in G
  BY <1>2, OnlyAppend
<1>q. QED
  <2> HIDE DEF G
  <2>1. s \in G
    BY <1>1, <1>2, SeqSetInduction
  <2>q. QED
    BY <2>1 DEF G

(* A filter that nothing passes.                                             *)
LEMMA OnlyNone ==
  ASSUME NEW S, NEW s \in Seq(S), NEW T, S \cap T = {}
  PROVE  Only(s, T) = <<>>
<1>1. Only(s, T) \in Seq({})
  BY OnlyType
<1>q. QED
  BY <1>1

(* Two filters, one after the other.                                         *)
LEMMA OnlyOnly ==
  ASSUME NEW S, NEW s \in Seq(S), NEW T, NEW U
  PROVE  Only(Only(s, T), U) = Only(s, T \cap U)
<1> DEFINE G == {q \in Seq(S) : Only(Only(q, T), U) = Only(q, T \cap U)}
<1>1. <<>> \in G
  BY OnlyEmpty
<1>2. ASSUME NEW q \in Seq(S), NEW e \in S, q \in G PROVE Append(q, e) \in G
  <2>1. Only(Append(q, e), T) = IF e \in T THEN Append(Only(q, T), e) ELSE Only(q, T)
    BY OnlyAppend
  <2>2. Only(Append(q, e), T \cap U)
          = IF e \in T \cap U THEN Append(Only(q, T \cap U), e) ELSE Only(q, T \cap U)
    BY OnlyAppend
  <2>3. Only(q, T) \in Seq(S)
    <3>1. Seq(S \cap T) \subseteq Seq(S)
      OBVIOUS
    <3>q. QED
      BY <3>1, OnlyType
  <2>4. Only(Append(Only(q, T), e), U)
          = IF e \in U THEN Append(Only(Only(q, T), U), e) ELSE Only(Only(q, T), U)
    BY <2>3, OnlyAppend
  <2>5. Only(Only(q, T), U) = Only(q, T \cap U)
    BY <1>2
  <2>6. Only(Only(Append(q, e), T), U) = Only(Append(q, e), T \cap U)
    <3>1. CASE e \in T
      <4>1. Only(Append(q, e), T) = Append(Only(q, T), e)
        BY <3>1, <2>1
      <4>2. e \in T \cap U <=> e \in U
        BY <3>1
      <4>q. QED
        BY <4>1, <4>2, <2>2, <2>4, <2>5, Zenon
    <3>2. CASE e \notin T
      BY <3>2, <2>1, <2>2, <2>5
    <3>q. QED
      BY <3>1, <3>2
  <2>7. Append(q, e) \in Seq(S)
    OBVIOUS
  <2>q. QED
    BY <2>6, <2>7
<1>q. QED
  <2> HIDE DEF G
  <2>1. s \in G
    BY <1>1, <1>2, SeqSetInduction
  <2>q. QED
    BY <2>1 DEF G

\* f places the elements of r among those of q, in their order
Places(f, r, q) ==
  /\ f \in [1 .. Len(r) -> 1 .. Len(q)]
  /\ \A k \in 1 .. Len(r) : r[k] = q[f[k]]
  /\ \A k, m \in 1 .. Len(r) : k < m => f[k] < f[m]

(* Places stay where they are when elements come at the end.                 *)
LEMMA PlacesAppend ==
  ASSUME NEW S, NEW r \in Seq(S), NEW q \in Seq(S), NEW e \in S, NEW f, Places(f, r, q)
  PROVE  /\ Places(f, r, Append(q, e))
         /\ \E g : Places(g, Append(r, e), Append(q, e))
<1> DEFINE rr == Append(r, e)
           qq == Append(q, e)
           a  == Len(r)
           b  == Len(q)
           g  == [k \in 1 .. a + 1 |-> IF k = a + 1 THEN b + 1 ELSE f[k]]
<1>1. /\ Len(rr) = a + 1 /\ Len(qq) = b + 1 /\ a \in Nat /\ b \in Nat
      /\ rr[a + 1] = e /\ qq[b + 1] = e
      /\ \A k \in 1 .. a : rr[k] = r[k]
      /\ \A k \in 1 .. b : qq[k] = q[k]
  OBVIOUS
<1>2. /\ f \in [1 .. a -> 1 .. b]
      /\ \A k \in 1 .. a : r[k] = q[f[k]]
      /\ \A k, m \in 1 .. a : k < m => f[k] < f[m]
  BY DEF Places
<1>3. Len(r) = a
  OBVIOUS
<1> HIDE DEF rr, qq, a, b
<1>4. f \in [1 .. a -> 1 .. b + 1]
  BY <1>1, <1>2
<1>5. \A k \in 1 .. a : f[k] \in 1 .. b /\ f[k] # b + 1 /\ k # a + 1
  BY <1>1, <1>2
<1>6. Places(f, r, qq)
  BY <1>1, <1>2, <1>3, <1>4, <1>5 DEF Places
<1>7. Places(g, rr, qq)
  <2>1. \A k \in 1 .. a + 1 : k # a + 1 => k \in 1 .. a /\ g[k] = f[k]
    BY <1>1
  <2>2. g[a + 1] = b + 1
    BY <1>1
  <2>3. g \in [1 .. a + 1 -> 1 .. b + 1]
    BY <1>1, <1>5
  <2> HIDE DEF g
  <2>4. \A k \in 1 .. a + 1 : rr[k] = qq[g[k]]
    BY <1>1, <1>2, <1>5, <2>1, <2>2
  <2>5. ASSUME NEW k \in 1 .. a + 1, NEW m \in 1 .. a + 1, k < m PROVE g[k] < g[m]
    <3>1. k # a + 1 /\ k \in 1 .. a
      BY <2>5, <1>1
    <3>2. CASE m = a + 1
      BY <3>1, <3>2, <1>1, <1>5, <2>1, <2>2
    <3>3. CASE m # a + 1
      BY <3>1, <3>3, <1>2, <2>1, <2>5
    <3>q. QED
      BY <3>2, <3>3
  <2>q. QED
    BY <1>1, <2>3, <2>4, <2>5 DEF Places
<1>q. QED
  <2> HIDE DEF g
  <2>q. QED
    BY <1>6, <1>7 DEF rr, qq

(* Every element that stays comes from a place of its own, in the same order.*)
LEMMA OnlyPositions ==
  ASSUME NEW S, NEW s \in Seq(S), NEW T
  PROVE  \E f : Places(f, Only(s, T), s)
<1> DEFINE G == {q \in Seq(S) : \E f : Places(f, Only(q, T), q)}
<1>1. <<>> \in G
  <2>1. Only(<<>>, T) = <<>>
    BY OnlyEmpty
  <2>2. Places([k \in 1 .. 0 |-> 0], <<>>, <<>>)
    BY DEF Places
  <2>q. QED
    BY <2>1, <2>2
<1>2. ASSUME NEW q \in Seq(S), NEW e \in S, q \in G PROVE Append(q, e) \in G
  <2>1. PICK f : Places(f, Only(q, T), q)
    BY <1>2
  <2>2. Only(q, T) \in Seq(S)
    <3>1. Seq(S \cap T) \subseteq Seq(S)
      OBVIOUS
    <3>q. QED
      BY <3>1, OnlyType
  <2>3. Only(Append(q, e), T) = IF e \in T THEN Append(Only(q, T), e) ELSE Only(q, T)
    BY OnlyAppend
  <2>4. /\ Places(f, Only(q, T), Append(q, e))
        /\ \E g : Places(g, Append(Only(q, T), e), Append(q, e))
    BY <2>1, <2>2, PlacesAppend
  <2>5. \E h : Places(h, Only(Append(q, e), T), Append(q, e))
    BY <2>3, <2>4
  <2>6. Append(q, e) \in Seq(S)
    OBVIOUS
  <2>q. QED
    BY <2>5, <2>6
<1>3. s \in G
  <2> HIDE DEF G
  <2>q. QED
    BY <1>1, <1>2, SeqSetInduction
<1>q. QED
  BY <1>3
(* Every element of the set is found again in what stays.                    *)
LEMMA OnlyElements ==
  ASSUME NEW S, NEW s \in Seq(S), NEW T, NEW k \in 1 .. Len(s), s[k] \in T
  PROVE  \E m \in 1 .. Len(Only(s, T)) : Only(s, T)[m] = s[k]
<1> DEFINE Found(q) == \A i \in 1 .. Len(q) : q[i] \in T =>
                         \E m \in 1 .. Len(Only(q, T)) : Only(q, T)[m] = q[i]
           G == {q \in Seq(S) : Found(q)}
<1>1. <<>> \in G
  OBVIOUS
<1>2. ASSUME NEW q \in Seq(S), NEW e \in S, q \in G PROVE Append(q, e) \in G
  <2> DEFINE qq == Append(q, e)
             n  == Len(q)
             r  == Only(q, T)
             rr == Only(qq, T)
  <2>1. /\ qq \in Seq(S) /\ n \in Nat /\ Len(qq) = n + 1 /\ qq[n + 1] = e
        /\ \A i \in 1 .. n : qq[i] = q[i]
    OBVIOUS
  <2>2. r \in Seq(S)
    <3>1. Seq(S \cap T) \subseteq Seq(S)
      OBVIOUS
    <3>q. QED
      BY <3>1, OnlyType
  <2>3. rr = IF e \in T THEN Append(r, e) ELSE r
    BY OnlyAppend
  <2> HIDE DEF r, rr, qq
  <2>4. ASSUME NEW i \in 1 .. n, qq[i] \in T PROVE \E m \in 1 .. Len(rr) : rr[m] = qq[i]
    <3>1. PICK m \in 1 .. Len(r) : r[m] = q[i]
      BY <1>2, <2>1, <2>4 DEF r
    <3>2. m \in 1 .. Len(rr) /\ rr[m] = r[m]
      BY <2>2, <2>3
    <3>q. QED
      BY <2>1, <3>1, <3>2
  <2>5. ASSUME e \in T PROVE \E m \in 1 .. Len(rr) : rr[m] = e
    <3>1. Len(r) + 1 \in 1 .. Len(rr) /\ rr[Len(r) + 1] = e
      BY <2>2, <2>3, <2>5
    <3>q. QED
      BY <3>1
  <2>6. \A i \in 1 .. n + 1 : i \in 1 .. n \/ i = n + 1
    BY <2>1
  <2>7. ASSUME NEW i \in 1 .. n + 1, qq[i] \in T PROVE \E m \in 1 .. Len(rr) : rr[m] = qq[i]
    BY <2>1, <2>4, <2>5, <2>6, <2>7
  <2>q. QED
    BY <2>1, <2>7 DEF qq, rr
<1>3. s \in G
  <2> HIDE DEF G
  <2>q. QED
    BY <1>1, <1>2, SeqSetInduction
<1>q. QED
  BY <1>3
=============================================================================
