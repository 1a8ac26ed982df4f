------------------------ MODULE ClientManagerProofs ------------------------
(***************************************************************************)
(* Proofs about ClientManager, for every set of replicas, every length of  *)
(* the intervals, and with or without discovery and load balancing.        *)
(***************************************************************************)
EXTENDS ClientManager, LeastNumber, SequenceTheorems, FiniteSetTheorems, TLAPS

-----------------------------------------------------------------------------
(* The loop of GetClients *)

IsKept(k, s, ready, m) ==
  k = [n \in 0..m |-> IF n = 0 THEN <<>>
                      ELSE IF s[n] \in ready THEN Append(k[n - 1], s[n]) ELSE k[n - 1]]

\* The recursive definition of Kept has a value.
LEMMA KeptExists ==
  ASSUME NEW s, NEW ready, NEW m \in Nat
  PROVE  \E k : IsKept(k, s, ready, m)
<1> DEFINE Bad == {n \in Nat : ~ \E k : IsKept(k, s, ready, n)}
<1> SUFFICES ASSUME Bad # {} PROVE FALSE
  OBVIOUS
<1>1. PICK n \in Bad : \A j \in Bad : n <= j
  <2>1. Bad \subseteq Nat
    OBVIOUS
  <2> HIDE DEF Bad
  <2> QED BY <2>1, NatMinimum
<1>2. CASE n = 0
  <2>1. IsKept([i \in 0..0 |-> <<>>], s, ready, 0)
    BY DEF IsKept
  <2> QED BY <2>1, <1>2
<1>3. CASE n # 0
  <2>1. n \in Nat /\ n - 1 \in Nat
    BY <1>3
  <2>2. PICK k : IsKept(k, s, ready, n - 1)
    BY <1>1, <2>1
  <2> DEFINE x == IF s[n] \in ready THEN Append(k[n - 1], s[n]) ELSE k[n - 1]
             K == [i \in 0..n |-> IF i = n THEN x ELSE k[i]]
  <2>3. \A i \in 0..(n - 1) :
          k[i] = IF i = 0 THEN <<>>
                 ELSE IF s[i] \in ready THEN Append(k[i - 1], s[i]) ELSE k[i - 1]
    BY <2>2 DEF IsKept
  <2>4. K[n - 1] = k[n - 1]
    BY <2>1
  <2>5. ASSUME NEW i \in 0..n
        PROVE  K[i] = IF i = 0 THEN <<>>
                      ELSE IF s[i] \in ready THEN Append(K[i - 1], s[i]) ELSE K[i - 1]
    <3>1. CASE i = n
      BY <3>1, <2>1, <2>4, <1>3
    <3>2. CASE i # n
      <4>1. i \in 0..(n - 1) /\ K[i] = k[i] /\ (i # 0 => K[i - 1] = k[i - 1])
        BY <3>2, <2>1
      <4> QED BY <4>1, <2>3
    <3> QED BY <3>1, <3>2
  <2>6. IsKept(K, s, ready, n)
    <3>1. K = [i \in 0..n |-> K[i]]
      OBVIOUS
    <3> HIDE DEF K
    <3> QED BY <3>1, <2>5 DEF IsKept
  <2> QED BY <2>6
<1> QED BY <1>2, <1>3

\* The loop does what its recursive definition says.
LEMMA KeptUnfolds ==
  ASSUME NEW s, NEW ready, Len(s) \in Nat
  PROVE  \A n \in 0..Len(s) :
           Kept(s, ready)[n] =
             IF n = 0 THEN <<>>
             ELSE IF s[n] \in ready THEN Append(Kept(s, ready)[n - 1], s[n])
             ELSE Kept(s, ready)[n - 1]
<1>1. PICK k : IsKept(k, s, ready, Len(s))
  BY KeptExists
<1>2. IsKept(Kept(s, ready), s, ready, Len(s))
  BY <1>1 DEF IsKept, Kept
<1> QED BY <1>2 DEF IsKept

\* Appending adds one element, and keeps a sequence free of repetitions.
LEMMA AppendToSet ==
  ASSUME NEW E, NEW s \in Seq(E), NEW x \in E
  PROVE  /\ Append(s, x) \in Seq(E)
         /\ ToSet(Append(s, x)) = ToSet(s) \cup {x}
         /\ IsInjective(s) /\ x \notin ToSet(s) => IsInjective(Append(s, x))
<1> DEFINE t == Append(s, x)
<1>1. /\ t \in Seq(E)
      /\ DOMAIN t = 1..(Len(s) + 1)
      /\ DOMAIN s = 1..Len(s)
      /\ Len(s) \in Nat
      /\ \A i \in 1..Len(s) : t[i] = s[i]
      /\ t[Len(s) + 1] = x
  BY AppendProperties, LenProperties
<1> HIDE DEF t
<1>2. \A i \in DOMAIN t : i \in DOMAIN s \/ i = Len(s) + 1
  BY <1>1
<1>3. ToSet(t) = ToSet(s) \cup {x}
  <2>1. ASSUME NEW y \in ToSet(t) PROVE y \in ToSet(s) \cup {x}
    BY <1>1, <1>2, <2>1 DEF ToSet
  <2>2. x \in ToSet(t)
    BY <1>1 DEF ToSet
  <2>3. ASSUME NEW y \in ToSet(s) PROVE y \in ToSet(t)
    BY <1>1, <2>3 DEF ToSet
  <2> QED BY <2>1, <2>2, <2>3
<1>4. ASSUME IsInjective(s), x \notin ToSet(s) PROVE IsInjective(t)
  BY <1>1, <1>2, <1>4 DEF IsInjective, ToSet
<1> QED BY <1>1, <1>3, <1>4 DEF t

\* The loop keeps exactly the elements that are ready, and repeats none.
LEMMA KeptElements ==
  ASSUME NEW E, NEW s \in Seq(E), NEW ready,
         NEW n \in 0..Len(s)
  PROVE  /\ Kept(s, ready)[n] \in Seq(E)
         /\ \A e : e \in ToSet(Kept(s, ready)[n]) <=>
                    \E i \in 1..n : s[i] \in ready /\ e = s[i]
         /\ IsInjective(s) => IsInjective(Kept(s, ready)[n])
<1> DEFINE k == Kept(s, ready)
           P(m) == /\ k[m] \in Seq(E)
                   /\ \A e : e \in ToSet(k[m]) <=> \E i \in 1..m : s[i] \in ready /\ e = s[i]
                   /\ IsInjective(s) => IsInjective(k[m])
           Bad == {m \in 0..Len(s) : ~ P(m)}
<1>1. Len(s) \in Nat /\ DOMAIN s = 1..Len(s) /\ \A i \in 1..Len(s) : s[i] \in E
  BY LenProperties, ElementOfSeq
<1>2. \A m \in 0..Len(s) :
        k[m] = IF m = 0 THEN <<>>
               ELSE IF s[m] \in ready THEN Append(k[m - 1], s[m]) ELSE k[m - 1]
  BY <1>1, KeptUnfolds
<1> HIDE DEF k
<1> SUFFICES ASSUME Bad # {} PROVE FALSE
  BY DEF k
<1>3. PICK m \in Bad : \A j \in Bad : m <= j
  <2>1. Bad \subseteq Nat
    BY <1>1
  <2> HIDE DEF Bad
  <2> QED BY <2>1, NatMinimum
<1>4. P(0)
  <2>1. k[0] = <<>>
    BY <1>1, <1>2
  <2> QED BY <2>1 DEF ToSet, IsInjective
<1>5. ASSUME m # 0 PROVE P(m)
  <2>1. m - 1 \in 0..Len(s) /\ m \in 1..Len(s) /\ s[m] \in E
    BY <1>1, <1>5
  <2>2. P(m - 1)
    <3>1. ~ (m <= m - 1)
      BY <1>1, <2>1
    <3> HIDE DEF P
    <3> QED BY <1>3, <2>1, <3>1
  <2>3. CASE s[m] \notin ready
    <3>1. k[m] = k[m - 1]
      BY <1>2, <2>1, <2>3, <1>5
    <3>2. \A i \in 1..m : s[i] \in ready => i \in 1..(m - 1)
      BY <2>1, <2>3, <1>1
    <3>3. 1..(m - 1) \subseteq 1..m
      BY <2>1
    <3> QED BY <2>2, <3>1, <3>2, <3>3
  <2>4. CASE s[m] \in ready
    <3>1. k[m] = Append(k[m - 1], s[m])
      BY <1>2, <2>1, <2>4, <1>5
    <3>2. 1..m = 1..(m - 1) \cup {m}
      BY <2>1, <1>1
    <3>3. IsInjective(s) => s[m] \notin ToSet(k[m - 1])
      BY <2>1, <2>2, <1>1 DEF IsInjective
    <3> HIDE DEF P
    <3>4. /\ Append(k[m - 1], s[m]) \in Seq(E)
          /\ ToSet(Append(k[m - 1], s[m])) = ToSet(k[m - 1]) \cup {s[m]}
          /\ IsInjective(k[m - 1]) /\ s[m] \notin ToSet(k[m - 1])
               => IsInjective(Append(k[m - 1], s[m]))
      BY <2>1, <2>2, AppendToSet DEF P
    <3>5. \A e : e \in ToSet(k[m]) <=> \E i \in 1..m : s[i] \in ready /\ e = s[i]
      <4>1. \A e : e \in ToSet(k[m]) <=> e \in ToSet(k[m - 1]) \/ e = s[m]
        BY <3>1, <3>4
      <4>2. \A e : e \in ToSet(k[m - 1]) <=> \E i \in 1..(m - 1) : s[i] \in ready /\ e = s[i]
        BY <2>2 DEF P
      <4> QED BY <3>2, <4>1, <4>2, <2>4
    <3> QED BY <2>2, <3>1, <3>3, <3>4, <3>5 DEF P
  <2> QED BY <2>3, <2>4
<1> QED BY <1>3, <1>4, <1>5

-----------------------------------------------------------------------------
(* The list of clients of a request *)

\* A lookup finds each replica once.
LEMMA FoundOnce ==
  ASSUME NEW found \in Found
  PROVE  found \in Seq(Replicas) /\ IsInjective(found)
<1>1. PICK S \in SUBSET Replicas : found \in SetToSeqs(S)
  BY DEF Found
<1>2. Cardinality(S) \in Nat
  BY FS_Subset, FS_CardinalityType, EndpointsAssumption
<1>3. found \in [1..Cardinality(S) -> S]
  BY <1>1 DEF SetToSeqs
<1>4. found \in Seq(Replicas)
  BY <1>2, <1>3
<1>5. IsInjective(found)
  BY <1>1, <1>2 DEF SetToSeqs, IsInjective
<1> QED BY <1>4, <1>5

\* The replicas a manager may know.
Known(replicas) == replicas = None \/ replicas \in Found

ReadyOf(replicas, delay) ==
  {e \in {Primary} \cup IF Discovery /\ replicas # None THEN ToSet(replicas) ELSE {} :
     delay[e] = 0}

\* The clients are the primary and the known replicas, each once.
LEMMA AllClientsOnce ==
  ASSUME NEW replicas, Known(replicas)
  PROVE  /\ AllClients(replicas) \in Seq(Endpoints)
         /\ IsInjective(AllClients(replicas))
         /\ ToSet(AllClients(replicas)) =
              {Primary} \cup IF Discovery /\ replicas # None THEN ToSet(replicas) ELSE {}
<1> DEFINE tail == IF Discovery /\ replicas # None THEN replicas ELSE <<>>
           all == <<Primary>> \o tail
<1>1. tail \in Seq(Replicas) /\ IsInjective(tail)
  <2>1. CASE Discovery /\ replicas # None
    BY <2>1, FoundOnce DEF Known
  <2>2. CASE ~ (Discovery /\ replicas # None)
    BY <2>2 DEF IsInjective
  <2> QED BY <2>1, <2>2
<1>2. ToSet(tail) = IF Discovery /\ replicas # None THEN ToSet(replicas) ELSE {}
  BY DEF ToSet
<1> HIDE DEF tail
<1>3. /\ DOMAIN tail = 1..Len(tail)
      /\ Len(tail) \in Nat
      /\ \A i \in 1..Len(tail) : tail[i] \in Replicas
  BY <1>1, LenProperties, ElementOfSeq
<1>4. /\ tail \in Seq(Endpoints)
      /\ <<Primary>> \in Seq(Endpoints)
      /\ Len(<<Primary>>) = 1
  BY <1>1 DEF Endpoints
<1>5. /\ all \in Seq(Endpoints)
      /\ DOMAIN all = 1..(Len(tail) + 1)
      /\ all[1] = Primary
      /\ \A i \in 2..(Len(tail) + 1) : all[i] = tail[i - 1]
  BY <1>3, <1>4, ConcatProperties, LenProperties
<1> HIDE DEF all
<1>6. IsInjective(all)
  <2> SUFFICES ASSUME NEW a \in DOMAIN all, NEW b \in DOMAIN all, all[a] = all[b]
               PROVE  a = b
    BY DEF IsInjective
  <2>1. CASE a = 1 /\ b = 1
    BY <2>1
  <2>2. CASE a = 1 /\ b # 1
    BY <2>2, <1>3, <1>5, EndpointsAssumption
  <2>3. CASE a # 1 /\ b = 1
    BY <2>3, <1>3, <1>5, EndpointsAssumption
  <2>4. CASE a # 1 /\ b # 1
    <3>1. a - 1 \in DOMAIN tail /\ b - 1 \in DOMAIN tail /\ tail[a - 1] = tail[b - 1]
      BY <2>4, <1>3, <1>5
    <3>2. a - 1 = b - 1
      BY <3>1, <1>1 DEF IsInjective
    <3> QED BY <3>2, <1>3, <1>5
  <2> QED BY <2>1, <2>2, <2>3, <2>4
<1>7. ToSet(all) = {Primary} \cup ToSet(tail)
  <2>1. ASSUME NEW x \in ToSet(all) PROVE x \in {Primary} \cup ToSet(tail)
    <3>1. PICK i \in DOMAIN all : x = all[i]
      BY DEF ToSet
    <3>2. i # 1 => i - 1 \in DOMAIN tail
      BY <1>3, <1>5
    <3> QED BY <1>3, <1>5, <3>1, <3>2 DEF ToSet
  <2>2. Primary \in ToSet(all)
    BY <1>3, <1>5 DEF ToSet
  <2>3. ASSUME NEW x \in ToSet(tail) PROVE x \in ToSet(all)
    <3>1. PICK i \in DOMAIN tail : x = tail[i]
      BY DEF ToSet
    <3>2. i + 1 \in DOMAIN all /\ all[i + 1] = x
      BY <1>3, <1>5, <3>1
    <3> QED BY <3>2 DEF ToSet
  <2> QED BY <2>1, <2>2, <2>3
<1> QED BY <1>2, <1>5, <1>6, <1>7 DEF AllClients, all, tail

\* GetClients returns every client that is not backing off, and each once.
LEMMA AvailableClients ==
  ASSUME NEW replicas, NEW delay, Known(replicas)
  PROVE  /\ Available(replicas, delay) \in Seq(Endpoints)
         /\ IsInjective(Available(replicas, delay))
         /\ ToSet(Available(replicas, delay)) = ReadyOf(replicas, delay)
<1> DEFINE all == AllClients(replicas)
           ready == {e \in Endpoints : delay[e] = 0}
           kept == Kept(all, ready)[Len(all)]
<1>1. /\ all \in Seq(Endpoints)
      /\ IsInjective(all)
      /\ ToSet(all) =
           {Primary} \cup IF Discovery /\ replicas # None THEN ToSet(replicas) ELSE {}
  BY AllClientsOnce
<1> HIDE DEF all, ready
<1>2. Len(all) \in 0..Len(all) /\ DOMAIN all = 1..Len(all)
      /\ \A i \in 1..Len(all) : all[i] \in Endpoints
  BY <1>1, LenProperties, ElementOfSeq
<1>3. kept \in Seq(Endpoints) /\ IsInjective(kept)
  BY <1>1, <1>2, KeptElements
<1>4. \A e : e \in ToSet(kept) <=> \E i \in 1..Len(all) : all[i] \in ready /\ e = all[i]
  BY <1>1, <1>2, KeptElements
<1>5. ToSet(kept) = {e \in ToSet(all) : delay[e] = 0}
  BY <1>2, <1>4 DEF ready, ToSet
<1> QED BY <1>1, <1>3, <1>5 DEF Available, ReadyOf, all, ready

-----------------------------------------------------------------------------
(* The rotation *)

\* The elements of a reversed sequence.
LEMMA ReverseElements ==
  ASSUME NEW E, NEW s \in Seq(E)
  PROVE  /\ Reverse(s) \in Seq(E)
         /\ Len(Reverse(s)) = Len(s)
         /\ \A i \in 1..Len(s) : Reverse(s)[i] = s[Len(s) - i + 1]
<1>1. Len(s) \in Nat /\ \A i \in 1..Len(s) : s[i] \in E
  BY LenProperties, ElementOfSeq
<1>2. Reverse(s) = [i \in 1..Len(s) |-> s[(Len(s) - i) + 1]]
  BY DEF Reverse
<1>3. \A i \in 1..Len(s) : s[(Len(s) - i) + 1] \in E
  BY <1>1
<1>4. Reverse(s) \in Seq(E)
  BY <1>1, <1>2, <1>3
<1> QED BY <1>1, <1>2, <1>4, LenProperties

\* Three reversals turn the slice to the left by k, at both ends of the range
\* of k too.
LEMMA RotateElements ==
  ASSUME NEW E, NEW s \in Seq(E), NEW k \in 0..Len(s)
  PROVE  /\ Rotate(s, k) \in Seq(E)
         /\ Len(Rotate(s, k)) = Len(s)
         /\ \A i \in 1..Len(s) :
              Rotate(s, k)[i] = IF i <= Len(s) - k THEN s[i + k] ELSE s[i - (Len(s) - k)]
<1> DEFINE n == Len(s)
           r == Reverse(s)
           front == SubSeq(r, 1, n - k)
           back == SubSeq(r, n - k + 1, n)
<1>1. n \in Nat /\ k \in Nat /\ k <= n
  BY LenProperties
<1>2. r \in Seq(E) /\ Len(r) = n /\ \A i \in 1..n : r[i] = s[n - i + 1]
  BY ReverseElements
<1> HIDE DEF n, r
<1>3. /\ front \in Seq(E)
      /\ Len(front) = n - k
      /\ \A i \in 1..(n - k) : front[i] = r[i]
  BY <1>1, <1>2, SubSeqProperties
<1>4. /\ back \in Seq(E)
      /\ Len(back) = k
      /\ \A i \in 1..k : back[i] = r[n - k + i]
  BY <1>1, <1>2, SubSeqProperties
<1> HIDE DEF front, back
<1>5. /\ Reverse(front) \in Seq(E)
      /\ Len(Reverse(front)) = n - k
      /\ \A i \in 1..(n - k) : Reverse(front)[i] = s[i + k]
  <2>1. /\ Reverse(front) \in Seq(E)
        /\ Len(Reverse(front)) = n - k
        /\ \A i \in 1..(n - k) : Reverse(front)[i] = front[n - k - i + 1]
    BY <1>3, ReverseElements
  <2>2. ASSUME NEW i \in 1..(n - k) PROVE front[n - k - i + 1] = s[i + k]
    <3>1. n - k - i + 1 \in 1..(n - k) /\ n - k - i + 1 \in 1..n
      BY <1>1
    <3>2. n - (n - k - i + 1) + 1 = i + k
      BY <1>1
    <3> QED BY <1>2, <1>3, <3>1, <3>2
  <2> QED BY <2>1, <2>2
<1>6. /\ Reverse(back) \in Seq(E)
      /\ Len(Reverse(back)) = k
      /\ \A i \in 1..k : Reverse(back)[i] = s[i]
  <2>1. /\ Reverse(back) \in Seq(E)
        /\ Len(Reverse(back)) = k
        /\ \A i \in 1..k : Reverse(back)[i] = back[k - i + 1]
    BY <1>4, ReverseElements
  <2>2. ASSUME NEW i \in 1..k PROVE back[k - i + 1] = s[i]
    <3>1. k - i + 1 \in 1..k /\ n - k + (k - i + 1) \in 1..n
      BY <1>1
    <3>2. n - (n - k + (k - i + 1)) + 1 = i
      BY <1>1
    <3> QED BY <1>2, <1>4, <3>1, <3>2
  <2> QED BY <2>1, <2>2
<1>7. Rotate(s, k) = Reverse(front) \o Reverse(back)
  BY DEF Rotate, front, back, r, n
<1>8. /\ Rotate(s, k) \in Seq(E)
      /\ Len(Rotate(s, k)) = n
      /\ \A i \in 1..n :
           Rotate(s, k)[i] = IF i <= n - k THEN Reverse(front)[i] ELSE Reverse(back)[i - (n - k)]
  BY <1>1, <1>5, <1>6, <1>7, ConcatProperties
<1>9. ASSUME NEW i \in 1..n
      PROVE  Rotate(s, k)[i] = IF i <= n - k THEN s[i + k] ELSE s[i - (n - k)]
  BY <1>1, <1>5, <1>6, <1>8
<1> QED BY <1>8, <1>9 DEF n

\* Rotating keeps the elements and repeats none.
LEMMA RotateOnce ==
  ASSUME NEW E, NEW s \in Seq(E), NEW k \in 0..Len(s), IsInjective(s)
  PROVE  IsInjective(Rotate(s, k)) /\ ToSet(Rotate(s, k)) = ToSet(s)
<1> DEFINE n == Len(s)
           t == Rotate(s, k)
<1>1. n \in Nat /\ k \in 0..n /\ DOMAIN s = 1..n
  BY LenProperties
<1>2. DOMAIN t = 1..n
  BY RotateElements, LenProperties
<1>3. \A i \in 1..n : t[i] = IF i <= n - k THEN s[i + k] ELSE s[i - (n - k)]
  BY RotateElements
<1> HIDE DEF n, t
<1>4. IsInjective(t)
  <2> SUFFICES ASSUME NEW a \in 1..n, NEW b \in 1..n, t[a] = t[b] PROVE a = b
    BY <1>2 DEF IsInjective
  <2> DEFINE from(i) == IF i <= n - k THEN i + k ELSE i - (n - k)
  <2>1. from(a) \in 1..n /\ from(b) \in 1..n
    BY <1>1
  <2>2. s[from(a)] = s[from(b)]
    BY <1>3
  <2>3. from(a) = from(b)
    <3> HIDE DEF from
    <3> QED BY <2>1, <2>2, <1>1 DEF IsInjective
  <2> QED BY <2>3, <1>1
<1>5. ASSUME NEW x \in ToSet(t) PROVE x \in ToSet(s)
  <2>1. PICK i \in 1..n : x = t[i]
    BY <1>2 DEF ToSet
  <2>2. PICK j \in 1..n : x = s[j]
    <3>1. CASE i <= n - k
      <4>1. i + k \in 1..n /\ t[i] = s[i + k]
        BY <1>1, <1>3, <3>1
      <4> QED BY <2>1, <4>1
    <3>2. CASE ~ (i <= n - k)
      <4>1. i - (n - k) \in 1..n /\ t[i] = s[i - (n - k)]
        BY <1>1, <1>3, <3>2
      <4> QED BY <2>1, <4>1
    <3> QED BY <3>1, <3>2
  <2> QED BY <1>1, <2>2 DEF ToSet
<1>6. ASSUME NEW x \in ToSet(s) PROVE x \in ToSet(t)
  <2>1. PICK i \in 1..n : x = s[i]
    BY <1>1 DEF ToSet
  <2>2. CASE i > k
    <3>1. i - k \in 1..n /\ i - k <= n - k /\ (i - k) + k = i
      BY <1>1, <2>2
    <3>2. t[i - k] = x
      BY <1>3, <2>1, <3>1
    <3> QED BY <1>2, <3>1, <3>2 DEF ToSet
  <2>3. CASE i <= k
    <3> DEFINE j == i + (n - k)
    <3>1. j \in 1..n /\ ~ (j <= n - k) /\ j - (n - k) = i
      BY <1>1, <2>3
    <3> HIDE DEF j
    <3>2. t[j] = x
      BY <1>3, <2>1, <3>1
    <3> QED BY <1>2, <3>1, <3>2 DEF ToSet
  <2> QED BY <1>1, <2>2, <2>3
<1> QED BY <1>4, <1>5, <1>6 DEF t

\* The order of a request has the clients that are available, each of them once,
\* and with load balancing it does not begin with the one that answered last.
LEMMA OrderElements ==
  ASSUME NEW clients \in Seq(Endpoints), IsInjective(clients),
         lastOk \in Endpoints \cup {None}
  PROVE  /\ Order(clients) \in Seq(Endpoints)
         /\ IsInjective(Order(clients))
         /\ ToSet(Order(clients)) = ToSet(clients)
         /\ LoadBalancing /\ Len(Order(clients)) > 1 => Head(Order(clients)) # lastOk
<1> DEFINE n == Len(clients)
           position == {i \in 1..n : clients[i] = lastOk}
           next == IF position = {} THEN n ELSE Min(position)
           turned == LoadBalancing /\ lastOk # None /\ n > 1 /\ next < n
<1>1. n \in Nat /\ DOMAIN clients = 1..n /\ \A i \in 1..n : clients[i] \in Endpoints
  BY LenProperties, ElementOfSeq
<1>2. Order(clients) = IF turned THEN Rotate(clients, next) ELSE clients
  BY DEF Order
<1>3. position # {} => position = {next} /\ next \in 1..n
  <2> SUFFICES ASSUME position # {} PROVE position = {next} /\ next \in 1..n
    OBVIOUS
  <2>1. PICK i \in position : TRUE
    OBVIOUS
  <2>2. position = {i}
    BY <1>1, <2>1 DEF IsInjective
  <2>3. Min({i}) = i
    BY <1>1, <2>1 DEF Min
  <2> QED BY <2>1, <2>2, <2>3
<1> HIDE DEF n, position, next
<1>4. CASE turned
  <2>1. next \in 0..n /\ next < n /\ position # {} /\ n > 1
    BY <1>1, <1>3, <1>4 DEF next
  <2>2. Order(clients) = Rotate(clients, next)
    BY <1>2, <1>4
  <2>3. /\ Rotate(clients, next) \in Seq(Endpoints)
        /\ Len(Rotate(clients, next)) = n
        /\ \A i \in 1..n : Rotate(clients, next)[i] =
             IF i <= n - next THEN clients[i + next] ELSE clients[i - (n - next)]
    BY <2>1, RotateElements DEF n
  <2>4. IsInjective(Rotate(clients, next)) /\ ToSet(Rotate(clients, next)) = ToSet(clients)
    BY <2>1, RotateOnce DEF n
  <2>5. Head(Rotate(clients, next)) = clients[next + 1]
    <3>1. 1 \in 1..n /\ 1 <= n - next /\ 1 + next = next + 1
      BY <1>1, <2>1
    <3>2. Rotate(clients, next)[1] = clients[next + 1]
      BY <2>3, <3>1
    <3>3. Rotate(clients, next) # <<>>
      BY <2>1, <2>3
    <3> QED BY <2>3, <3>2, <3>3, HeadTailProperties
  <2>6. clients[next + 1] # lastOk
    <3>1. next + 1 \in 1..n /\ next + 1 # next
      BY <1>1, <2>1
    <3>2. next + 1 \notin position
      BY <1>3, <2>1, <3>1
    <3> QED BY <3>1, <3>2 DEF position
  <2> QED BY <2>2, <2>3, <2>4, <2>5, <2>6
<1>5. CASE ~ turned
  <2>1. Order(clients) = clients
    BY <1>2, <1>5
  <2>2. ASSUME LoadBalancing, n > 1 PROVE Head(clients) # lastOk
    <3>1. clients # <<>> /\ Head(clients) = clients[1] /\ 1 \in 1..n
      BY <1>1, <2>2, HeadTailProperties DEF n
    <3>2. CASE lastOk = None
      BY <1>1, <3>1, <3>2, EndpointsAssumption
    <3>3. CASE lastOk # None
      <4>1. ~ (next < n)
        BY <1>5, <2>2, <3>3
      <4>2. position # {} => next # 1
        BY <1>1, <1>3, <2>2, <4>1
      <4>3. 1 \notin position
        BY <1>3, <4>2
      <4> QED BY <3>1, <4>3 DEF position
    <3> QED BY <3>2, <3>3
  <2> QED BY <2>1, <2>2 DEF n
<1> QED BY <1>4, <1>5

-----------------------------------------------------------------------------
(* Types and back-off *)

Delays == 0..(MaxBackoff + MaxBackoff \div 4)

\* A back-off lasts at least one unit of time and stays within its bound.
LEMMA BackoffPositive ==
  ASSUME NEW attempts \in 1..MaxFails, NEW d \in BackoffDurations(attempts)
  PROVE  d \in Delays /\ d > 0
<1> USE IntervalsAssumption
<1>1. CASE attempts <= 1
  BY <1>1 DEF BackoffDurations, Delays
<1>2. CASE ~ (attempts <= 1)
  <2> DEFINE grown == MinBackoff * 2^(attempts - 1)
             m == IF grown > MaxBackoff \/ grown <= 0 THEN MaxBackoff ELSE grown
  <2>1. grown \in Int
    BY <1>2
  <2> HIDE DEF grown
  <2>2. m \in 1..MaxBackoff
    BY <2>1
  <2>3. BackoffDurations(attempts) = (m - m \div 4) .. (m + m \div 4)
    BY <1>2 DEF BackoffDurations, grown
  <2> HIDE DEF m
  <2> QED BY <2>2, <2>3 DEF Delays
<1> QED BY <1>1, <1>2

\* A failure gives its client, and no other, a backoff.
LEMMA FailedType ==
  ASSUME TypeOK, NEW e \in Endpoints, Failed(e)
  PROVE  /\ backoff' \in [Endpoints -> Delays]
         /\ fails' \in [Endpoints -> -1..MaxFails]
         /\ backoff'[e] > 0
         /\ \A f \in Endpoints \ {e} : backoff'[f] = backoff[f]
<1> DEFINE attempts == Smaller((IF fails[e] < 0 THEN 0 ELSE fails[e]) + 1, MaxFails)
<1>1. attempts \in 1..MaxFails
  BY IntervalsAssumption DEF TypeOK, Smaller
<1>2. fails' = [fails EXCEPT ![e] = attempts]
      /\ \E d \in BackoffDurations(attempts) : backoff' = [backoff EXCEPT ![e] = d]
  BY DEF Failed
<1> HIDE DEF attempts
<1>3. PICK d \in BackoffDurations(attempts) : backoff' = [backoff EXCEPT ![e] = d]
  BY <1>2
<1>4. d \in Delays /\ d > 0
  BY <1>1, BackoffPositive
<1> QED BY <1>1, <1>2, <1>3, <1>4 DEF TypeOK, Delays

\* A lookup ends the back-off of replicas and starts none.
LEMMA DiscoverType ==
  ASSUME TypeOK, DiscoverFallbackClients
  PROVE  /\ backoff' \in [Endpoints -> Delays]
         /\ fails' \in [Endpoints -> -1..MaxFails]
         /\ Known(dynamic')
         /\ sinceAttempt' \in 0..RefreshInterval
         /\ sinceRefresh' \in 0..Expiry
         /\ \A e \in Endpoints : backoff[e] = 0 => backoff'[e] = 0
<1> USE IntervalsAssumption DEF TypeOK, Delays, Known
<1>1. CASE UNCHANGED <<backoff, fails, dynamic, sinceRefresh>>
  BY <1>1 DEF DiscoverFallbackClients
<1>2. CASE \E found \in Found :
             /\ dynamic' = found
             /\ sinceRefresh' = 0
             /\ backoff' = [e \in Endpoints |-> IF e = Primary THEN backoff[e] ELSE 0]
             /\ fails' = [e \in Endpoints |-> IF e = Primary THEN fails[e] ELSE 0]
  BY <1>2 DEF DiscoverFallbackClients
<1> QED BY <1>1, <1>2 DEF DiscoverFallbackClients

\* RefreshClients ends no backoff early, and looks up only when its interval has passed.
LEMMA RefreshClientsType ==
  ASSUME TypeOK, RefreshClients
  PROVE  /\ backoff' \in [Endpoints -> Delays]
         /\ fails' \in [Endpoints -> -1..MaxFails]
         /\ Known(dynamic')
         /\ sinceAttempt' \in 0..RefreshInterval
         /\ sinceRefresh' \in 0..Expiry
         /\ \A e \in Endpoints : backoff[e] = 0 => backoff'[e] = 0
         /\ sinceAttempt' # sinceAttempt => sinceAttempt = RefreshInterval
<1>1. CASE Discovery /\ sinceAttempt >= RefreshInterval
  BY <1>1, DiscoverType, IntervalsAssumption DEF RefreshClients, TypeOK
<1>2. CASE ~ (Discovery /\ sinceAttempt >= RefreshInterval)
  BY <1>2 DEF RefreshClients, TypeOK, Known, Delays
<1> QED BY <1>1, <1>2

\* A request starts with all the clients that are ready, and each once.
LEMMA StartRequestClients ==
  ASSUME TypeOK, StartRequest
  PROVE  /\ backoff' \in [Endpoints -> Delays]
         /\ fails' \in [Endpoints -> -1..MaxFails]
         /\ Known(dynamic')
         /\ sinceAttempt' \in 0..RefreshInterval
         /\ sinceRefresh' \in 0..Expiry
         /\ sinceAttempt' # sinceAttempt => sinceAttempt = RefreshInterval
         /\ calls' \in Seq(Endpoints) /\ IsInjective(calls')
         /\ ToSet(calls') = ReadyOf(dynamic', backoff')
         /\ LoadBalancing /\ Len(calls') > 1 => Head(calls') # lastOk
<1>1. /\ backoff' \in [Endpoints -> Delays]
      /\ fails' \in [Endpoints -> -1..MaxFails]
      /\ Known(dynamic')
      /\ sinceAttempt' \in 0..RefreshInterval
      /\ sinceRefresh' \in 0..Expiry
      /\ sinceAttempt' # sinceAttempt => sinceAttempt = RefreshInterval
  <2>1. CASE DiscoveryDue
    BY <2>1, DiscoverType, IntervalsAssumption DEF StartRequest, DiscoveryDue, TypeOK
  <2>2. CASE ~ DiscoveryDue
    BY <2>2 DEF StartRequest, TypeOK, Known, Delays
  <2> QED BY <2>1, <2>2
<1> DEFINE clients == Available(dynamic', backoff')
<1>2. calls' = Order(clients)
  BY DEF StartRequest
<1>3. /\ clients \in Seq(Endpoints)
      /\ IsInjective(clients)
      /\ ToSet(clients) = ReadyOf(dynamic', backoff')
  BY <1>1, AvailableClients
<1> HIDE DEF clients
<1>4. lastOk \in Endpoints \cup {None}
  BY DEF TypeOK
<1>5. /\ calls' \in Seq(Endpoints)
      /\ IsInjective(calls')
      /\ ToSet(calls') = ToSet(clients)
      /\ LoadBalancing /\ Len(calls') > 1 => Head(calls') # lastOk
  BY <1>2, <1>3, <1>4, OrderElements
<1> QED BY <1>1, <1>3, <1>5

\* The rest of the clients of a request, once the first has been called.
LEMMA TailOnce ==
  ASSUME NEW s \in Seq(Endpoints), s # <<>>, IsInjective(s)
  PROVE  /\ Head(s) \in Endpoints /\ Head(s) \in ToSet(s)
         /\ Tail(s) \in Seq(Endpoints)
         /\ IsInjective(Tail(s))
         /\ ToSet(Tail(s)) = ToSet(s) \ {Head(s)}
<1>1. /\ Len(s) \in Nat /\ Len(s) > 0 /\ DOMAIN s = 1..Len(s)
      /\ \A i \in 1..Len(s) : s[i] \in Endpoints
  BY LenProperties, ElementOfSeq, EmptySeq
<1>2. /\ Head(s) = s[1]
      /\ Tail(s) \in Seq(Endpoints)
      /\ DOMAIN Tail(s) = 1..(Len(s) - 1)
      /\ \A i \in 1..(Len(s) - 1) : Tail(s)[i] = s[i + 1]
  BY <1>1, HeadTailProperties, LenProperties
<1> DEFINE t == Tail(s)
<1> HIDE DEF t
<1>3. IsInjective(t)
  <2> SUFFICES ASSUME NEW a \in 1..(Len(s) - 1), NEW b \in 1..(Len(s) - 1), t[a] = t[b]
               PROVE  a = b
    BY <1>2 DEF IsInjective, t
  <2>1. a + 1 \in 1..Len(s) /\ b + 1 \in 1..Len(s) /\ s[a + 1] = s[b + 1]
    BY <1>1, <1>2 DEF t
  <2>2. a + 1 = b + 1
    BY <1>1, <2>1 DEF IsInjective
  <2> QED BY <2>2
<1>4. ASSUME NEW x \in ToSet(t) PROVE x \in ToSet(s) /\ x # s[1]
  <2>1. PICK a \in 1..(Len(s) - 1) : x = s[a + 1]
    BY <1>2 DEF ToSet, t
  <2>2. a + 1 \in 1..Len(s) /\ 1 \in 1..Len(s) /\ a + 1 # 1
    BY <1>1
  <2> QED BY <1>1, <2>1, <2>2 DEF ToSet, IsInjective
<1>5. ASSUME NEW x \in ToSet(s), x # s[1] PROVE x \in ToSet(t)
  <2>1. PICK a \in 1..Len(s) : x = s[a]
    BY <1>1 DEF ToSet
  <2>2. a - 1 \in 1..(Len(s) - 1) /\ (a - 1) + 1 = a
    BY <1>1, <1>5, <2>1
  <2>3. t[a - 1] = x
    BY <1>2, <2>1, <2>2 DEF t
  <2> QED BY <1>2, <2>2, <2>3 DEF ToSet, t
<1>6. s[1] \in ToSet(s) /\ s[1] \in Endpoints
  BY <1>1 DEF ToSet
<1> QED BY <1>2, <1>3, <1>4, <1>5, <1>6 DEF t

\* The clients a request still has to call are ready.
LEMMA HonouredMeansReady ==
  ASSUME NEW s \in Seq(Endpoints), NEW delay
  PROVE  (\A i \in 1..Len(s) : delay[s[i]] = 0) <=> \A e \in ToSet(s) : delay[e] = 0
BY LenProperties DEF ToSet

Inv == TypeOK /\ BackoffHonoured

\* The inductive invariant holds in the beginning.
LEMMA InitInv == Init => Inv
<1> SUFFICES ASSUME Init PROVE Inv
  OBVIOUS
<1>1. calls \in Seq(Endpoints) /\ IsInjective(calls) /\ Len(calls) = 0
  BY DEF Init, IsInjective
<1> QED BY <1>1, IntervalsAssumption DEF Init, Inv, TypeOK, BackoffHonoured

\* A request starts with clients that are not backing off.
LEMMA StartRequestInv == Inv /\ StartRequest => Inv'
<1> SUFFICES ASSUME Inv, StartRequest PROVE Inv'
  OBVIOUS
<1>1. TypeOK'
  BY StartRequestClients DEF Inv, TypeOK, StartRequest, Known, Delays
<1>2. BackoffHonoured'
  <2>1. calls' \in Seq(Endpoints) /\ \A e \in ToSet(calls') : backoff'[e] = 0
    BY StartRequestClients DEF Inv, ReadyOf
  <2> QED BY <2>1, HonouredMeansReady DEF BackoffHonoured
<1> QED BY <1>1, <1>2 DEF Inv

\* A step that starts no back-off and leaves the calls alone keeps BackoffHonoured.
LEMMA HonouredKept ==
  ASSUME Inv, UNCHANGED calls, \A e \in Endpoints : backoff[e] = 0 => backoff'[e] = 0
  PROVE  BackoffHonoured'
<1>1. calls \in Seq(Endpoints) /\ \A i \in 1..Len(calls) : calls[i] \in Endpoints
  BY ElementOfSeq DEF Inv, TypeOK
<1> QED BY <1>1 DEF Inv, BackoffHonoured

\* A success ends the request and the backoff of its client.
LEMMA CallSucceedsInv == Inv /\ CallSucceeds => Inv'
<1> SUFFICES ASSUME Inv, CallSucceeds PROVE Inv'
  OBVIOUS
<1>1. Head(calls) \in Endpoints
  BY TailOnce DEF Inv, TypeOK, CallSucceeds
<1>2. calls' = <<>> /\ calls' \in Seq(Endpoints) /\ IsInjective(calls') /\ Len(calls') = 0
  BY DEF CallSucceeds, IsInjective
<1>3. backoff' \in [Endpoints -> Delays] /\ fails' \in [Endpoints -> -1..MaxFails]
  BY <1>1, IntervalsAssumption DEF Inv, TypeOK, CallSucceeds, Succeeded, Delays
<1>4. TypeOK'
  BY <1>1, <1>2, <1>3 DEF Inv, TypeOK, CallSucceeds, Delays
<1>5. BackoffHonoured'
  BY <1>2 DEF BackoffHonoured
<1> QED BY <1>4, <1>5 DEF Inv

\* A failure backs its client off, and the request goes on with the others.
LEMMA CallFailsInv == Inv /\ CallFails => Inv'
<1> SUFFICES ASSUME Inv, CallFails PROVE Inv'
  OBVIOUS
<1>1. /\ Head(calls) \in Endpoints
      /\ Tail(calls) \in Seq(Endpoints)
      /\ IsInjective(Tail(calls))
      /\ ToSet(Tail(calls)) = ToSet(calls) \ {Head(calls)}
  BY TailOnce DEF Inv, TypeOK, CallFails
<1>2. /\ backoff' \in [Endpoints -> Delays]
      /\ fails' \in [Endpoints -> -1..MaxFails]
      /\ \A f \in Endpoints \ {Head(calls)} : backoff'[f] = backoff[f]
  BY <1>1, FailedType DEF Inv, CallFails
<1>3. /\ calls' \in Seq(Endpoints) /\ IsInjective(calls')
      /\ ToSet(calls') \subseteq ToSet(calls) \ {Head(calls)}
  <2>1. CASE calls' = Tail(calls)
    BY <1>1, <2>1
  <2>2. CASE calls' = <<>>
    BY <2>2 DEF IsInjective, ToSet
  <2> QED BY <2>1, <2>2 DEF CallFails
<1>4. TypeOK'
  <2>1. failures' \in 0..MaxFailures
    BY IntervalsAssumption DEF Inv, TypeOK, CallFails
  <2>2. result' \in {"idle", "pending", "ok", "fatal", "exhausted"}
    BY DEF Inv, TypeOK, CallFails
  <2> QED BY <1>2, <1>3, <2>1, <2>2 DEF Inv, TypeOK, CallFails, Delays
<1>5. BackoffHonoured'
  <2>1. \A e \in ToSet(calls) : backoff[e] = 0
    BY HonouredMeansReady DEF Inv, BackoffHonoured, TypeOK
  <2>2. \A e \in ToSet(calls) : e \in Endpoints
    BY LenProperties, ElementOfSeq DEF Inv, TypeOK, ToSet
  <2>3. \A e \in ToSet(calls') : backoff'[e] = 0
    BY <1>2, <1>3, <2>1, <2>2
  <2> QED BY <1>3, <2>3, HonouredMeansReady DEF BackoffHonoured
<1> QED BY <1>4, <1>5 DEF Inv

\* A request whose clients all failed ends.
LEMMA AllFailedInv == Inv /\ AllFailed => Inv'
<1> SUFFICES ASSUME Inv, AllFailed PROVE Inv'
  OBVIOUS
<1>1. TypeOK'
  BY RefreshClientsType DEF AllFailed, Inv, TypeOK, Known, Delays
<1>2. BackoffHonoured'
  BY RefreshClientsType, HonouredKept DEF AllFailed, Inv
<1> QED BY <1>1, <1>2 DEF Inv

\* Time shortens backoffs.
LEMMA TickInv == Inv /\ Tick => Inv'
<1> SUFFICES ASSUME Inv, Tick PROVE Inv'
  OBVIOUS
<1>1. /\ backoff' \in [Endpoints -> Delays]
      /\ \A e \in Endpoints : backoff[e] = 0 => backoff'[e] = 0
  BY IntervalsAssumption DEF Tick, Inv, TypeOK, Delays
<1>2. sinceAttempt' \in 0..RefreshInterval /\ sinceRefresh' \in 0..Expiry
  BY IntervalsAssumption DEF Tick, Inv, TypeOK, Smaller
<1>3. TypeOK'
  BY <1>1, <1>2 DEF Tick, Inv, TypeOK, Delays
<1>4. BackoffHonoured'
  BY <1>1, HonouredKept DEF Tick
<1> QED BY <1>3, <1>4 DEF Inv

\* Every step keeps the inductive invariant.
LEMMA NextInv == Inv /\ [Next]_vars => Inv'
<1>1. Inv /\ UNCHANGED vars => Inv'
  BY DEF Inv, TypeOK, BackoffHonoured, vars, manager
<1> QED BY <1>1, StartRequestInv, CallSucceedsInv, CallFailsInv, AllFailedInv,
        TickInv DEF Next

\* The inductive invariant always holds.
LEMMA SpecInv == Spec => []Inv
BY InitInv, NextInv, PTL DEF Spec

\* The variables stay in their types: in particular the list of clients of a
\* request never repeats one, whatever the lookups found and however it is turned.
THEOREM TypeCorrect == Spec => []TypeOK
<1>1. Inv => TypeOK
  BY DEF Inv
<1> QED BY <1>1, SpecInv, PTL

\* No request calls a client that is backing off, for every list of replicas.
THEOREM BackoffIsHonoured == Spec => []BackoffHonoured
<1>1. Inv => BackoffHonoured
  BY DEF Inv
<1> QED BY <1>1, SpecInv, PTL

-----------------------------------------------------------------------------
(* What a step may never do *)

\* Only a lookup whose interval has passed starts the interval anew.
LEMMA LookupsSpacedStep ==
  Inv /\ [Next]_vars => (sinceAttempt' < sinceAttempt => sinceAttempt = RefreshInterval)
<1> SUFFICES ASSUME Inv, [Next]_vars, sinceAttempt' < sinceAttempt
             PROVE  sinceAttempt = RefreshInterval
  OBVIOUS
<1>0. sinceAttempt \in Nat /\ sinceAttempt' # sinceAttempt
  BY DEF Inv, TypeOK
<1>1. CASE StartRequest
  BY <1>0, <1>1, StartRequestClients DEF Inv
<1>3. CASE CallSucceeds \/ CallFails
  BY <1>0, <1>3 DEF CallSucceeds, CallFails
<1>4. CASE AllFailed
  BY <1>0, <1>4, RefreshClientsType DEF AllFailed, Inv
<1>5. CASE Tick
  BY <1>5, IntervalsAssumption DEF Tick, Smaller, Inv, TypeOK
<1>6. CASE UNCHANGED vars
  BY <1>0, <1>6 DEF vars, manager
<1> QED BY <1>1, <1>3, <1>4, <1>5, <1>6 DEF Next

\* Lookups are at least RefreshInterval apart, for every length of the intervals.
THEOREM LookupsAreSpaced == Spec => LookupsSpaced
<1>1. Inv /\ [Next]_vars
        => [sinceAttempt' < sinceAttempt => sinceAttempt = RefreshInterval]_vars
  BY LookupsSpacedStep
<1> QED BY <1>1, SpecInv, PTL DEF Spec, LookupsSpaced

\* Only StartRequest starts a request, and it orders the clients.
LEMMA LoadSpreadStep ==
  Inv /\ [Next]_vars =>
    (LoadBalancing /\ result # "pending" /\ result' = "pending" /\ Len(calls') > 1
       => Head(calls') # lastOk)
<1> SUFFICES ASSUME Inv, [Next]_vars, result # "pending", result' = "pending"
             PROVE  LoadBalancing /\ Len(calls') > 1 => Head(calls') # lastOk
  OBVIOUS
<1>1. StartRequest
  BY DEF Next, CallSucceeds, CallFails, AllFailed, Tick, vars
<1> QED BY <1>1, StartRequestClients DEF Inv

\* With load balancing no request that has a choice starts with the client that
\* answered last, wherever that client is in the list, or if it is not in it.
THEOREM LoadIsSpread == Spec => LoadSpread
<1>1. Inv /\ [Next]_vars
        => [LoadBalancing /\ result # "pending" /\ result' = "pending" /\ Len(calls') > 1
              => Head(calls') # lastOk]_vars
  BY LoadSpreadStep
<1> QED BY <1>1, SpecInv, PTL DEF Spec, LoadSpread

-----------------------------------------------------------------------------
(* The refinement of FailoverPolicy *)

\* The refinement mapping names the clients that are not backing off.
LEMMA ReadyIs == Ready = ReadyOf(dynamic, backoff)
BY DEF Ready, ReadyOf

\* Clients that are ready are endpoints.
LEMMA ReadyEndpoints ==
  ASSUME NEW replicas, NEW delay, Known(replicas)
  PROVE  ReadyOf(replicas, delay) \in SUBSET Endpoints
<1>1. Available(replicas, delay) \in Seq(Endpoints)
      /\ ToSet(Available(replicas, delay)) = ReadyOf(replicas, delay)
  BY AvailableClients
<1> QED BY <1>1, LenProperties, ElementOfSeq DEF ToSet

\* The initial states are those of the policy.
LEMMA InitPolicy == Init => Policy!Init
<1> SUFFICES ASSUME Init PROVE Policy!Init
  OBVIOUS
<1>1. Known(dynamic)
  BY DEF Init, Known
<1>2. Ready \in SUBSET Endpoints
  BY <1>1, ReadyIs, ReadyEndpoints
<1>3. ToSet(calls) = {}
  BY DEF Init, ToSet
<1> QED BY <1>2, <1>3 DEF Init, Policy!Init

\* A request starts with ready clients.
LEMMA StartRequestPolicy == Inv /\ StartRequest => Policy!Start
<1> SUFFICES ASSUME Inv, StartRequest PROVE Policy!Start
  OBVIOUS
<1>1. Ready' = ReadyOf(dynamic', backoff')
  BY DEF Ready, ReadyOf
<1>2. Ready' \in SUBSET Endpoints
  BY <1>1, ReadyEndpoints, StartRequestClients DEF Inv
<1>3. ToSet(calls') = Ready'
  BY <1>1, StartRequestClients DEF Inv
<1> QED BY <1>2, <1>3 DEF Policy!Start, StartRequest

\* A client answers.
LEMMA CallSucceedsPolicy == Inv /\ CallSucceeds => Policy!Answered(Head(calls))
<1> SUFFICES ASSUME Inv, CallSucceeds PROVE Policy!Answered(Head(calls))
  OBVIOUS
<1>1. Head(calls) \in Endpoints /\ Head(calls) \in ToSet(calls)
  BY TailOnce DEF Inv, TypeOK, CallSucceeds
<1>2. backoff[Head(calls)] = 0
  BY <1>1, HonouredMeansReady DEF Inv, TypeOK, BackoffHonoured
<1>3. backoff' = backoff
  BY <1>1, <1>2 DEF CallSucceeds, Succeeded, Inv, TypeOK
<1>4. Ready' = Ready
  BY <1>3 DEF Ready, CallSucceeds
<1>5. ToSet(calls') = {}
  BY DEF CallSucceeds, ToSet
<1> QED BY <1>1, <1>4, <1>5 DEF Policy!Answered, CallSucceeds

\* A client refuses the request, or the next one is asked.
LEMMA CallFailsPolicy ==
  Inv /\ CallFails => Policy!Refused(Head(calls)) \/ Policy!FailedOver(Head(calls))
<1> SUFFICES ASSUME Inv, CallFails
             PROVE  Policy!Refused(Head(calls)) \/ Policy!FailedOver(Head(calls))
  OBVIOUS
<1> DEFINE e == Head(calls)
<1>1. e \in Endpoints /\ e \in ToSet(calls) /\ ToSet(Tail(calls)) = ToSet(calls) \ {e}
  BY TailOnce DEF Inv, TypeOK, CallFails
<1>2. backoff'[e] > 0 /\ \A f \in Endpoints \ {e} : backoff'[f] = backoff[f]
  BY <1>1, FailedType DEF Inv, CallFails
<1> HIDE DEF e
<1>3. Ready \in SUBSET Endpoints /\ Ready' \in SUBSET Endpoints
  <2>1. Known(dynamic) /\ Known(dynamic') /\ Ready' = ReadyOf(dynamic', backoff')
    BY DEF Inv, TypeOK, Known, CallFails, Ready, ReadyOf
  <2> QED BY <2>1, ReadyIs, ReadyEndpoints
<1>4. Ready' = Ready \ {e}
  <2>1. \A f \in Endpoints : f \in Ready' <=> f \in Ready /\ f # e
    <3>1. \A f \in Endpoints \ {e} : f \in Ready' <=> f \in Ready
      BY <1>2 DEF Ready, CallFails
    <3>2. e \notin Ready'
      BY <1>2 DEF Ready
    <3> QED BY <3>1, <3>2
  <2> QED BY <1>3, <2>1
<1>5. CASE calls' = Tail(calls) /\ UNCHANGED result
  BY <1>1, <1>4, <1>5 DEF Policy!FailedOver, CallFails, e
<1>6. CASE calls' = <<>> /\ result' = "fatal"
  <2>1. ToSet(calls') = {}
    BY <1>6 DEF ToSet
  <2> QED BY <1>1, <1>4, <1>6, <2>1 DEF Policy!Refused, CallFails, e
<1> QED BY <1>5, <1>6 DEF CallFails

\* The request gives up after all its clients.
LEMMA AllFailedPolicy == Inv /\ AllFailed => Policy!GiveUp
<1> SUFFICES ASSUME Inv, AllFailed PROVE Policy!GiveUp
  OBVIOUS
<1>1. Ready' = ReadyOf(dynamic', backoff') /\ Known(dynamic')
  BY AllFailedInv DEF Ready, ReadyOf, Inv, TypeOK, Known
<1>2. Ready' \in SUBSET Endpoints
  BY <1>1, ReadyEndpoints
<1>3. ToSet(calls) = {} /\ ToSet(calls') = ToSet(calls)
  BY DEF AllFailed, ToSet
<1> QED BY <1>2, <1>3 DEF Policy!GiveUp, AllFailed

\* Time passes for the policy too.
LEMMA TickPolicy == Inv /\ Tick => Policy!Wait
<1> SUFFICES ASSUME Inv, Tick PROVE Policy!Wait
  OBVIOUS
<1>1. /\ Ready' = ReadyOf(dynamic', backoff')
      /\ Known(dynamic')
      /\ Known(dynamic)
  BY DEF Ready, ReadyOf, Inv, TypeOK, Known, Tick
<1>2. Ready' \in SUBSET Endpoints /\ Ready \in SUBSET Endpoints
  BY <1>1, ReadyIs, ReadyEndpoints
<1>3. \A e \in Endpoints : backoff[e] = 0 => backoff'[e] = 0
  BY DEF Tick, Inv, TypeOK
<1>4. Ready \subseteq Ready'
  BY <1>2, <1>3 DEF Ready, Tick
<1>5. ToSet(calls') = ToSet(calls)
  BY DEF Tick
<1> QED BY <1>2, <1>4, <1>5 DEF Policy!Wait, Tick

\* Every step is one of the policy or stutters.
LEMMA NextPolicy == Inv /\ [Next]_vars => [Policy!Next]_(Policy!vars)
<1> SUFFICES ASSUME Inv, [Next]_vars PROVE [Policy!Next]_(Policy!vars)
  OBVIOUS
<1>1. CASE StartRequest
  BY <1>1, StartRequestPolicy DEF Policy!Next
<1>3. CASE CallSucceeds
  <2>1. Head(calls) \in Endpoints
    BY <1>3, TailOnce DEF Inv, TypeOK, CallSucceeds
  <2> QED BY <1>3, <2>1, CallSucceedsPolicy DEF Policy!Next
<1>4. CASE CallFails
  <2>1. Head(calls) \in Endpoints
    BY <1>4, TailOnce DEF Inv, TypeOK, CallFails
  <2> QED BY <1>4, <2>1, CallFailsPolicy DEF Policy!Next
<1>5. CASE AllFailed
  BY <1>5, AllFailedPolicy DEF Policy!Next
<1>6. CASE Tick
  BY <1>6, TickPolicy DEF Policy!Next
<1>7. CASE UNCHANGED vars
  BY <1>7 DEF vars, manager, Policy!vars, Ready
<1> QED BY <1>1, <1>3, <1>4, <1>5, <1>6, <1>7 DEF Next

\* Every behaviour of the client manager is one of FailoverPolicy: a request is
\* tried with all the clients that are ready, each at most once, until one answers
\* or fails for good, for every number of replicas and whatever lookups find.
THEOREM PolicyImplemented == Spec => ImplementsPolicy
<1>1. Inv /\ [Next]_vars => [Policy!Next]_(Policy!vars)
  BY NextPolicy
<1> QED BY <1>1, InitPolicy, SpecInv, PTL DEF Spec, ImplementsPolicy, Policy!Spec
=============================================================================
