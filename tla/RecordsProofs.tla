------------------------------ MODULE RecordsProofs ------------------------------
(***************************************************************************)
(* Proofs about Records, for any names, clocks, bounds and sequence of     *)
(* commands: the document is sound, resolving a conflict loses only what   *)
(* the user decided to lose, and the pages of every view add up to it.     *)
(***************************************************************************)
EXTENDS Records, FiniteSetTheorems, WellFoundedInduction, TLAPS

-----------------------------------------------------------------------------
(* Numbers and loops *)

\* A non-empty set of numbers has a least one.
LEMMA LeastOne ==
    ASSUME NEW S \in SUBSET Nat, S # {}
    PROVE  \E m \in S : \A n \in S : m <= n
<1>1. PICK m \in S : \A n \in S : ~(<<n, m>> \in OpToRel(<, Nat))
  BY NatLessThanWellFounded, WFMin, Zenon
<1>2. \A n \in S : m <= n
  <2>1. SUFFICES ASSUME NEW n \in S, n < m PROVE FALSE
    OBVIOUS
  <2>2. <<n, m>> \in {ss \in Nat \X Nat : ss[1] < ss[2]}
    BY <2>1
  <2> QED  BY <2>2, <1>1, Zenon DEF OpToRel
<1> QED  BY <1>2

\* The loop of FlattenSeq, over the first n sequences.
Flattens(F, seqs, n) == F = [i \in 1..n |-> IF i = 1 THEN seqs[i] ELSE F[i - 1] \o seqs[i]]

\* The loop can be run, so FlattenSeq is what it leaves.
LEMMA FlattenRuns ==
    ASSUME NEW S, NEW seqs \in Seq(S), Len(seqs) > 0
    PROVE  \E F : Flattens(F, seqs, Len(seqs)) /\ FlattenSeq(seqs) = F[Len(seqs)]
<1> DEFINE N == Len(seqs)
           Stuck == {n \in 1..N : ~\E F : Flattens(F, seqs, n)}
<1>1. N \in Nat /\ N # 0
  OBVIOUS
<1>2. Stuck = {}
  <2>1. SUFFICES ASSUME Stuck # {} PROVE FALSE
    OBVIOUS
  <2>2. Stuck \in SUBSET Nat /\ \A n \in 1..N : n \notin Stuck => \E F : Flattens(F, seqs, n)
    OBVIOUS
  <2>3. \A n \in Stuck : n \in 1..N /\ ~\E F : Flattens(F, seqs, n)
    OBVIOUS
  <2> HIDE DEF Stuck
  <2>4. PICK m \in Stuck : \A n \in Stuck : m <= n
    BY <2>1, <2>2, LeastOne
  <2>5. CASE m = 1
    <3> DEFINE F == [i \in 1..1 |-> seqs[1]]
    <3>1. Flattens(F, seqs, 1)
      BY DEF Flattens
    <3> QED  BY <2>3, <2>5, <3>1
  <2>6. CASE m # 1
    <3>1. m - 1 \in 1..N /\ m \in Nat /\ ~(m <= m - 1) /\ m > 1
      BY <1>1, <2>3, <2>6
    <3>2. PICK F : Flattens(F, seqs, m - 1)
      BY <2>2, <2>4, <3>1
    <3> DEFINE G == [i \in 1..m |-> IF i = m THEN F[m - 1] \o seqs[m] ELSE F[i]]
    <3>3. \A i \in 1..m : G[i] = IF i = 1 THEN seqs[i] ELSE G[i - 1] \o seqs[i]
      <4>1. SUFFICES ASSUME NEW i \in 1..m
                     PROVE  G[i] = IF i = 1 THEN seqs[i] ELSE G[i - 1] \o seqs[i]
        OBVIOUS
      <4>2. CASE i = m
        <5>1. m - 1 \in 1..m /\ m - 1 # m /\ i # 1
          BY <3>1, <4>2
        <5>2. G[m - 1] = F[m - 1]
          BY <5>1
        <5> QED  BY <4>2, <5>1, <5>2
      <4>3. CASE i # m
        <5>1. i \in 1..(m - 1) /\ G[i] = F[i]
          BY <3>1, <4>3
        <5>2. F[i] = IF i = 1 THEN seqs[i] ELSE F[i - 1] \o seqs[i]
          BY <3>2, <5>1 DEF Flattens
        <5>3. i # 1 => G[i - 1] = F[i - 1]
          BY <3>1, <5>1
        <5> QED  BY <5>1, <5>2, <5>3
      <4> QED  BY <4>2, <4>3
    <3>4. G = [i \in 1..m |-> IF i = 1 THEN seqs[i] ELSE G[i - 1] \o seqs[i]]
      <4>1. G = [i \in 1..m |-> G[i]]
        OBVIOUS
      <4> HIDE DEF G
      <4> QED  BY <3>3, <4>1
    <3> QED  BY <2>3, <3>4 DEF Flattens
  <2> QED  BY <2>5, <2>6
<1>3. PICK G : Flattens(G, seqs, N)
  <2>1. N \in 1..N
    BY <1>1
  <2>2. SUFFICES ASSUME ~\E G : Flattens(G, seqs, N) PROVE FALSE
    OBVIOUS
  <2>3. N \in Stuck
    BY <2>1, <2>2
  <2> QED  BY <1>2, <2>3
<1> DEFINE F == CHOOSE F : F = [i \in 1..N |-> IF i = 1 THEN seqs[i] ELSE F[i - 1] \o seqs[i]]
<1>4. F = [i \in 1..N |-> IF i = 1 THEN seqs[i] ELSE F[i - 1] \o seqs[i]]
  <2>1. \E H : H = [i \in 1..N |-> IF i = 1 THEN seqs[i] ELSE H[i - 1] \o seqs[i]]
    BY <1>3 DEF Flattens
  <2> QED  BY <2>1, Zenon
<1>5. FlattenSeq(seqs) = F[N]
  BY <1>1 DEF FlattenSeq
<1> HIDE DEF F
<1> QED  BY <1>4, <1>5 DEF Flattens

\* What holds after the first sequence, and after one more whenever it held before, holds
\* when the loop ends; P is the set of the numbers of sequences after which it holds.
LEMMA FlattenLoop ==
    ASSUME NEW N \in Nat, NEW P,
           N > 0, 1 \in P, \A n \in 2..N : n - 1 \in P => n \in P
    PROVE  N \in P
<1> DEFINE Fails == {n \in 1..N : n \notin P}
<1>1. SUFFICES ASSUME N \notin P PROVE FALSE
  OBVIOUS
<1>2. Fails \in SUBSET Nat /\ N \in Fails
  BY <1>1
<1>3. \A n \in 1..N : n \notin Fails => n \in P
  OBVIOUS
<1>4. \A n \in Fails : n \in 1..N /\ n \notin P
  OBVIOUS
<1> HIDE DEF Fails
<1>5. PICK m \in Fails : \A n \in Fails : m <= n
  BY <1>2, LeastOne
<1>6. m \in 1..N /\ m # 1 /\ m \notin P
  BY <1>4
<1>7. m \in 2..N /\ m - 1 \in 1..N /\ ~(m <= m - 1)
  BY <1>6
<1>8. m - 1 \in P
  BY <1>3, <1>5, <1>7
<1> QED  BY <1>6, <1>7, <1>8

-----------------------------------------------------------------------------
(* Lists of records *)

\* The lists over S in which ids are unique.
List(S) == {list \in Seq(S) : Distinct(list)}

\* Ids are unique in each sequence, and no two sequences share one.
Apart(seqs) ==
    /\ \A i \in DOMAIN seqs : Distinct(seqs[i])
    /\ \A i, j \in DOMAIN seqs : i # j => Ids(seqs[i]) \cap Ids(seqs[j]) = {}

\* The list after the first n sequences: every record of theirs and no other, in a list
\* whose ids are unique when theirs are.
Gathers(list, seqs, S, n) ==
    /\ list \in Seq(S)
    /\ \A k \in DOMAIN list : \E i \in 1..n : \E j \in DOMAIN seqs[i] : list[k] = seqs[i][j]
    /\ \A i \in 1..n : \A j \in DOMAIN seqs[i] : \E k \in DOMAIN list : list[k] = seqs[i][j]
    /\ Apart(seqs) => Distinct(list)

\* What a concatenation holds.
LEMMA Joined ==
    ASSUME NEW S, NEW s \in Seq(S), NEW t \in Seq(S)
    PROVE  /\ s \o t \in Seq(S)
           /\ \A k \in DOMAIN s : k \in DOMAIN (s \o t) /\ (s \o t)[k] = s[k]
           /\ \A k \in DOMAIN t : Len(s) + k \in DOMAIN (s \o t) /\ (s \o t)[Len(s) + k] = t[k]
           /\ \A k \in DOMAIN (s \o t) : k \in DOMAIN s \/ \E j \in DOMAIN t : k = Len(s) + j
           /\ Len(s \o t) = Len(s) + Len(t)
<1>1. s \o t \in Seq(S) /\ Len(s \o t) = Len(s) + Len(t) /\ Len(s) \in Nat /\ Len(t) \in Nat
  OBVIOUS
<1>2. DOMAIN s = 1..Len(s) /\ DOMAIN t = 1..Len(t) /\ DOMAIN (s \o t) = 1..(Len(s) + Len(t))
  BY <1>1
<1>3. \A k \in 1..(Len(s) + Len(t)) : (s \o t)[k] = IF k <= Len(s) THEN s[k] ELSE t[k - Len(s)]
  OBVIOUS
<1>4. \A k \in 1..Len(s) : k \in 1..(Len(s) + Len(t)) /\ k <= Len(s)
  BY <1>1
<1>5. \A k \in 1..Len(t) : /\ Len(s) + k \in 1..(Len(s) + Len(t)) /\ ~(Len(s) + k <= Len(s))
                           /\ (Len(s) + k) - Len(s) = k
  BY <1>1
<1>6. \A k \in 1..(Len(s) + Len(t)) :
         k \in 1..Len(s) \/ (k - Len(s) \in 1..Len(t) /\ k = Len(s) + (k - Len(s)))
  BY <1>1
<1>7. \A k \in DOMAIN s : k \in DOMAIN (s \o t) /\ (s \o t)[k] = s[k]
  BY <1>2, <1>3, <1>4
<1>8. \A k \in DOMAIN t : Len(s) + k \in DOMAIN (s \o t) /\ (s \o t)[Len(s) + k] = t[k]
  BY <1>2, <1>3, <1>5
<1>9. \A k \in DOMAIN (s \o t) : k \in DOMAIN s \/ \E j \in DOMAIN t : k = Len(s) + j
  BY <1>2, <1>6
<1> QED  BY <1>1, <1>7, <1>8, <1>9

\* Two lists without an id in common make a list of both.
LEMMA JoinedApart ==
    ASSUME NEW S, NEW s \in List(S), NEW t \in List(S), Ids(s) \cap Ids(t) = {}
    PROVE  s \o t \in List(S)
<1>1. s \in Seq(S) /\ t \in Seq(S) /\ Distinct(s) /\ Distinct(t)
  BY DEF List
<1> DEFINE u == s \o t
<1>2. /\ u \in Seq(S)
      /\ \A k \in DOMAIN s : k \in DOMAIN u /\ u[k] = s[k]
      /\ \A k \in DOMAIN t : Len(s) + k \in DOMAIN u /\ u[Len(s) + k] = t[k]
      /\ \A k \in DOMAIN u : k \in DOMAIN s \/ \E j \in DOMAIN t : k = Len(s) + j
  BY <1>1, Joined
<1> HIDE DEF u
<1>3. \A a \in DOMAIN s, b \in DOMAIN t : s[a].id # t[b].id
  BY DEF Ids
<1>4. ASSUME NEW i \in DOMAIN u, NEW j \in DOMAIN u, u[i].id = u[j].id PROVE i = j
  <2>1. CASE i \in DOMAIN s /\ j \in DOMAIN s
    BY <1>1, <1>2, <1>4, <2>1 DEF Distinct
  <2>2. CASE i \in DOMAIN s /\ j \notin DOMAIN s
    BY <1>2, <1>3, <1>4, <2>2
  <2>3. CASE i \notin DOMAIN s /\ j \in DOMAIN s
    BY <1>2, <1>3, <1>4, <2>3
  <2>4. CASE i \notin DOMAIN s /\ j \notin DOMAIN s
    <3>1. PICK a \in DOMAIN t, b \in DOMAIN t : i = Len(s) + a /\ j = Len(s) + b
      BY <1>2, <2>4
    <3>2. t[a].id = t[b].id
      BY <1>2, <1>4, <3>1
    <3>3. a = b
      BY <1>1, <3>2 DEF Distinct
    <3> QED  BY <3>1, <3>3
  <2> QED  BY <2>1, <2>2, <2>3, <2>4
<1>5. Distinct(u)
  BY <1>4 DEF Distinct
<1> QED  BY <1>2, <1>5 DEF List, u

\* FlattenSeq gathers the records of the sequences.
LEMMA FlattenGathers ==
    ASSUME NEW S, NEW seqs \in Seq(Seq(S))
    PROVE  Gathers(FlattenSeq(seqs), seqs, S, Len(seqs))
<1> DEFINE N == Len(seqs)
<1>1. N \in Nat /\ DOMAIN seqs = 1..N /\ \A i \in 1..N : seqs[i] \in Seq(S)
  OBVIOUS
<1>2. CASE N = 0
  <2>1. FlattenSeq(seqs) = <<>>
    BY <1>2 DEF FlattenSeq
  <2>2. <<>> \in Seq(S) /\ DOMAIN <<>> = {} /\ 1..0 = {}
    OBVIOUS
  <2> QED  BY <1>2, <2>1, <2>2 DEF Gathers, Distinct
<1>3. CASE N > 0
  <2>1. PICK F : Flattens(F, seqs, N) /\ FlattenSeq(seqs) = F[N]
    BY <1>3, FlattenRuns
  <2> DEFINE P == {n \in 1..N : Gathers(F[n], seqs, S, n)}
  <2>2. 1 \in P
    <3>1. 1 \in 1..N /\ F[1] = seqs[1]
      BY <1>1, <1>3, <2>1 DEF Flattens
    <3>2. Gathers(seqs[1], seqs, S, 1)
      BY <1>1, <3>1 DEF Gathers, Apart
    <3> QED  BY <3>1, <3>2
  <2>3. ASSUME NEW n \in 2..N, n - 1 \in P PROVE n \in P
    <3>1. n \in 1..N /\ n - 1 \in 1..N /\ n # 1 /\ n \in Nat
      BY <1>1
    <3>2. F[n] = F[n - 1] \o seqs[n]
      BY <2>1, <3>1 DEF Flattens
    <3> DEFINE s == F[n - 1]
               t == seqs[n]
               u == s \o t
    <3>3. Gathers(s, seqs, S, n - 1) /\ t \in Seq(S)
      BY <1>1, <2>3, <3>1
    <3>4. s \in Seq(S) /\ t \in Seq(S)
      BY <3>3 DEF Gathers
    <3> HIDE DEF s, t
    <3>5. /\ u \in Seq(S)
          /\ \A k \in DOMAIN s : k \in DOMAIN u /\ u[k] = s[k]
          /\ \A k \in DOMAIN t : Len(s) + k \in DOMAIN u /\ u[Len(s) + k] = t[k]
          /\ \A k \in DOMAIN u : k \in DOMAIN s \/ \E j \in DOMAIN t : k = Len(s) + j
      BY <3>4, Joined
    <3>6. \A i \in 1..(n - 1) : i \in 1..n /\ i \in 1..N /\ i # n
      BY <1>1, <3>1
    <3>7. \A i \in 1..n : i \in 1..(n - 1) \/ i = n
      BY <3>1
    <3>8. \A k \in DOMAIN s : \E i \in 1..(n - 1) : \E j \in DOMAIN seqs[i] : s[k] = seqs[i][j]
      BY <3>3 DEF Gathers
    <3>9. \A i \in 1..(n - 1) : \A j \in DOMAIN seqs[i] : \E k \in DOMAIN s : s[k] = seqs[i][j]
      BY <3>3 DEF Gathers
    <3>10. Apart(seqs) => u \in List(S)
      <4>1. SUFFICES ASSUME Apart(seqs) PROVE u \in List(S)
        OBVIOUS
      <4>2. s \in List(S) /\ t \in List(S)
        BY <1>1, <3>1, <3>3, <3>4, <4>1 DEF Gathers, List, Apart, t
      <4>3. ASSUME NEW a \in DOMAIN s, NEW b \in DOMAIN t, s[a].id = t[b].id PROVE FALSE
        <5>1. PICK i \in 1..(n - 1) : \E j \in DOMAIN seqs[i] : s[a] = seqs[i][j]
          BY <3>8
        <5>2. s[a].id \in Ids(seqs[i]) /\ t[b].id \in Ids(seqs[n])
          BY <5>1 DEF Ids, t
        <5>3. Ids(seqs[i]) \cap Ids(seqs[n]) = {}
          BY <1>1, <3>1, <3>6, <4>1 DEF Apart
        <5> QED  BY <4>3, <5>2, <5>3
      <4>4. Ids(s) \cap Ids(t) = {}
        BY <4>3 DEF Ids
      <4> QED  BY <4>2, <4>4, JoinedApart
    <3> HIDE DEF u
    <3>11. ASSUME NEW k \in DOMAIN u PROVE \E i \in 1..n : \E j \in DOMAIN seqs[i] : u[k] = seqs[i][j]
      <4>1. CASE k \in DOMAIN s
        <5>1. PICK i \in 1..(n - 1) : \E j \in DOMAIN seqs[i] : s[k] = seqs[i][j]
          BY <3>8, <4>1
        <5>2. i \in 1..n /\ u[k] = s[k]
          BY <3>5, <3>6, <4>1
        <5> QED  BY <5>1, <5>2
      <4>2. CASE k \notin DOMAIN s
        <5>1. PICK j \in DOMAIN t : k = Len(s) + j
          BY <3>5, <4>2
        <5>2. u[k] = seqs[n][j] /\ j \in DOMAIN seqs[n] /\ n \in 1..n
          BY <3>1, <3>5, <5>1 DEF t
        <5> QED  BY <5>2
      <4> QED  BY <4>1, <4>2
    <3>12. ASSUME NEW i \in 1..n, NEW j \in DOMAIN seqs[i]
           PROVE  \E k \in DOMAIN u : u[k] = seqs[i][j]
      <4>1. CASE i \in 1..(n - 1)
        BY <3>5, <3>9, <4>1
      <4>2. CASE i = n
        BY <3>5, <4>2 DEF t
      <4> QED  BY <3>7, <4>1, <4>2
    <3>13. Gathers(u, seqs, S, n)
      BY <3>5, <3>10, <3>11, <3>12 DEF Gathers, List
    <3> QED  BY <3>1, <3>2, <3>13 DEF u, s, t
  <2> HIDE DEF P
  <2>4. N \in P
    BY <1>1, <1>3, <2>2, <2>3, FlattenLoop
  <2> QED  BY <2>1, <2>4 DEF P
<1> QED  BY <1>1, <1>2, <1>3

\* The records at some indices of a list: each of them, no other, and ids stay unique.
LEMMA AtKeeps ==
    ASSUME NEW S, NEW list \in Seq(S), NEW I \in SUBSET DOMAIN list
    PROVE  /\ At(list, I) \in Seq(S)
           /\ \A k \in DOMAIN At(list, I) : \E i \in I : At(list, I)[k] = list[i]
           /\ \A i \in I : \E k \in DOMAIN At(list, I) : At(list, I)[k] = list[i]
           /\ Distinct(list) => Distinct(At(list, I))
<1> DEFINE seqs == [i \in DOMAIN list |-> IF i \in I THEN <<list[i]>> ELSE <<>>]
           a == At(list, I)
           N == Len(list)
<1>1. N \in Nat /\ DOMAIN list = 1..N /\ \A i \in 1..N : list[i] \in S
  OBVIOUS
<1>2. \A i \in 1..N : seqs[i] = (IF i \in I THEN <<list[i]>> ELSE <<>>) /\ seqs[i] \in Seq(S)
  BY <1>1
<1>3. seqs \in Seq(Seq(S)) /\ Len(seqs) = N /\ DOMAIN seqs = 1..N
  BY <1>1, <1>2
<1>4. \A i \in 1..N : DOMAIN seqs[i] = (IF i \in I THEN {1} ELSE {}) /\ (i \in I => seqs[i][1] = list[i])
  <2>1. DOMAIN <<>> = {} /\ \A x : DOMAIN <<x>> = {1} /\ <<x>>[1] = x
    OBVIOUS
  <2> HIDE DEF seqs
  <2> QED  BY <1>2, <2>1
<1>5. a = FlattenSeq(seqs)
  BY DEF At
<1> HIDE DEF seqs, a, N
<1>6. Gathers(a, seqs, S, N)
  BY <1>3, <1>5, FlattenGathers
<1>7. a \in Seq(S) /\ (Apart(seqs) => Distinct(a))
  BY <1>6 DEF Gathers
<1>8. ASSUME NEW k \in DOMAIN a PROVE \E i \in I : a[k] = list[i]
  <2>1. PICK i \in 1..N : \E j \in DOMAIN seqs[i] : a[k] = seqs[i][j]
    BY <1>6 DEF Gathers
  <2>2. i \in I /\ a[k] = list[i]
    BY <1>4, <2>1
  <2> QED  BY <2>2
<1>9. ASSUME NEW i \in I PROVE \E k \in DOMAIN a : a[k] = list[i]
  <2>1. i \in 1..N /\ 1 \in DOMAIN seqs[i] /\ seqs[i][1] = list[i]
    BY <1>1, <1>4
  <2> QED  BY <1>6, <2>1 DEF Gathers
<1>10. ASSUME Distinct(list) PROVE Apart(seqs)
  <2>1. \A i \in DOMAIN seqs : Distinct(seqs[i])
    BY <1>3, <1>4 DEF Distinct
  <2>2. ASSUME NEW i \in DOMAIN seqs, NEW j \in DOMAIN seqs, i # j
        PROVE  Ids(seqs[i]) \cap Ids(seqs[j]) = {}
    <3>1. Ids(seqs[i]) \subseteq {list[i].id} /\ Ids(seqs[j]) \subseteq {list[j].id}
      BY <1>3, <1>4 DEF Ids
    <3>2. list[i].id # list[j].id
      BY <1>1, <1>3, <1>10, <2>2 DEF Distinct
    <3> QED  BY <3>1, <3>2
  <2> QED  BY <2>1, <2>2 DEF Apart
<1> QED  BY <1>7, <1>8, <1>9, <1>10 DEF a

\* Without an id, the other ids stay and no record comes in.
LEMMA WithoutKeeps ==
    ASSUME NEW S, NEW list \in List(S), NEW id
    PROVE  /\ Without(list, id) \in List(S)
           /\ Ids(Without(list, id)) = Ids(list) \ {id}
           /\ \A k \in DOMAIN Without(list, id) : \E i \in DOMAIN list : Without(list, id)[k] = list[i]
<1> DEFINE I == {i \in DOMAIN list : list[i].id # id}
           a == At(list, I)
<1>1. list \in Seq(S) /\ Distinct(list) /\ I \in SUBSET DOMAIN list
  BY DEF List
<1>2. \A i \in I : i \in DOMAIN list /\ list[i].id # id
  OBVIOUS
<1>3. \A i \in DOMAIN list : list[i].id # id => i \in I
  OBVIOUS
<1>4. Without(list, id) = a
  BY DEF Without
<1> HIDE DEF I
<1>5. /\ a \in Seq(S) /\ Distinct(a)
      /\ \A k \in DOMAIN a : \E i \in I : a[k] = list[i]
      /\ \A i \in I : \E k \in DOMAIN a : a[k] = list[i]
  BY <1>1, AtKeeps
<1> HIDE DEF a
<1>6. Ids(a) \subseteq Ids(list) \ {id}
  <2>1. SUFFICES ASSUME NEW k \in DOMAIN a PROVE a[k].id \in Ids(list) \ {id}
    BY DEF Ids
  <2>2. PICK i \in I : a[k] = list[i]
    BY <1>5
  <2> QED  BY <1>2, <2>2 DEF Ids
<1>7. Ids(list) \ {id} \subseteq Ids(a)
  <2>1. SUFFICES ASSUME NEW i \in DOMAIN list, list[i].id # id PROVE list[i].id \in Ids(a)
    BY DEF Ids
  <2>2. PICK k \in DOMAIN a : a[k] = list[i]
    BY <1>3, <1>5, <2>1
  <2> QED  BY <2>2 DEF Ids
<1>8. \A k \in DOMAIN a : \E i \in DOMAIN list : a[k] = list[i]
  BY <1>2, <1>5
<1> QED  BY <1>4, <1>5, <1>6, <1>7, <1>8 DEF List

\* A list whose records are replaced by records with their ids.
LEMMA SameIds ==
    ASSUME NEW S, NEW T, NEW list \in List(S), NEW new \in Seq(T), DOMAIN new = DOMAIN list,
           \A i \in DOMAIN list : new[i].id = list[i].id
    PROVE  new \in List(T) /\ Ids(new) = Ids(list)
<1>1. Distinct(list)
  BY DEF List
<1>2. Distinct(new)
  BY <1>1 DEF Distinct
<1>3. Ids(new) = Ids(list)
  BY DEF Ids
<1> QED  BY <1>2, <1>3 DEF List

\* A record of a list is found by its id.
LEMMA GetFinds ==
    ASSUME NEW S, NEW list \in Seq(S)
    PROVE  /\ \A id \in Ids(list) : Get(list, id) \in S /\ Get(list, id).id = id
                                    /\ \E i \in DOMAIN list : Get(list, id) = list[i]
           /\ Distinct(list) => \A i \in DOMAIN list : Get(list, list[i].id) = list[i]
<1>1. \A i \in DOMAIN list : list[i] \in S
  OBVIOUS
<1>2. ASSUME NEW id \in Ids(list)
      PROVE  /\ Get(list, id) \in S /\ Get(list, id).id = id
             /\ \E i \in DOMAIN list : Get(list, id) = list[i]
  <2> DEFINE i == CHOOSE i \in DOMAIN list : list[i].id = id
  <2>1. \E k \in DOMAIN list : list[k].id = id
    BY DEF Ids
  <2>2. i \in DOMAIN list /\ list[i].id = id
    BY <2>1, Zenon
  <2>3. Get(list, id) = list[i]
    BY DEF Get
  <2> HIDE DEF i
  <2> QED  BY <1>1, <2>2, <2>3
<1>3. ASSUME Distinct(list), NEW i \in DOMAIN list PROVE Get(list, list[i].id) = list[i]
  <2>1. list[i].id \in Ids(list)
    BY DEF Ids
  <2>2. PICK k \in DOMAIN list : Get(list, list[i].id) = list[k] /\ list[k].id = list[i].id
    BY <1>2, <2>1
  <2> QED  BY <1>3, <2>2 DEF Distinct
<1> QED  BY <1>2, <1>3

\* Put replaces the record with its id.
LEMMA PutKeeps ==
    ASSUME NEW S, NEW list \in List(S), NEW rec \in S
    PROVE  Put(list, rec) \in List(S) /\ Ids(Put(list, rec)) = Ids(list)
<1> DEFINE new == Put(list, rec)
<1>1. list \in Seq(S) /\ \A i \in DOMAIN list : list[i] \in S
  BY DEF List
<1>2. DOMAIN new = DOMAIN list /\ \A i \in DOMAIN list : new[i] = IF list[i].id = rec.id THEN rec ELSE list[i]
  BY DEF Put
<1>3. new \in Seq(S)
  <2>1. Len(list) \in Nat /\ DOMAIN list = 1..Len(list)
    BY <1>1
  <2> QED  BY <1>1, <2>1 DEF Put
<1> HIDE DEF new
<1>4. \A i \in DOMAIN list : new[i].id = list[i].id
  BY <1>2
<1> QED  BY <1>2, <1>3, <1>4, SameIds DEF new

\* A record with a new id comes last.
LEMMA AppendKeeps ==
    ASSUME NEW S, NEW list \in List(S), NEW rec \in S, rec.id \notin Ids(list)
    PROVE  Append(list, rec) \in List(S) /\ Ids(Append(list, rec)) = Ids(list) \cup {rec.id}
<1> DEFINE new == Append(list, rec)
           N == Len(list)
<1>1. list \in Seq(S) /\ Distinct(list) /\ N \in Nat /\ DOMAIN list = 1..N
  BY DEF List
<1>2. new \in Seq(S) /\ DOMAIN new = 1..(N + 1) /\ new[N + 1] = rec /\ \A i \in 1..N : new[i] = list[i]
  BY <1>1
<1>3. \A i \in 1..(N + 1) : i \in 1..N \/ i = N + 1
  BY <1>1
<1>4. \A i \in 1..N : i \in 1..(N + 1) /\ list[i].id \in Ids(list)
  BY <1>1 DEF Ids
<1>5. N + 1 \in 1..(N + 1)
  BY <1>1
<1> HIDE DEF new
<1>6. Distinct(new)
  <2>1. SUFFICES ASSUME NEW i \in 1..(N + 1), NEW j \in 1..(N + 1), new[i].id = new[j].id PROVE i = j
    BY <1>2 DEF Distinct
  <2>2. CASE i \in 1..N /\ j \in 1..N
    BY <1>1, <1>2, <2>1, <2>2 DEF Distinct
  <2>3. CASE i = N + 1 /\ j \in 1..N
    BY <1>2, <1>4, <2>1, <2>3
  <2>4. CASE i \in 1..N /\ j = N + 1
    BY <1>2, <1>4, <2>1, <2>4
  <2> QED  BY <1>3, <2>2, <2>3, <2>4
<1>7. Ids(new) = Ids(list) \cup {rec.id}
  <2>1. \A i \in 1..(N + 1) : new[i].id \in Ids(list) \cup {rec.id}
    BY <1>2, <1>3, <1>4
  <2>2. \A i \in 1..N : list[i].id \in Ids(new)
    BY <1>2, <1>4 DEF Ids
  <2>3. rec.id \in Ids(new)
    BY <1>2, <1>5 DEF Ids
  <2>4. Ids(new) = {new[i].id : i \in 1..(N + 1)} /\ Ids(list) = {list[i].id : i \in 1..N}
    BY <1>1, <1>2 DEF Ids
  <2> QED  BY <2>1, <2>2, <2>3, <2>4
<1> QED  BY <1>2, <1>6, <1>7 DEF List, new

\* Lists whose records lie in a larger set.
LEMMA Wider ==
    ASSUME NEW S, NEW T, NEW list \in List(S), \A i \in DOMAIN list : list[i] \in S => list[i] \in T
    PROVE  list \in List(T)
<1>1. list \in Seq(S) /\ Distinct(list)
  BY DEF List
<1>2. \A i \in DOMAIN list : list[i] \in T
  BY <1>1
<1>3. list \in Seq(T)
  BY <1>1, <1>2
<1> QED  BY <1>1, <1>3 DEF List

-----------------------------------------------------------------------------
(* The invariant *)

Task == [id : Id, tags : SUBSET Id, done : Opt(Time), entries : SUBSET Entry,
         due : Nat, dueTime : BOOLEAN, start : Nat, startTime : BOOLEAN]
Tag      == [id : Id, name : Name, pinned : BOOLEAN]
Template == [id : Id, tags : SUBSET Id, due : Nat, recurs : BOOLEAN, recTag : Opt(Id)]

\* At most one entry runs, and none ends before it starts.
SoundTimes(es) ==
    /\ es \subseteq Entry
    /\ \A e, f \in es : e.end = 0 /\ f.end = 0 => e = f
    /\ \A e \in es : e.end > 0 => e.start <= e.end

\* The tasks and templates that are sound beside tags with the ids T, deleted tags D and
\* n as the next id.
SoundTasks(T, n) ==
    {t \in Task : /\ t.id < n /\ t.tags \subseteq T /\ SoundTimes(t.entries)
                  /\ (t.dueTime => t.due > 0) /\ (t.startTime => t.start > 0)}

SoundTags(n) == {g \in Tag : g.id < n}

SoundTemplates(T, D, n) ==
    {t \in Template : /\ t.id < n /\ t.tags \subseteq T
                      /\ t.recurs => \/ t.recTag \in t.tags \cup D
                                     \/ t.recTag = 0 /\ D # {}
                      /\ ~t.recurs => t.recTag = 0}

\* A conflict copy is a sound document, made from ids given out, and at most one task, from
\* before the devices parted, is in it and among ours.
SoundCopy(c, mine, n) ==
    c # <<>> => /\ c.tags \in List(SoundTags(n))
                /\ c.tasks \in List(SoundTasks(Ids(c.tags), n))
                /\ \A a, b \in mine \cap Ids(c.tasks) : a = b

RecInv ==
    /\ tasks \in List(SoundTasks(Ids(tags), fresh))
    /\ tags \in List(SoundTags(fresh))
    /\ templates \in List(SoundTemplates(Ids(tags), deletedTags, fresh))
    /\ now \in Time /\ fresh \in 1..(MaxId + 1)
    /\ SoundCopy(copy, Ids(tasks), fresh)

\* Ids given out are below the next one, and tags have ids.
LEMMA IdsGivenOut ==
    ASSUME RecInv
    PROVE  /\ fresh \in Nat /\ MaxId \in Nat /\ MaxTick \in Nat
           /\ Ids(tags) \subseteq Id /\ fresh \notin Ids(tags)
           /\ Ids(tasks) \subseteq Id /\ fresh \notin Ids(tasks)
           /\ fresh \notin Ids(templates)
           /\ copy # <<>> => fresh \notin Ids(copy.tasks)
           /\ tasks \in Seq(SoundTasks(Ids(tags), fresh)) /\ Distinct(tasks)
           /\ tags \in Seq(SoundTags(fresh)) /\ Distinct(tags)
           /\ templates \in Seq(SoundTemplates(Ids(tags), deletedTags, fresh)) /\ Distinct(templates)
<1>1. fresh \in Nat /\ MaxId \in Nat /\ MaxTick \in Nat
  BY RecordsAssumption DEF RecInv
<1>2. /\ tasks \in Seq(SoundTasks(Ids(tags), fresh)) /\ Distinct(tasks)
      /\ tags \in Seq(SoundTags(fresh)) /\ Distinct(tags)
      /\ templates \in Seq(SoundTemplates(Ids(tags), deletedTags, fresh)) /\ Distinct(templates)
  BY DEF RecInv, List
<1>3. \A i \in DOMAIN tags : tags[i].id \in Id /\ tags[i].id < fresh
  <2>1. \A i \in DOMAIN tags : tags[i] \in SoundTags(fresh)
    BY <1>2
  <2> QED  BY <2>1 DEF SoundTags, Tag
<1>4. \A i \in DOMAIN tasks : tasks[i].id \in Id /\ tasks[i].id < fresh
  <2>1. \A i \in DOMAIN tasks : tasks[i] \in SoundTasks(Ids(tags), fresh)
    BY <1>2
  <2> QED  BY <2>1 DEF SoundTasks, Task
<1>5. \A i \in DOMAIN templates : templates[i].id < fresh
  <2>1. \A i \in DOMAIN templates : templates[i] \in SoundTemplates(Ids(tags), deletedTags, fresh)
    BY <1>2
  <2> QED  BY <2>1 DEF SoundTemplates
<1>6. ASSUME copy # <<>> PROVE fresh \notin Ids(copy.tasks)
  <2>1. copy.tasks \in Seq(SoundTasks(Ids(copy.tags), fresh))
    BY <1>6 DEF RecInv, SoundCopy, List
  <2>2. \A i \in DOMAIN copy.tasks : copy.tasks[i] \in SoundTasks(Ids(copy.tags), fresh)
    BY <2>1
  <2>3. \A i \in DOMAIN copy.tasks : copy.tasks[i].id < fresh
    BY <2>2 DEF SoundTasks
  <2> QED  BY <1>1, <2>3 DEF Ids
<1>7. ~(fresh < fresh)
  BY <1>1
<1>8. /\ Ids(tags) \subseteq Id /\ fresh \notin Ids(tags)
      /\ Ids(tasks) \subseteq Id /\ fresh \notin Ids(tasks)
      /\ fresh \notin Ids(templates)
  BY <1>3, <1>4, <1>5, <1>7 DEF Ids
<1> QED  BY <1>1, <1>2, <1>6, <1>8

\* More tags and more ids leave tasks, templates and tags sound.
LEMMA StaySound ==
    ASSUME NEW T, NEW U, T \subseteq U, NEW m \in Nat, NEW n \in Nat, m <= n, NEW D
    PROVE  /\ SoundTasks(T, m) \subseteq SoundTasks(U, n)
           /\ SoundTags(m) \subseteq SoundTags(n)
           /\ SoundTemplates(T, D, m) \subseteq SoundTemplates(U, D, n)
<1>1. \A id \in Id : id < m => id < n
  BY DEF Id
<1>2. SoundTasks(T, m) \subseteq SoundTasks(U, n)
  <2>1. \A t \in Task : t.id \in Id
    BY DEF Task
  <2> QED  BY <1>1, <2>1 DEF SoundTasks
<1>3. SoundTags(m) \subseteq SoundTags(n)
  BY <1>1 DEF SoundTags, Tag
<1>4. SoundTemplates(T, D, m) \subseteq SoundTemplates(U, D, n)
  <2>1. \A t \in Template : t.id \in Id
    BY DEF Template
  <2> QED  BY <1>1, <2>1 DEF SoundTemplates
<1> QED  BY <1>2, <1>3, <1>4

\* A step to a sound document that drops the conflict copy, or leaves it and gives a task
\* the next id at most.
LEMMA DocumentChange ==
    ASSUME RecInv, NEW n \in 0..1, Saved(n),
           tasks' \in List(SoundTasks(Ids(tags'), fresh + n)),
           tags' \in List(SoundTags(fresh + n)),
           templates' \in List(SoundTemplates(Ids(tags'), deletedTags', fresh + n)),
           copy' = <<>> \/ (copy' = copy /\ Ids(tasks') \subseteq Ids(tasks) \cup {fresh}),
           now' = now
    PROVE  RecInv'
<1> DEFINE k == fresh + n
<1>1. k \in Nat /\ fresh \in Nat /\ fresh <= k /\ k \in 1..(MaxId + 1) /\ fresh' = k
  BY RecordsAssumption DEF RecInv, Saved
<1>2. /\ tasks' \in List(SoundTasks(Ids(tags'), fresh'))
      /\ tags' \in List(SoundTags(fresh'))
      /\ templates' \in List(SoundTemplates(Ids(tags'), deletedTags', fresh'))
  BY <1>1
<1> HIDE DEF k
<1>3. \A T : /\ SoundTasks(T, fresh) \subseteq SoundTasks(T, k)
             /\ SoundTags(fresh) \subseteq SoundTags(k)
  BY <1>1, StaySound
<1>4. SoundCopy(copy', Ids(tasks'), fresh')
  <2>1. SUFFICES ASSUME copy' # <<>>
                 PROVE  /\ copy'.tags \in List(SoundTags(fresh'))
                        /\ copy'.tasks \in List(SoundTasks(Ids(copy'.tags), fresh'))
                        /\ \A a, b \in Ids(tasks') \cap Ids(copy'.tasks) : a = b
    BY DEF SoundCopy
  <2>2. copy' = copy /\ copy # <<>> /\ Ids(tasks') \subseteq Ids(tasks) \cup {fresh}
    BY <2>1
  <2>3. /\ copy.tags \in List(SoundTags(fresh))
        /\ copy.tasks \in List(SoundTasks(Ids(copy.tags), fresh))
        /\ \A a, b \in Ids(tasks) \cap Ids(copy.tasks) : a = b
    BY <2>2 DEF RecInv, SoundCopy
  <2>4. copy.tags \in List(SoundTags(k)) /\ copy.tasks \in List(SoundTasks(Ids(copy.tags), k))
    BY <1>3, <2>3, Wider
  <2>5. fresh \notin Ids(copy.tasks)
    BY <2>2, IdsGivenOut
  <2>6. \A a, b \in Ids(tasks') \cap Ids(copy.tasks) : a = b
    BY <2>2, <2>3, <2>5
  <2> QED  BY <1>1, <2>2, <2>4, <2>6
<1>5. now' \in Time /\ fresh' \in 1..(MaxId + 1)
  BY <1>1 DEF RecInv
<1> QED  BY <1>2, <1>4, <1>5 DEF RecInv

\* More ids leave the lists of the document sound.
LEMMA ListsStaySound ==
    ASSUME RecInv, NEW n \in 0..1
    PROVE  /\ tags \in List(SoundTags(fresh + n))
           /\ tasks \in List(SoundTasks(Ids(tags), fresh + n))
           /\ templates \in List(SoundTemplates(Ids(tags), deletedTags, fresh + n))
<1> DEFINE k == fresh + n
<1>1. k \in Nat /\ fresh \in Nat /\ fresh <= k
  BY IdsGivenOut
<1> HIDE DEF k
<1>2. /\ SoundTasks(Ids(tags), fresh) \subseteq SoundTasks(Ids(tags), k)
      /\ SoundTags(fresh) \subseteq SoundTags(k)
      /\ SoundTemplates(Ids(tags), deletedTags, fresh) \subseteq SoundTemplates(Ids(tags), deletedTags, k)
  BY <1>1, StaySound
<1>3. tags \in List(SoundTags(k)) /\ tasks \in List(SoundTasks(Ids(tags), k))
      /\ templates \in List(SoundTemplates(Ids(tags), deletedTags, k))
  BY <1>2, Wider DEF RecInv
<1> QED  BY <1>3 DEF k

\* A step that changes only the tasks, and takes no id or the next one for them.
LEMMA TasksChange ==
    ASSUME RecInv, NEW n \in 0..1, Saved(n), tasks' \in List(SoundTasks(Ids(tags), fresh + n)),
           Ids(tasks') \subseteq Ids(tasks) \cup {fresh},
           UNCHANGED <<tags, templates, deletedTags, copy, now>>
    PROVE  RecInv'
<1>1. tags \in List(SoundTags(fresh + n))
      /\ templates \in List(SoundTemplates(Ids(tags), deletedTags, fresh + n))
  BY ListsStaySound
<1>2. /\ tasks' \in List(SoundTasks(Ids(tags'), fresh + n)) /\ tags' \in List(SoundTags(fresh + n))
      /\ templates' \in List(SoundTemplates(Ids(tags'), deletedTags', fresh + n))
  BY <1>1
<1> QED  BY <1>2, DocumentChange

\* A step that changes only the templates, and takes no id or the next one for them.
LEMMA TemplatesChange ==
    ASSUME RecInv, NEW n \in 0..1, Saved(n),
           templates' \in List(SoundTemplates(Ids(tags), deletedTags, fresh + n)),
           UNCHANGED <<tasks, tags, deletedTags, copy, now>>
    PROVE  RecInv'
<1>1. tags \in List(SoundTags(fresh + n)) /\ tasks \in List(SoundTasks(Ids(tags), fresh + n))
  BY ListsStaySound
<1>2. /\ tasks' \in List(SoundTasks(Ids(tags'), fresh + n)) /\ tags' \in List(SoundTags(fresh + n))
      /\ templates' \in List(SoundTemplates(Ids(tags'), deletedTags', fresh + n))
  BY <1>1
<1>3. copy' = copy /\ Ids(tasks') \subseteq Ids(tasks) \cup {fresh}
  OBVIOUS
<1> QED  BY <1>2, <1>3, DocumentChange

-----------------------------------------------------------------------------
(* Tasks and tracked time *)

\* What the changes of the time commands leave of sound entries.
LEMMA TimesStaySound ==
    ASSUME NEW es, SoundTimes(es), now \in Time
    PROVE  /\ SoundTimes(StopAll(es))
           /\ \A fs \in SUBSET es : SoundTimes(fs)
           /\ \A e \in Entry : e.end = 0 /\ {f \in es : f.end = 0} = {} => SoundTimes(es \cup {e})
           /\ \A e \in Entry : e.end > 0 /\ e.start < e.end => SoundTimes(es \cup {e})
           /\ \A e \in es, f \in Entry :
                (f.end = 0 => e.end = 0) /\ (f.end > 0 => f.start < f.end)
                  => SoundTimes((es \ {e}) \cup {f})
           /\ \A afk \in Time : SoundTimes(Discarded(es, afk))
<1>1. MaxTick \in Nat /\ now \in Nat /\ now > 0 /\ \A x \in Time : x \in Nat /\ x > 0
  BY RecordsAssumption DEF Time
<1>2. \A e \in Entry : /\ e.id \in Id /\ e.start \in Time /\ e.end \in Opt(Time)
                       /\ e.start \in Nat /\ e.start > 0 /\ e.end \in Nat
                       /\ e = [id |-> e.id, start |-> e.start, end |-> e.end]
  <2>1. SUFFICES ASSUME NEW e \in Entry
                 PROVE  /\ e.id \in Id /\ e.start \in Time /\ e.end \in Opt(Time)
                        /\ e.start \in Nat /\ e.start > 0 /\ e.end \in Nat
                        /\ e = [id |-> e.id, start |-> e.start, end |-> e.end]
    OBVIOUS
  <2>2. e.id \in Id /\ e.start \in Time /\ e.end \in Opt(Time)
    BY DEF Entry
  <2>3. e = [id |-> e.id, start |-> e.start, end |-> e.end]
    BY DEF Entry
  <2>4. e.start \in Nat /\ e.start > 0
    BY <1>1, <2>2
  <2>5. e.end = 0 \/ e.end \in Time
    BY <2>2 DEF Opt
  <2>6. e.end \in Nat
    <3>1. CASE e.end = 0
      BY <3>1
    <3>2. CASE e.end \in Time
      <4> DEFINE x == e.end
      <4>1. x \in Time
        BY <3>2
      <4> HIDE DEF x
      <4>2. x \in Nat
        BY <1>1, <4>1
      <4> QED  BY <4>2 DEF x
    <3> QED  BY <2>5, <3>1, <3>2
  <2> QED  BY <2>2, <2>3, <2>4, <2>6
<1>3. /\ es \subseteq Entry
      /\ \A e, f \in es : e.end = 0 /\ f.end = 0 => e = f
      /\ \A e \in es : e.end > 0 => e.start <= e.end
  BY DEF SoundTimes
<1>4. SoundTimes(StopAll(es))
  <2> DEFINE g(e) == [e EXCEPT !.end = IF @ > 0 THEN @ ELSE IF now > e.start THEN now ELSE e.start]
  <2>1. ASSUME NEW e \in es PROVE g(e) \in Entry /\ g(e).end > 0 /\ g(e).start <= g(e).end
    <3>1. /\ e.id \in Id /\ e.start \in Time /\ e.end \in Opt(Time) /\ e.end \in Nat
          /\ e.start \in Nat /\ e.start > 0 /\ (e.end > 0 => e.start <= e.end)
      BY <1>2, <1>3
    <3>2. g(e).start = e.start /\ g(e).id = e.id
          /\ g(e).end = (IF e.end > 0 THEN e.end ELSE IF now > e.start THEN now ELSE e.start)
      BY <1>2, <1>3
    <3>3. g(e) = [id |-> e.id, start |-> e.start,
                  end |-> IF e.end > 0 THEN e.end ELSE IF now > e.start THEN now ELSE e.start]
      BY <1>2, <1>3
    <3>4. g(e).end \in Time
      BY <1>1, <3>1, <3>2 DEF Opt
    <3>5. g(e) \in Entry
      BY <3>1, <3>2, <3>3, <3>4 DEF Entry, Opt
    <3> QED  BY <1>1, <3>1, <3>2, <3>5
  <2>2. StopAll(es) = {g(e) : e \in es}
    BY DEF StopAll
  <2> HIDE DEF g
  <2>3. \A f \in StopAll(es) : f \in Entry /\ f.end > 0 /\ f.start <= f.end /\ f.end # 0
    BY <1>2, <2>1, <2>2
  <2> QED  BY <2>3 DEF SoundTimes
<1>5. \A fs \in SUBSET es : SoundTimes(fs)
  BY <1>3 DEF SoundTimes
<1>6. ASSUME NEW e \in Entry, e.end = 0, {f \in es : f.end = 0} = {} PROVE SoundTimes(es \cup {e})
  <2>1. \A f \in es : f.end # 0
    BY <1>6
  <2>2. ~(e.end > 0)
    BY <1>6
  <2> QED  BY <1>3, <2>1, <2>2 DEF SoundTimes
<1>7. ASSUME NEW e \in Entry, e.end > 0, e.start < e.end PROVE SoundTimes(es \cup {e})
  <2>1. e.end # 0 /\ e.start <= e.end
    BY <1>2, <1>7
  <2> QED  BY <1>3, <2>1 DEF SoundTimes
<1>8. ASSUME NEW e \in es, NEW f \in Entry, f.end = 0 => e.end = 0, f.end > 0 => f.start < f.end
      PROVE  SoundTimes((es \ {e}) \cup {f})
  <2>1. f.end > 0 => f.start <= f.end
    BY <1>2, <1>8
  <2>2. f.end = 0 => \A x \in es \ {e} : x.end # 0
    BY <1>3, <1>8
  <2> QED  BY <1>3, <2>1, <2>2 DEF SoundTimes
<1>9. ASSUME NEW afk \in Time PROVE SoundTimes(Discarded(es, afk))
  <2> DEFINE fs == {e \in es : e.end > 0 \/ e.start < afk}
             g(e) == [e EXCEPT !.end = IF @ = 0 THEN afk ELSE @]
  <2>1. ASSUME NEW e \in fs PROVE g(e) \in Entry /\ g(e).end > 0 /\ g(e).start <= g(e).end
    <3>1. /\ e.id \in Id /\ e.start \in Time /\ e.end \in Opt(Time) /\ e.end \in Nat
          /\ e.start \in Nat /\ e.start > 0 /\ (e.end > 0 => e.start <= e.end)
          /\ (e.end > 0 \/ e.start < afk) /\ afk \in Nat /\ afk > 0
      BY <1>1, <1>2, <1>3
    <3>2. g(e) = [id |-> e.id, start |-> e.start, end |-> IF e.end = 0 THEN afk ELSE e.end]
      BY <1>2, <1>3
    <3>3. g(e).start = e.start /\ g(e).end = (IF e.end = 0 THEN afk ELSE e.end)
      BY <3>2
    <3>4. g(e) \in Entry
      BY <3>1, <3>2 DEF Entry, Opt
    <3> QED  BY <3>1, <3>3, <3>4
  <2>2. Discarded(es, afk) = {g(e) : e \in fs}
    BY DEF Discarded
  <2> HIDE DEF g, fs
  <2>3. \A f \in Discarded(es, afk) : f \in Entry /\ f.end > 0 /\ f.start <= f.end /\ f.end # 0
    BY <1>2, <2>1, <2>2
  <2> QED  BY <2>3 DEF SoundTimes
<1> QED  BY <1>4, <1>5, <1>6, <1>7, <1>8, <1>9

\* What the changes of the task commands leave of a sound task.
LEMMA TaskStaysSound ==
    ASSUME RecInv, NEW n, NEW t \in SoundTasks(Ids(tags), n)
    PROVE  /\ \A d \in Inputs : Edited(t, d) \in SoundTasks(Ids(tags), n) /\ Edited(t, d).id = t.id
           /\ \A ids : Tagged(t, ids) \in SoundTasks(Ids(tags), n) /\ Tagged(t, ids).id = t.id
           /\ \A es : SoundTimes(es) => /\ [t EXCEPT !.entries = es] \in SoundTasks(Ids(tags), n)
                                        /\ [t EXCEPT !.entries = es].id = t.id
           /\ [t EXCEPT !.done = 0] \in SoundTasks(Ids(tags), n) /\ [t EXCEPT !.done = 0].id = t.id
           /\ [t EXCEPT !.done = now, !.entries = StopAll(t.entries)] \in SoundTasks(Ids(tags), n)
           /\ [t EXCEPT !.done = now, !.entries = StopAll(t.entries)].id = t.id
<1>1. /\ t \in Task /\ t.id < n /\ t.tags \subseteq Ids(tags) /\ SoundTimes(t.entries)
      /\ (t.dueTime => t.due > 0) /\ (t.startTime => t.start > 0)
  BY DEF SoundTasks
<1>2. now \in Time /\ Ids(tags) \subseteq Id
  BY IdsGivenOut DEF RecInv
<1>3. \A es : SoundTimes(es) => es \subseteq Entry
  BY DEF SoundTimes
<1>4. SoundTimes(StopAll(t.entries))
  BY <1>1, <1>2, TimesStaySound
<1>5. ASSUME NEW d \in Inputs
      PROVE  Edited(t, d) \in SoundTasks(Ids(tags), n) /\ Edited(t, d).id = t.id
  <2>1. d.due \in Nat /\ d.start \in Nat /\ d.dueTime \in BOOLEAN /\ d.startTime \in BOOLEAN
    BY DEF Inputs, Dates
  <2> QED  BY <1>1, <2>1 DEF Edited, SoundTasks, Task
<1>6. ASSUME NEW ids PROVE Tagged(t, ids) \in SoundTasks(Ids(tags), n) /\ Tagged(t, ids).id = t.id
  <2>1. Known(ids) \subseteq Ids(tags) /\ Known(ids) \subseteq Id
    BY <1>2 DEF Known
  <2> QED  BY <1>1, <2>1 DEF Tagged, SoundTasks, Task
<1>7. ASSUME NEW es, SoundTimes(es)
      PROVE  [t EXCEPT !.entries = es] \in SoundTasks(Ids(tags), n) /\ [t EXCEPT !.entries = es].id = t.id
  BY <1>1, <1>3, <1>7 DEF SoundTasks, Task
<1>8. [t EXCEPT !.done = 0] \in SoundTasks(Ids(tags), n) /\ [t EXCEPT !.done = 0].id = t.id
  BY <1>1 DEF SoundTasks, Task, Opt
<1>9. /\ [t EXCEPT !.done = now, !.entries = StopAll(t.entries)] \in SoundTasks(Ids(tags), n)
      /\ [t EXCEPT !.done = now, !.entries = StopAll(t.entries)].id = t.id
  <2> DEFINE es == StopAll(t.entries)
  <2>1. SoundTimes(es) /\ es \subseteq Entry
    BY <1>3, <1>4
  <2> HIDE DEF es
  <2>2. /\ [t EXCEPT !.done = now, !.entries = es] \in SoundTasks(Ids(tags), n)
        /\ [t EXCEPT !.done = now, !.entries = es].id = t.id
    BY <1>1, <1>2, <2>1 DEF SoundTasks, Task, Opt
  <2> QED  BY <2>2 DEF es
<1> QED  BY <1>5, <1>6, <1>7, <1>8, <1>9

\* A task that comes in under the next id.
LEMMA TaskComesIn ==
    ASSUME RecInv, Saved(1), NEW t \in SoundTasks(Ids(tags), fresh + 1), t.id = fresh,
           tasks' = Append(tasks, t), UNCHANGED <<tags, templates, deletedTags, copy, now>>
    PROVE  RecInv'
<1>1. fresh \in Nat /\ fresh + 1 \in Nat /\ fresh <= fresh + 1 /\ fresh \notin Ids(tasks)
  BY IdsGivenOut
<1>2. SoundTasks(Ids(tags), fresh) \subseteq SoundTasks(Ids(tags), fresh + 1)
  BY <1>1, StaySound
<1>3. tasks \in List(SoundTasks(Ids(tags), fresh + 1))
  BY <1>2, Wider DEF RecInv
<1>4. /\ Append(tasks, t) \in List(SoundTasks(Ids(tags), fresh + 1))
      /\ Ids(Append(tasks, t)) = Ids(tasks) \cup {fresh}
  BY <1>1, <1>3, AppendKeeps
<1>5. tasks' \in List(SoundTasks(Ids(tags), fresh + 1)) /\ Ids(tasks') \subseteq Ids(tasks) \cup {fresh}
  BY <1>4
<1> QED  BY <1>5, TasksChange

\* A task that is put back sound.
LEMMA TaskIsPut ==
    ASSUME RecInv, Saved(0), NEW t \in SoundTasks(Ids(tags), fresh), tasks' = Put(tasks, t),
           UNCHANGED <<tags, templates, deletedTags, copy, now>>
    PROVE  RecInv'
<1>1. fresh \in Nat /\ fresh + 0 = fresh
  BY IdsGivenOut
<1>2. Put(tasks, t) \in List(SoundTasks(Ids(tags), fresh)) /\ Ids(Put(tasks, t)) = Ids(tasks)
  BY PutKeeps DEF RecInv
<1>3. tasks' \in List(SoundTasks(Ids(tags), fresh + 0)) /\ Ids(tasks') \subseteq Ids(tasks) \cup {fresh}
  BY <1>1, <1>2
<1> QED  BY <1>3, TasksChange

\* A new task is sound.
LEMMA NewTaskIsSound ==
    ASSUME RecInv, Saved(1), NEW d, d.due \in Nat, d.start \in Nat, NEW ids
    PROVE  /\ NewTask(fresh, d, ids) \in SoundTasks(Ids(tags), fresh + 1)
           /\ NewTask(fresh, d, ids).id = fresh
<1> DEFINE t == NewTask(fresh, d, ids)
<1>1. fresh \in Id /\ fresh < fresh + 1
  BY RecordsAssumption DEF RecInv, Saved, Id
<1>2. Known(ids) \subseteq Ids(tags) /\ Known(ids) \subseteq Id
  BY IdsGivenOut DEF Known
<1>3. SoundTimes({})
  BY DEF SoundTimes
<1>4. /\ t.id = fresh /\ t.tags = Known(ids) /\ t.entries = {}
      /\ (t.dueTime => t.due > 0) /\ (t.startTime => t.start > 0)
  BY DEF NewTask
<1>5. t \in Task
  BY <1>1, <1>2 DEF NewTask, Task, Opt
<1> HIDE DEF t
<1>6. t \in SoundTasks(Ids(tags), fresh + 1)
  BY <1>1, <1>2, <1>3, <1>4, <1>5 DEF SoundTasks
<1> QED  BY <1>4, <1>6 DEF t

\* The commands on tasks keep the invariant.
LEMMA TaskCommands ==
    ASSUME RecInv, AddTask \/ UpdateTask \/ SetDone \/ DeleteTask \/ DuplicateTask
    PROVE  RecInv'
<1>1. \A id \in Ids(tasks) : /\ Get(tasks, id) \in SoundTasks(Ids(tags), fresh)
                             /\ Get(tasks, id).id = id
  BY IdsGivenOut, GetFinds
<1>2. CASE AddTask
  <2>1. PICK d \in Inputs, ids \in SUBSET Ids(tags) : tasks' = Append(tasks, NewTask(fresh, d, ids))
    BY <1>2 DEF AddTask
  <2>2. Saved(1) /\ UNCHANGED <<tags, templates, deletedTags, copy, now>>
    BY <1>2 DEF AddTask, Dialog
  <2>3. d.due \in Nat /\ d.start \in Nat
    BY DEF Inputs
  <2> QED  BY <2>1, <2>2, <2>3, NewTaskIsSound, TaskComesIn
<1>3. CASE UpdateTask
  <2>1. Saved(0) /\ UNCHANGED <<tags, templates, deletedTags, copy, now>>
    BY <1>3 DEF UpdateTask, Dialog
  <2>2. PICK id \in Ids(tasks) :
           \/ \E d \in Inputs : tasks' = Put(tasks, Edited(Get(tasks, id), d))
           \/ \E ids \in SUBSET Ids(tags) : tasks' = Put(tasks, Tagged(Get(tasks, id), ids))
    BY <1>3 DEF UpdateTask
  <2>3. \E t \in SoundTasks(Ids(tags), fresh) : tasks' = Put(tasks, t)
    BY <1>1, <2>2, TaskStaysSound
  <2> QED  BY <2>1, <2>3, TaskIsPut
<1>4. CASE SetDone
  <2>1. Saved(0) /\ UNCHANGED <<tags, templates, deletedTags, copy, now>>
    BY <1>4 DEF SetDone, Dialog
  <2>2. PICK id \in Ids(tasks), done \in BOOLEAN :
           tasks' = Put(tasks, IF done THEN [Get(tasks, id) EXCEPT !.done = now,
                                               !.entries = StopAll(Get(tasks, id).entries)]
                               ELSE [Get(tasks, id) EXCEPT !.done = 0])
    BY <1>4 DEF SetDone
  <2> DEFINE t == Get(tasks, id)
  <2>3. t \in SoundTasks(Ids(tags), fresh)
    BY <1>1
  <2>4. tasks' = Put(tasks, IF done THEN [t EXCEPT !.done = now, !.entries = StopAll(t.entries)]
                            ELSE [t EXCEPT !.done = 0])
    BY <2>2
  <2> HIDE DEF t
  <2>5. /\ [t EXCEPT !.done = 0] \in SoundTasks(Ids(tags), fresh)
        /\ [t EXCEPT !.done = now, !.entries = StopAll(t.entries)] \in SoundTasks(Ids(tags), fresh)
    BY <2>3, TaskStaysSound
  <2>6. \E u \in SoundTasks(Ids(tags), fresh) : tasks' = Put(tasks, u)
    BY <2>4, <2>5
  <2> QED  BY <2>1, <2>6, TaskIsPut
<1>5. CASE DeleteTask
  <2>1. Saved(0) /\ UNCHANGED <<tags, templates, deletedTags, copy, now>>
    BY <1>5 DEF DeleteTask, Dialog
  <2>2. PICK id \in Ids(tasks) : tasks' = Without(tasks, id)
    BY <1>5 DEF DeleteTask
  <2>3. /\ Without(tasks, id) \in List(SoundTasks(Ids(tags), fresh))
        /\ Ids(Without(tasks, id)) = Ids(tasks) \ {id}
    BY WithoutKeeps DEF RecInv
  <2>4. fresh + 0 = fresh
    BY IdsGivenOut
  <2>5. tasks' \in List(SoundTasks(Ids(tags), fresh + 0)) /\ Ids(tasks') \subseteq Ids(tasks) \cup {fresh}
    BY <2>2, <2>3, <2>4
  <2> QED  BY <2>1, <2>5, TasksChange
<1>6. CASE DuplicateTask
  <2>1. Saved(1) /\ UNCHANGED <<tags, templates, deletedTags, copy, now>>
    BY <1>6 DEF DuplicateTask, Dialog
  <2>2. PICK id \in Ids(tasks) :
           tasks' = Append(tasks, [Get(tasks, id) EXCEPT !.id = fresh, !.tags = Known(Get(tasks, id).tags),
                                                         !.done = 0, !.entries = {}])
    BY <1>6 DEF DuplicateTask
  <2> DEFINE t == Get(tasks, id)
             u == [t EXCEPT !.id = fresh, !.tags = Known(t.tags), !.done = 0, !.entries = {}]
  <2>3. t \in SoundTasks(Ids(tags), fresh)
    BY <1>1
  <2>4. tasks' = Append(tasks, u)
    BY <2>2
  <2> HIDE DEF t
  <2>5. fresh \in Id /\ fresh < fresh + 1
    BY <2>1, RecordsAssumption DEF RecInv, Saved, Id
  <2>6. Known(t.tags) \subseteq Ids(tags) /\ Known(t.tags) \subseteq Id
    BY IdsGivenOut DEF Known
  <2>7. SoundTimes({})
    BY DEF SoundTimes
  <2>8. /\ u \in Task /\ u.id = fresh /\ u.tags = Known(t.tags) /\ u.entries = {}
        /\ (u.dueTime => u.due > 0) /\ (u.startTime => u.start > 0)
    BY <2>3, <2>5, <2>6 DEF SoundTasks, Task, Opt
  <2> HIDE DEF u
  <2>9. u \in SoundTasks(Ids(tags), fresh + 1)
    BY <2>5, <2>6, <2>7, <2>8 DEF SoundTasks
  <2> QED  BY <2>1, <2>4, <2>8, <2>9, TaskComesIn
<1> QED  BY <1>2, <1>3, <1>4, <1>5, <1>6

\* The commands on tracked time keep the invariant.
LEMMA TimeCommands ==
    ASSUME RecInv,
           StartTimer \/ StopTimer \/ AddTimeEntry \/ UpdateTimeEntry \/ DeleteTimeEntry \/ DiscardAfk
    PROVE  RecInv'
<1>1. \A id \in Ids(tasks) : Get(tasks, id) \in SoundTasks(Ids(tags), fresh)
  BY IdsGivenOut, GetFinds
<1>2. /\ now \in Time /\ MaxTick \in Nat /\ \A x \in Time : x \in Nat /\ x > 0
      /\ fresh \in Nat /\ fresh + 0 = fresh /\ fresh <= fresh + 1
  BY IdsGivenOut DEF RecInv, Time
<1>3. \A t \in SoundTasks(Ids(tags), fresh) : SoundTimes(t.entries)
  BY DEF SoundTasks
<1>4. ASSUME NEW t \in SoundTasks(Ids(tags), fresh), NEW es, SoundTimes(es), Timed(t, es),
             NEW n \in 0..1, Saved(n)
      PROVE  RecInv'
  <2> DEFINE u == [t EXCEPT !.entries = es]
  <2>1. tasks' = Put(tasks, u) /\ UNCHANGED <<tags, templates, deletedTags, copy, now>>
    BY <1>4 DEF Timed, Dialog
  <2>2. u \in SoundTasks(Ids(tags), fresh)
    BY <1>4, TaskStaysSound
  <2> HIDE DEF u
  <2>3. Put(tasks, u) \in List(SoundTasks(Ids(tags), fresh)) /\ Ids(Put(tasks, u)) = Ids(tasks)
    BY <2>2, PutKeeps DEF RecInv
  <2> DEFINE k == fresh + n
  <2>4. k \in Nat /\ fresh <= k
    BY <1>2
  <2> HIDE DEF k
  <2>5. SoundTasks(Ids(tags), fresh) \subseteq SoundTasks(Ids(tags), k)
    BY <1>2, <2>4, StaySound
  <2>6. Put(tasks, u) \in List(SoundTasks(Ids(tags), k))
    BY <2>3, <2>5, Wider
  <2>7. /\ tasks' \in List(SoundTasks(Ids(tags), fresh + n))
        /\ Ids(tasks') \subseteq Ids(tasks) \cup {fresh}
    BY <2>1, <2>3, <2>6 DEF k
  <2> QED  BY <1>4, <2>1, <2>7, TasksChange
<1>5. CASE StartTimer
  <2>1. PICK id \in Ids(tasks) : /\ Running(Get(tasks, id)) = {}
                                 /\ Timed(Get(tasks, id), Get(tasks, id).entries \cup
                                            {[id |-> fresh, start |-> now, end |-> 0]})
    BY <1>5 DEF StartTimer
  <2> DEFINE t == Get(tasks, id)
             e == [id |-> fresh, start |-> now, end |-> 0]
  <2>2. t \in SoundTasks(Ids(tags), fresh) /\ {f \in t.entries : f.end = 0} = {} /\ Timed(t, t.entries \cup {e})
    BY <1>1, <2>1 DEF Running
  <2>3. Saved(1) /\ fresh \in Id
    BY <1>5, RecordsAssumption DEF StartTimer, Saved, RecInv, Id
  <2>4. e \in Entry /\ e.end = 0
    BY <1>2, <2>3 DEF Entry, Opt
  <2> HIDE DEF t, e
  <2>5. SoundTimes(t.entries \cup {e})
    BY <1>2, <1>3, <2>2, <2>4, TimesStaySound
  <2> QED  BY <1>4, <2>2, <2>3, <2>5
<1>6. CASE StopTimer
  <2>1. PICK id \in Ids(tasks) : Timed(Get(tasks, id), StopAll(Get(tasks, id).entries))
    BY <1>6 DEF StopTimer
  <2> DEFINE t == Get(tasks, id)
  <2>2. t \in SoundTasks(Ids(tags), fresh) /\ Timed(t, StopAll(t.entries)) /\ Saved(0)
    BY <1>1, <1>6, <2>1 DEF StopTimer
  <2> HIDE DEF t
  <2>3. SoundTimes(StopAll(t.entries))
    BY <1>2, <1>3, <2>2, TimesStaySound
  <2> QED  BY <1>4, <2>2, <2>3
<1>7. CASE AddTimeEntry
  <2>1. PICK id \in Ids(tasks), start \in Time, end \in Time :
           /\ start < end
           /\ Timed(Get(tasks, id), Get(tasks, id).entries \cup
                      {[id |-> fresh, start |-> start, end |-> end]})
    BY <1>7 DEF AddTimeEntry
  <2> DEFINE t == Get(tasks, id)
             e == [id |-> fresh, start |-> start, end |-> end]
  <2>2. t \in SoundTasks(Ids(tags), fresh) /\ Timed(t, t.entries \cup {e})
    BY <1>1, <2>1
  <2>3. Saved(1) /\ fresh \in Id
    BY <1>7, RecordsAssumption DEF AddTimeEntry, Saved, RecInv, Id
  <2>4. e \in Entry /\ e.end > 0 /\ e.start < e.end
    BY <1>2, <2>1, <2>3 DEF Entry, Opt
  <2> HIDE DEF t, e
  <2>5. SoundTimes(t.entries \cup {e})
    BY <1>2, <1>3, <2>2, <2>4, TimesStaySound
  <2> QED  BY <1>4, <2>2, <2>3, <2>5
<1>8. CASE UpdateTimeEntry
  <2>1. PICK id \in Ids(tasks) :
           \E e \in Get(tasks, id).entries, start \in Time, end \in Opt(Time) :
              /\ (end = 0 => e.end = 0) /\ (end > 0 => start < end)
              /\ Timed(Get(tasks, id), (Get(tasks, id).entries \ {e})
                                          \cup {[e EXCEPT !.start = start, !.end = end]})
    BY <1>8 DEF UpdateTimeEntry
  <2> DEFINE t == Get(tasks, id)
  <2>2. t \in SoundTasks(Ids(tags), fresh)
    BY <1>1
  <2>3. PICK e \in t.entries, start \in Time, end \in Opt(Time) :
           /\ (end = 0 => e.end = 0) /\ (end > 0 => start < end)
           /\ Timed(t, (t.entries \ {e}) \cup {[e EXCEPT !.start = start, !.end = end]})
    BY <2>1
  <2> DEFINE f == [e EXCEPT !.start = start, !.end = end]
  <2> HIDE DEF t
  <2>4. SoundTimes(t.entries) /\ e \in Entry
    BY <1>3, <2>2 DEF SoundTimes
  <2>5. f \in Entry /\ f.start = start /\ f.end = end
    BY <2>4 DEF Entry
  <2> HIDE DEF f
  <2>6. SoundTimes((t.entries \ {e}) \cup {f})
    BY <1>2, <2>3, <2>4, <2>5, TimesStaySound
  <2>7. Saved(0) /\ Timed(t, (t.entries \ {e}) \cup {f})
    BY <1>8, <2>3 DEF UpdateTimeEntry, f
  <2> QED  BY <1>4, <2>2, <2>6, <2>7
<1>9. CASE DeleteTimeEntry
  <2>1. PICK id \in Ids(tasks) :
           \E e \in Get(tasks, id).entries : Timed(Get(tasks, id), Get(tasks, id).entries \ {e})
    BY <1>9 DEF DeleteTimeEntry
  <2> DEFINE t == Get(tasks, id)
  <2>2. t \in SoundTasks(Ids(tags), fresh) /\ \E e \in t.entries : Timed(t, t.entries \ {e})
    BY <1>1, <2>1
  <2> HIDE DEF t
  <2>3. PICK e \in t.entries : Timed(t, t.entries \ {e})
    BY <2>2
  <2>4. SoundTimes(t.entries) /\ t.entries \ {e} \in SUBSET t.entries /\ Saved(0)
    BY <1>3, <1>9, <2>2 DEF DeleteTimeEntry
  <2>5. SoundTimes(t.entries \ {e})
    BY <1>2, <2>4, TimesStaySound
  <2> QED  BY <1>4, <2>2, <2>3, <2>4, <2>5
<1>10. CASE DiscardAfk
  <2>1. PICK afk \in Time :
           tasks' = [i \in DOMAIN tasks |-> [tasks[i] EXCEPT !.entries = Discarded(tasks[i].entries, afk)]]
    BY <1>10 DEF DiscardAfk
  <2>2. Saved(0) /\ UNCHANGED <<tags, templates, deletedTags, copy, now>>
    BY <1>10 DEF DiscardAfk, Dialog
  <2>3. tasks \in List(SoundTasks(Ids(tags), fresh)) /\ tasks \in Seq(SoundTasks(Ids(tags), fresh))
    BY IdsGivenOut DEF RecInv
  <2>4. Len(tasks) \in Nat /\ DOMAIN tasks = 1..Len(tasks)
        /\ \A i \in DOMAIN tasks : tasks[i] \in SoundTasks(Ids(tags), fresh)
    BY <2>3
  <2> DEFINE new == [i \in DOMAIN tasks |->
                       [tasks[i] EXCEPT !.entries = Discarded(tasks[i].entries, afk)]]
  <2>5. ASSUME NEW i \in DOMAIN tasks
        PROVE  new[i] \in SoundTasks(Ids(tags), fresh) /\ new[i].id = tasks[i].id
    <3> DEFINE t == tasks[i]
               es == Discarded(t.entries, afk)
    <3>1. t \in SoundTasks(Ids(tags), fresh) /\ new[i] = [t EXCEPT !.entries = es]
      BY <2>4
    <3> HIDE DEF t, new
    <3>2. SoundTimes(es)
      BY <1>2, <1>3, <3>1, TimesStaySound
    <3> HIDE DEF es
    <3>3. /\ [t EXCEPT !.entries = es] \in SoundTasks(Ids(tags), fresh)
          /\ [t EXCEPT !.entries = es].id = t.id
      BY <3>1, <3>2, TaskStaysSound
    <3> QED  BY <3>1, <3>3 DEF t
  <2>6. tasks' = new /\ DOMAIN new = DOMAIN tasks
    BY <2>1
  <2>7. new \in Seq(SoundTasks(Ids(tags), fresh))
    <3>1. new = [i \in 1..Len(tasks) |-> new[i]]
      BY <2>4
    <3> HIDE DEF new
    <3> QED  BY <2>4, <2>5, <3>1
  <2> HIDE DEF new
  <2>8. new \in List(SoundTasks(Ids(tags), fresh)) /\ Ids(new) = Ids(tasks)
    BY <2>3, <2>5, <2>6, <2>7, SameIds
  <2>9. tasks' \in List(SoundTasks(Ids(tags), fresh + 0)) /\ Ids(tasks') \subseteq Ids(tasks) \cup {fresh}
    BY <1>2, <2>6, <2>8
  <2> QED  BY <2>2, <2>9, TasksChange
<1> QED  BY <1>5, <1>6, <1>7, <1>8, <1>9, <1>10

-----------------------------------------------------------------------------
(* Templates *)

\* A schedule whose tag the template carries is sound.
LEMMA ScheduledIsSound ==
    ASSUME NEW T, NEW D, NEW n, NEW t \in Template, t.id < n, t.tags \subseteq T,
           NEW recurs \in BOOLEAN, NEW tag, NEW u \in Scheduled(t, recurs, tag)
    PROVE  u \in SoundTemplates(T, D, n) /\ u.id = t.id
<1>1. CASE recurs
  <2>1. u = [t EXCEPT !.recurs = TRUE, !.recTag = tag] /\ tag \in t.tags
    BY <1>1 DEF Scheduled
  <2>2. tag \in Id
    BY <2>1 DEF Template
  <2> QED  BY <2>1, <2>2 DEF SoundTemplates, Template, Opt
<1>2. CASE ~recurs
  <2>1. u = [t EXCEPT !.recurs = FALSE, !.recTag = 0]
    BY <1>2 DEF Scheduled
  <2> QED  BY <2>1 DEF SoundTemplates, Template, Opt
<1> QED  BY <1>1, <1>2

\* The commands on templates keep the invariant.
LEMMA TemplateCommands ==
    ASSUME RecInv,
           AddTemplate \/ UpdateTemplate \/ DeleteTemplate \/ DuplicateTemplate \/ SpawnRecurring
    PROVE  RecInv'
<1> DEFINE S(n) == SoundTemplates(Ids(tags), deletedTags, n)
<1>1. \A id \in Ids(templates) : /\ Get(templates, id) \in S(fresh) /\ Get(templates, id).id = id
  BY IdsGivenOut, GetFinds
<1>2. /\ fresh \in Nat /\ fresh + 0 = fresh /\ fresh < fresh + 1 /\ fresh \notin Ids(templates)
      /\ \A ids : Known(ids) \subseteq Ids(tags) /\ Known(ids) \subseteq Id
  BY IdsGivenOut DEF Known
<1>3. templates \in List(S(fresh)) /\ templates \in List(S(fresh + 1))
  BY ListsStaySound DEF RecInv
<1>4. ASSUME Saved(1) PROVE fresh \in Id
  BY <1>4, RecordsAssumption DEF RecInv, Saved, Id
<1>5. ASSUME NEW u \in S(fresh + 1), u.id = fresh, templates' = Append(templates, u), Saved(1),
             UNCHANGED <<tasks, tags, deletedTags, copy, now>>
      PROVE  RecInv'
  <2>1. Append(templates, u) \in List(S(fresh + 1))
    BY <1>2, <1>3, <1>5, AppendKeeps
  <2>2. templates' \in List(S(fresh + 1))
    BY <1>5, <2>1
  <2> QED  BY <1>5, <2>2, TemplatesChange
<1>6. CASE AddTemplate
  <2>1. Saved(1) /\ UNCHANGED <<tasks, tags, deletedTags, copy, now>>
    BY <1>6 DEF AddTemplate, Dialog
  <2>2. PICK ids \in SUBSET Ids(tags), recurs \in BOOLEAN, tag \in Opt(Ids(tags)), due \in {0, 1} :
           \E t \in Scheduled([id |-> fresh, tags |-> Known(ids), due |-> due, recurs |-> FALSE,
                               recTag |-> 0], recurs, tag) : templates' = Append(templates, t)
    BY <1>6 DEF AddTemplate
  <2> DEFINE b == [id |-> fresh, tags |-> Known(ids), due |-> due, recurs |-> FALSE, recTag |-> 0]
  <2>3. b \in Template /\ b.id = fresh /\ b.id < fresh + 1 /\ b.tags \subseteq Ids(tags)
    BY <1>2, <1>4, <2>1 DEF Template, Opt
  <2>4. PICK u \in Scheduled(b, recurs, tag) : templates' = Append(templates, u)
    BY <2>2
  <2> HIDE DEF b
  <2>5. u \in S(fresh + 1) /\ u.id = fresh
    <3> DEFINE k == fresh + 1
    <3>1. b.id < k
      BY <2>3
    <3> HIDE DEF k
    <3>2. u \in SoundTemplates(Ids(tags), deletedTags, k)
      BY <2>3, <3>1, ScheduledIsSound
    <3>3. u.id = b.id
      BY <2>3, <3>1, ScheduledIsSound
    <3> QED  BY <2>3, <3>2, <3>3 DEF k
  <2> QED  BY <1>5, <2>1, <2>4, <2>5
<1>7. CASE UpdateTemplate
  <2>1. Saved(0) /\ UNCHANGED <<tasks, tags, deletedTags, copy, now>>
    BY <1>7 DEF UpdateTemplate, Dialog
  <2>2. PICK id \in Ids(templates) :
           \E ids \in {Get(templates, id).tags} \cup SUBSET Ids(tags), recurs \in BOOLEAN,
              tag \in {Get(templates, id).recTag} \cup Opt(Ids(tags)) :
             \E u \in Scheduled(Tagged(Get(templates, id), ids), recurs, tag) :
               templates' = Put(templates, u)
    BY <1>7 DEF UpdateTemplate
  <2> DEFINE t == Get(templates, id)
  <2>3. t \in S(fresh)
    BY <1>1
  <2>4. PICK ids \in {t.tags} \cup SUBSET Ids(tags), recurs \in BOOLEAN,
             tag \in {t.recTag} \cup Opt(Ids(tags)) :
           \E u \in Scheduled(Tagged(t, ids), recurs, tag) : templates' = Put(templates, u)
    BY <2>2
  <2> HIDE DEF t
  <2>5. Tagged(t, ids) \in Template /\ Tagged(t, ids).id < fresh /\ Tagged(t, ids).tags \subseteq Ids(tags)
    BY <1>2, <2>3 DEF Tagged, SoundTemplates, Template
  <2>6. PICK u \in Scheduled(Tagged(t, ids), recurs, tag) : templates' = Put(templates, u)
    BY <2>4
  <2>7. u \in S(fresh)
    BY <2>5, ScheduledIsSound
  <2>8. templates' \in List(S(fresh + 0))
    BY <1>2, <1>3, <2>6, <2>7, PutKeeps
  <2> QED  BY <2>1, <2>8, TemplatesChange
<1>8. CASE DeleteTemplate
  <2>1. Saved(0) /\ UNCHANGED <<tasks, tags, deletedTags, copy, now>>
    BY <1>8 DEF DeleteTemplate, Dialog
  <2>2. PICK id \in Ids(templates) : templates' = Without(templates, id)
    BY <1>8 DEF DeleteTemplate
  <2>3. templates' \in List(S(fresh + 0))
    BY <1>2, <1>3, <2>2, WithoutKeeps
  <2> QED  BY <2>1, <2>3, TemplatesChange
<1>9. CASE DuplicateTemplate
  <2>1. Saved(1) /\ UNCHANGED <<tasks, tags, deletedTags, copy, now>>
    BY <1>9 DEF DuplicateTemplate, Dialog
  <2>2. PICK id \in Ids(templates) :
           templates' = Append(templates, [Get(templates, id) EXCEPT !.id = fresh,
                          !.tags = Known(Get(templates, id).tags),
                          !.recTag = IF Get(templates, id).recurs /\ @ \in Known(Get(templates, id).tags)
                                     THEN @ ELSE 0])
    BY <1>9 DEF DuplicateTemplate
  <2> DEFINE t == Get(templates, id)
             tag == IF t.recurs /\ t.recTag \in Known(t.tags) THEN t.recTag ELSE 0
             u == [t EXCEPT !.id = fresh, !.tags = Known(t.tags), !.recTag = tag]
  <2>3. t \in S(fresh) /\ templates' = Append(templates, u)
    BY <1>1, <2>2
  <2> HIDE DEF t
  <2>4. Known(t.tags) = t.tags
    BY <2>3 DEF SoundTemplates, Known
  <2>5. tag \in Opt(Id)
    BY <2>3 DEF SoundTemplates, Template, Opt
  <2>6. /\ t.recurs => tag \in t.tags \/ (tag = 0 /\ deletedTags # {})
        /\ ~t.recurs => tag = 0
    BY <2>3, <2>4 DEF SoundTemplates
  <2> HIDE DEF tag
  <2>7. /\ u \in Template /\ u.id = fresh /\ u.tags = t.tags /\ u.recurs = t.recurs
        /\ u.recTag = tag
    BY <1>4, <2>1, <2>3, <2>4, <2>5 DEF SoundTemplates, Template
  <2>8. t.tags \subseteq Ids(tags)
    BY <2>3 DEF SoundTemplates
  <2> HIDE DEF u
  <2>9. u \in S(fresh + 1)
    BY <1>2, <2>6, <2>7, <2>8 DEF SoundTemplates
  <2> QED  BY <1>5, <2>1, <2>3, <2>7, <2>9
<1>10. CASE SpawnRecurring
  <2>1. Saved(1) /\ UNCHANGED <<tags, templates, deletedTags, copy, now>>
    BY <1>10 DEF SpawnRecurring, Dialog
  <2>2. PICK id \in Ids(templates), occurrence \in {1, 2} :
           tasks' = Append(tasks, NewTask(fresh, [NoDate EXCEPT !.start = occurrence,
                      !.due = IF Get(templates, id).due = 0 THEN 0 ELSE occurrence + Get(templates, id).due],
                      Get(templates, id).tags))
    BY <1>10 DEF SpawnRecurring
  <2> DEFINE t == Get(templates, id)
             d == [NoDate EXCEPT !.start = occurrence, !.due = IF t.due = 0 THEN 0 ELSE occurrence + t.due]
  <2>3. t.due \in Nat
    BY <1>1 DEF SoundTemplates, Template
  <2>4. tasks' = Append(tasks, NewTask(fresh, d, t.tags))
    BY <2>2
  <2> HIDE DEF t
  <2>5. d.due \in Nat /\ d.start \in Nat
    BY <2>3 DEF NoDate
  <2> HIDE DEF d
  <2> QED  BY <2>1, <2>4, <2>5, NewTaskIsSound, TaskComesIn
<1> QED  BY <1>6, <1>7, <1>8, <1>9, <1>10

-----------------------------------------------------------------------------
(* Tags, MCP tools and the clock *)

\* The commands on tags keep the invariant: no task or template keeps a deleted tag.
LEMMA TagCommands ==
    ASSUME RecInv, AddTag \/ UpdateTag \/ DeleteTag
    PROVE  RecInv'
<1>1. /\ fresh \in Nat /\ fresh + 0 = fresh /\ fresh < fresh + 1 /\ fresh + 1 \in Nat
      /\ fresh \notin Ids(tags) /\ Ids(tags) \subseteq Id
  BY IdsGivenOut
<1>2. /\ tags \in List(SoundTags(fresh)) /\ tags \in List(SoundTags(fresh + 1))
      /\ tasks \in List(SoundTasks(Ids(tags), fresh)) /\ tasks \in Seq(SoundTasks(Ids(tags), fresh))
      /\ tasks \in List(SoundTasks(Ids(tags), fresh + 1))
      /\ templates \in List(SoundTemplates(Ids(tags), deletedTags, fresh))
      /\ templates \in Seq(SoundTemplates(Ids(tags), deletedTags, fresh))
      /\ templates \in List(SoundTemplates(Ids(tags), deletedTags, fresh + 1))
  BY ListsStaySound, IdsGivenOut DEF RecInv
<1>3. CASE AddTag
  <2>1. Saved(1) /\ UNCHANGED <<tasks, templates, deletedTags, copy, now>>
    BY <1>3 DEF AddTag, Dialog
  <2>2. PICK n \in Name, p \in BOOLEAN : tags' = Append(tags, [id |-> fresh, name |-> n, pinned |-> p])
    BY <1>3 DEF AddTag
  <2> DEFINE g == [id |-> fresh, name |-> n, pinned |-> p]
             k == fresh + 1
  <2>3. fresh \in Id
    BY <2>1, RecordsAssumption DEF RecInv, Saved, Id
  <2>4. g \in SoundTags(k) /\ g.id = fresh /\ tags' = Append(tags, g)
    BY <1>1, <2>2, <2>3 DEF SoundTags, Tag
  <2>5. tags \in List(SoundTags(k)) /\ k \in Nat
    BY <1>1, <1>2
  <2> HIDE DEF g
  <2>6. tags' \in List(SoundTags(k)) /\ Ids(tags') = Ids(tags) \cup {fresh}
    <3> HIDE DEF k
    <3>1. Append(tags, g) \in List(SoundTags(k)) /\ Ids(Append(tags, g)) = Ids(tags) \cup {fresh}
      BY <1>1, <2>4, <2>5, AppendKeeps
    <3> QED  BY <2>4, <3>1
  <2>7. tasks' = tasks /\ templates' = templates /\ deletedTags' = deletedTags
    BY <2>1
  <2>8. /\ tasks \in List(SoundTasks(Ids(tags), k))
        /\ templates \in List(SoundTemplates(Ids(tags), deletedTags, k))
    BY <1>2
  <2> HIDE DEF k
  <2> DEFINE T == Ids(tags) \cup {fresh}
  <2>9. Ids(tags) \subseteq T /\ k <= k
    BY <2>5
  <2>10. T = Ids(tags')
    BY <2>6
  <2> HIDE DEF T
  <2>11. /\ SoundTasks(Ids(tags), k) \subseteq SoundTasks(T, k)
         /\ SoundTemplates(Ids(tags), deletedTags, k) \subseteq SoundTemplates(T, deletedTags, k)
    BY <2>5, <2>9, StaySound
  <2>12. tasks \in List(SoundTasks(T, k)) /\ templates \in List(SoundTemplates(T, deletedTags, k))
    BY <2>8, <2>11, Wider
  <2>13. /\ tasks' \in List(SoundTasks(Ids(tags'), fresh + 1))
         /\ templates' \in List(SoundTemplates(Ids(tags'), deletedTags', fresh + 1))
         /\ tags' \in List(SoundTags(fresh + 1))
    BY <2>6, <2>7, <2>10, <2>12 DEF k
  <2>14. copy' = copy /\ Ids(tasks') \subseteq Ids(tasks) \cup {fresh} /\ now' = now
    BY <2>1
  <2> QED  BY <2>1, <2>13, <2>14, DocumentChange
<1>4. CASE UpdateTag
  <2>1. Saved(0) /\ UNCHANGED <<tasks, templates, deletedTags, copy, now>>
    BY <1>4 DEF UpdateTag, Dialog
  <2>2. PICK id \in Ids(tags), n \in Name, p \in BOOLEAN :
           tags' = Put(tags, [id |-> id, name |-> n, pinned |-> p])
    BY <1>4 DEF UpdateTag
  <2> DEFINE g == [id |-> id, name |-> n, pinned |-> p]
  <2>3. id \in Id /\ id < fresh
    <3>1. PICK i \in DOMAIN tags : tags[i].id = id
      BY DEF Ids
    <3>2. tags[i] \in SoundTags(fresh)
      BY IdsGivenOut
    <3> QED  BY <3>1, <3>2 DEF SoundTags, Tag
  <2>4. g \in SoundTags(fresh) /\ tags' = Put(tags, g)
    BY <2>2, <2>3 DEF SoundTags, Tag
  <2> HIDE DEF g
  <2>5. tags' \in List(SoundTags(fresh)) /\ Ids(tags') = Ids(tags)
    <3>1. Put(tags, g) \in List(SoundTags(fresh)) /\ Ids(Put(tags, g)) = Ids(tags)
      BY <1>2, <2>4, PutKeeps
    <3> QED  BY <2>4, <3>1
  <2>6. tasks' = tasks /\ templates' = templates /\ deletedTags' = deletedTags
    BY <2>1
  <2>7. /\ tasks' \in List(SoundTasks(Ids(tags'), fresh + 0))
        /\ templates' \in List(SoundTemplates(Ids(tags'), deletedTags', fresh + 0))
        /\ tags' \in List(SoundTags(fresh + 0))
    BY <1>1, <1>2, <2>5, <2>6
  <2>8. copy' = copy /\ Ids(tasks') \subseteq Ids(tasks) \cup {fresh} /\ now' = now
    BY <2>1
  <2> QED  BY <2>1, <2>7, <2>8, DocumentChange
<1>5. CASE DeleteTag
  <2>1. Saved(0) /\ copy' = copy /\ now' = now
    BY <1>5 DEF DeleteTag, Dialog
  <2>2. PICK id \in Ids(tags) :
           /\ tags' = Without(tags, id) /\ deletedTags' = deletedTags \cup {id}
           /\ tasks' = Untagged(tasks, id) /\ templates' = Untagged(templates, id)
    BY <1>5 DEF DeleteTag
  <2> DEFINE T == Ids(tags) \ {id}
             D == deletedTags \cup {id}
             ours == Untagged(tasks, id)
             plans == Untagged(templates, id)
  <2>3. tags' \in List(SoundTags(fresh)) /\ Ids(tags') = T
    <3>1. Without(tags, id) \in List(SoundTags(fresh)) /\ Ids(Without(tags, id)) = T
      BY <1>2, WithoutKeeps
    <3> QED  BY <2>2, <3>1
  <2>4. ours \in List(SoundTasks(T, fresh)) /\ Ids(ours) = Ids(tasks)
    <3>1. Len(tasks) \in Nat /\ DOMAIN tasks = 1..Len(tasks)
          /\ \A i \in DOMAIN tasks : tasks[i] \in SoundTasks(Ids(tags), fresh)
      BY <1>2
    <3>2. ASSUME NEW i \in DOMAIN tasks
          PROVE  ours[i] \in SoundTasks(T, fresh) /\ ours[i].id = tasks[i].id
      <4> DEFINE t == tasks[i]
      <4>1. t \in SoundTasks(Ids(tags), fresh) /\ ours[i] = [t EXCEPT !.tags = t.tags \ {id}]
        BY <3>1 DEF Untagged
      <4> HIDE DEF t, ours
      <4>2. /\ [t EXCEPT !.tags = t.tags \ {id}] \in SoundTasks(T, fresh)
            /\ [t EXCEPT !.tags = t.tags \ {id}].id = t.id
        BY <4>1 DEF SoundTasks, Task
      <4> QED  BY <4>1, <4>2 DEF t
    <3>3. DOMAIN ours = DOMAIN tasks /\ ours = [i \in 1..Len(tasks) |-> ours[i]]
      BY <3>1 DEF Untagged
    <3> HIDE DEF ours, T
    <3>4. ours \in Seq(SoundTasks(T, fresh))
      BY <3>1, <3>2, <3>3
    <3>5. \A i \in DOMAIN tasks : ours[i].id = tasks[i].id
      BY <3>2
    <3>6. tasks \in List(SoundTasks(Ids(tags), fresh)) /\ DOMAIN ours = DOMAIN tasks
      BY <1>2, <3>3
    <3> QED  BY <3>4, <3>5, <3>6, SameIds
  <2>5. plans \in List(SoundTemplates(T, D, fresh))
    <3>1. Len(templates) \in Nat /\ DOMAIN templates = 1..Len(templates)
          /\ \A i \in DOMAIN templates : templates[i] \in SoundTemplates(Ids(tags), deletedTags, fresh)
      BY <1>2
    <3>2. ASSUME NEW i \in DOMAIN templates
          PROVE  plans[i] \in SoundTemplates(T, D, fresh) /\ plans[i].id = templates[i].id
      <4> DEFINE t == templates[i]
                 u == [t EXCEPT !.tags = t.tags \ {id}]
      <4>1. t \in SoundTemplates(Ids(tags), deletedTags, fresh) /\ plans[i] = u
        BY <3>1 DEF Untagged
      <4> HIDE DEF t, plans
      <4>2. /\ t \in Template /\ t.id < fresh /\ t.tags \subseteq Ids(tags)
            /\ t.recurs => \/ t.recTag \in t.tags \cup deletedTags
                           \/ t.recTag = 0 /\ deletedTags # {}
            /\ ~t.recurs => t.recTag = 0
        BY <4>1 DEF SoundTemplates
      <4>3. /\ u \in Template /\ u.id = t.id /\ u.tags = t.tags \ {id}
            /\ u.recurs = t.recurs /\ u.recTag = t.recTag
        BY <4>2 DEF Template
      <4> HIDE DEF u
      <4>4. u \in SoundTemplates(T, D, fresh)
        BY <4>2, <4>3 DEF SoundTemplates
      <4> QED  BY <4>1, <4>3, <4>4 DEF t
    <3>3. DOMAIN plans = DOMAIN templates /\ plans = [i \in 1..Len(templates) |-> plans[i]]
      BY <3>1 DEF Untagged
    <3> HIDE DEF plans, T, D
    <3>4. plans \in Seq(SoundTemplates(T, D, fresh))
      BY <3>1, <3>2, <3>3
    <3> QED  BY <1>2, <3>2, <3>3, <3>4, SameIds
  <2>6. tasks' = ours /\ templates' = plans /\ deletedTags' = D
    BY <2>2
  <2> HIDE DEF T, D, ours, plans
  <2>7. /\ tasks' \in List(SoundTasks(Ids(tags'), fresh + 0))
        /\ templates' \in List(SoundTemplates(Ids(tags'), deletedTags', fresh + 0))
        /\ tags' \in List(SoundTags(fresh + 0))
    BY <1>1, <2>3, <2>4, <2>5, <2>6
  <2>8. Ids(tasks') \subseteq Ids(tasks) \cup {fresh}
    BY <2>4, <2>6
  <2> QED  BY <2>1, <2>7, <2>8, DocumentChange
<1> QED  BY <1>3, <1>4, <1>5

\* The MCP tools, the clock and a dialog that only looks or closes keep the invariant.
LEMMA ToolsAndClock ==
    ASSUME RecInv,
           McpLookUp \/ McpCreate \/ McpUpdate \/ McpFails \/ Tick \/ ReadConflict \/ Dismiss
           \/ UNCHANGED recVars
    PROVE  RecInv'
<1>1. ASSUME UNCHANGED <<Doc, fresh>>, now' \in Time, copy' \in {copy, <<>>} PROVE RecInv'
  <2>1. tasks' = tasks /\ tags' = tags /\ templates' = templates /\ deletedTags' = deletedTags
        /\ fresh' = fresh
    BY <1>1 DEF Doc
  <2>2. SoundCopy(copy', Ids(tasks'), fresh')
    <3>1. CASE copy' = copy
      BY <2>1, <3>1 DEF RecInv
    <3>2. CASE copy' = <<>>
      BY <3>2 DEF SoundCopy
    <3> QED  BY <1>1, <3>1, <3>2
  <2>3. /\ tasks' \in List(SoundTasks(Ids(tags'), fresh'))
        /\ tags' \in List(SoundTags(fresh'))
        /\ templates' \in List(SoundTemplates(Ids(tags'), deletedTags', fresh'))
        /\ fresh' \in 1..(MaxId + 1)
    BY <2>1 DEF RecInv
  <2> QED  BY <1>1, <2>2, <2>3 DEF RecInv
<1>2. CASE McpLookUp \/ McpFails \/ ReadConflict \/ Dismiss \/ UNCHANGED recVars
  <2>1. UNCHANGED <<Doc, fresh>> /\ now' = now /\ copy' \in {copy, <<>>}
    BY <1>2 DEF McpLookUp, McpFails, ReadConflict, Dismiss, recVars, Doc, Dialog
  <2> QED  BY <1>1, <2>1 DEF RecInv
<1>3. CASE Tick
  <2>1. UNCHANGED <<Doc, fresh>> /\ now < MaxTick /\ now' = now + 1 /\ copy' \in {copy, <<>>}
    BY <1>3 DEF Tick, Dialog
  <2>2. now' \in Time
    BY <2>1, RecordsAssumption DEF RecInv, Time
  <2> QED  BY <1>1, <2>1, <2>2
<1>4. CASE McpCreate
  <2>1. /\ Saved(1) /\ UNCHANGED <<tags, templates, deletedTags, copy, now>>
        /\ tasks' = Append(tasks, NewTask(fresh, NoDate, call.tags))
    BY <1>4 DEF McpCreate, Dialog
  <2>2. NoDate.due \in Nat /\ NoDate.start \in Nat
    BY DEF NoDate
  <2> QED  BY <2>1, <2>2, NewTaskIsSound, TaskComesIn
<1>5. CASE McpUpdate
  <2>1. /\ Saved(0) /\ UNCHANGED <<tags, templates, deletedTags, copy, now>>
        /\ call.task \in Ids(tasks) /\ tasks' = Put(tasks, Tagged(Get(tasks, call.task), call.tags))
    BY <1>5 DEF McpUpdate, Dialog
  <2>2. Get(tasks, call.task) \in SoundTasks(Ids(tags), fresh)
    BY <2>1, IdsGivenOut, GetFinds
  <2>3. Tagged(Get(tasks, call.task), call.tags) \in SoundTasks(Ids(tags), fresh)
    BY <2>2, TaskStaysSound
  <2> QED  BY <2>1, <2>3, TaskIsPut
<1> QED  BY <1>2, <1>3, <1>4, <1>5

-----------------------------------------------------------------------------
(* Conflict copies *)

\* The ids of a concatenation.
LEMMA JoinedIds ==
    ASSUME NEW S, NEW s \in Seq(S), NEW t \in Seq(S)
    PROVE  Ids(s \o t) = Ids(s) \cup Ids(t)
<1> DEFINE u == s \o t
<1>1. /\ \A k \in DOMAIN s : k \in DOMAIN u /\ u[k] = s[k]
      /\ \A k \in DOMAIN t : Len(s) + k \in DOMAIN u /\ u[Len(s) + k] = t[k]
      /\ \A k \in DOMAIN u : k \in DOMAIN s \/ \E j \in DOMAIN t : k = Len(s) + j
  BY Joined
<1> HIDE DEF u
<1>2. ASSUME NEW k \in DOMAIN u PROVE u[k].id \in Ids(s) \cup Ids(t)
  <2>1. CASE k \in DOMAIN s
    BY <1>1, <2>1 DEF Ids
  <2>2. CASE k \notin DOMAIN s
    <3>1. PICK j \in DOMAIN t : k = Len(s) + j
      BY <1>1, <2>2
    <3>2. u[k] = t[j]
      BY <1>1, <3>1
    <3> QED  BY <3>2 DEF Ids
  <2> QED  BY <2>1, <2>2
<1>3. \A k \in DOMAIN s : s[k].id \in Ids(u)
  BY <1>1 DEF Ids
<1>4. \A k \in DOMAIN t : t[k].id \in Ids(u)
  BY <1>1 DEF Ids
<1>5. Ids(u) \subseteq Ids(s) \cup Ids(t)
  BY <1>2 DEF Ids
<1>6. Ids(s) \subseteq Ids(u) /\ Ids(t) \subseteq Ids(u)
  BY <1>3, <1>4 DEF Ids
<1> QED  BY <1>5, <1>6 DEF u

\* The ids of the tags on either side of a conflict.
BothTags == Ids(tags) \cup Ids(copy.tags)

\* What one decision leaves of a task of ours: sound tasks with its id and, for a second
\* copy, the next one.
LEMMA KeepIsSound ==
    ASSUME RecInv, copy # <<>>, Saved(1), NEW t \in SoundTasks(Ids(tags), fresh),
           t.id # fresh, NEW action \in Action
    PROVE  /\ Keep(t, action) \in List(SoundTasks(BothTags, fresh + 1))
           /\ Ids(Keep(t, action)) \subseteq {t.id, fresh}
           /\ fresh \in Ids(Keep(t, action)) => t.id \in Ids(copy.tasks)
           /\ action # "drop" => t.id \in Ids(Keep(t, action))
           /\ action = "keep_mine" => Keep(t, action) = <<t>>
<1> DEFINE S == SoundTasks(BothTags, fresh + 1)
           c == Get(copy.tasks, t.id)
           second == [c EXCEPT !.id = fresh]
<1>1. fresh \in Nat /\ fresh + 1 \in Nat /\ fresh <= fresh + 1 /\ fresh < fresh + 1
  BY IdsGivenOut
<1>2. /\ SoundTasks(Ids(tags), fresh) \subseteq S
      /\ SoundTasks(Ids(copy.tags), fresh) \subseteq S
  <2> DEFINE k == fresh + 1
  <2>1. k \in Nat /\ fresh <= k
    BY <1>1
  <2> HIDE DEF k
  <2>2. Ids(tags) \subseteq BothTags /\ Ids(copy.tags) \subseteq BothTags
    BY DEF BothTags
  <2>3. /\ SoundTasks(Ids(tags), fresh) \subseteq SoundTasks(BothTags, k)
        /\ SoundTasks(Ids(copy.tags), fresh) \subseteq SoundTasks(BothTags, k)
    BY <1>1, <2>1, <2>2, StaySound
  <2> QED  BY <2>3 DEF k
<1>3. copy.tasks \in Seq(SoundTasks(Ids(copy.tags), fresh))
  BY DEF RecInv, SoundCopy, List
<1>4. t \in S
  BY <1>2
<1>5. ASSUME t.id \in Ids(copy.tasks)
      PROVE  /\ c \in S /\ c.id = t.id
             /\ second \in S /\ second.id = fresh
  <2>1. c \in SoundTasks(Ids(copy.tags), fresh) /\ c.id = t.id
    BY <1>3, <1>5, GetFinds
  <2>2. c \in S
    BY <1>2, <2>1
  <2>3. fresh \in Id
    BY RecordsAssumption DEF RecInv, Saved, Id
  <2> HIDE DEF c
  <2>4. second \in S /\ second.id = fresh
    BY <1>1, <2>2, <2>3 DEF SoundTasks, Task
  <2> QED  BY <2>1, <2>2, <2>4
<1> HIDE DEF S, c, second
<1>6. \A x \in S : <<x>> \in Seq(S) /\ DOMAIN <<x>> = {1} /\ <<x>>[1] = x
  OBVIOUS
<1>7. \A x \in S : <<x>> \in List(S) /\ Ids(<<x>>) = {x.id}
  BY <1>6 DEF List, Distinct, Ids
<1>8. CASE action = "keep_mine"
  <2>1. Keep(t, action) = <<t>>
    BY <1>8 DEF Keep
  <2> QED  BY <1>4, <1>7, <1>8, <2>1 DEF S
<1>9. CASE action = "keep_theirs"
  <2>1. Keep(t, action) = <<IF t.id \in Ids(copy.tasks) THEN c ELSE t>>
    BY <1>9 DEF Keep, c
  <2>2. CASE t.id \in Ids(copy.tasks)
    <3>1. Keep(t, action) = <<c>> /\ c \in S /\ c.id = t.id
      BY <1>5, <2>1, <2>2
    <3> QED  BY <1>7, <1>9, <3>1 DEF S
  <2>3. CASE t.id \notin Ids(copy.tasks)
    <3>1. Keep(t, action) = <<t>>
      BY <2>1, <2>3
    <3> QED  BY <1>4, <1>7, <1>9, <3>1 DEF S
  <2> QED  BY <2>2, <2>3
<1>10. CASE action = "keep_both"
  <2>1. Keep(t, action) = IF t.id \in Ids(copy.tasks) THEN <<t, second>> ELSE <<t>>
    BY <1>10 DEF Keep, c, second
  <2>2. CASE t.id \in Ids(copy.tasks)
    <3>1. Keep(t, action) = <<t, second>> /\ second \in S /\ second.id = fresh
      BY <1>5, <2>1, <2>2
    <3>2. \A x, y \in S : <<x, y>> \in Seq(S) /\ DOMAIN <<x, y>> = {1, 2}
                          /\ <<x, y>>[1] = x /\ <<x, y>>[2] = y
      OBVIOUS
    <3>3. Distinct(<<t, second>>) /\ Ids(<<t, second>>) = {t.id, fresh}
      BY <1>4, <3>1, <3>2 DEF Distinct, Ids
    <3>4. <<t, second>> \in List(S)
      BY <1>4, <3>1, <3>2, <3>3 DEF List
    <3> QED  BY <1>10, <2>2, <3>1, <3>3, <3>4 DEF S
  <2>3. CASE t.id \notin Ids(copy.tasks)
    <3>1. Keep(t, action) = <<t>>
      BY <2>1, <2>3
    <3> QED  BY <1>4, <1>7, <1>10, <3>1 DEF S
  <2> QED  BY <2>2, <2>3
<1>11. CASE action = "drop"
  <2>1. Keep(t, action) = <<>>
    BY <1>11 DEF Keep
  <2>2. <<>> \in Seq(S) /\ DOMAIN <<>> = {}
    OBVIOUS
  <2>3. <<>> \in List(S) /\ Ids(<<>>) = {}
    BY <2>2 DEF List, Distinct, Ids
  <2> QED  BY <1>11, <2>1, <2>3 DEF S
<1> QED  BY <1>8, <1>9, <1>10, <1>11 DEF Action

\* The tasks after any decisions: sound beside the tags of both sides, a task that nothing
\* was decided about is as it was, and one is missing only if it was decided against.
LEMMA ResolvedKeeps ==
    ASSUME RecInv, copy # <<>>, Saved(1), NEW D, NEW d \in [D -> Action]
    PROVE  /\ Resolved(d) \in List(SoundTasks(BothTags, fresh + 1))
           /\ \A id \in Ids(tasks) \ D : id \in Ids(Resolved(d)) /\ Get(Resolved(d), id) = Get(tasks, id)
           /\ \A id \in Ids(tasks) : id \in D /\ d[id] # "drop" => id \in Ids(Resolved(d))
           /\ \A id \in Ids(copy.tasks) \ Ids(tasks) :
                id \notin D \/ d[id] \in BringIn => id \in Ids(Resolved(d))
<1> DEFINE S == SoundTasks(BothTags, fresh + 1)
           act(id) == Decided(d, id, "keep_mine")
           seqs == [i \in DOMAIN tasks |-> Keep(tasks[i], act(tasks[i].id))]
           I == {i \in OnlyTheirs : Decided(d, copy.tasks[i].id, "keep_theirs") \in BringIn}
           ours == FlattenSeq(seqs)
           theirs == At(copy.tasks, I)
           N == Len(tasks)
<1>1. /\ N \in Nat /\ DOMAIN tasks = 1..N /\ Distinct(tasks) /\ fresh \notin Ids(tasks)
      /\ \A i \in 1..N : tasks[i] \in SoundTasks(Ids(tags), fresh)
      /\ fresh \notin Ids(copy.tasks) /\ fresh \in Nat
      /\ tasks \in Seq(SoundTasks(Ids(tags), fresh))
  <2>1. /\ tasks \in Seq(SoundTasks(Ids(tags), fresh)) /\ Distinct(tasks)
        /\ fresh \notin Ids(tasks) /\ fresh \notin Ids(copy.tasks) /\ fresh \in Nat
    BY IdsGivenOut
  <2> QED  BY <2>1
<1>2. \A i \in 1..N : tasks[i].id \in Ids(tasks) /\ tasks[i].id # fresh
  BY <1>1 DEF Ids
<1>3. Resolved(d) = ours \o theirs
  BY DEF Resolved
<1>4. /\ copy.tasks \in List(SoundTasks(Ids(copy.tags), fresh))
      /\ copy.tasks \in Seq(SoundTasks(Ids(copy.tags), fresh)) /\ Distinct(copy.tasks)
      /\ \A a, b \in Ids(tasks) \cap Ids(copy.tasks) : a = b
  BY DEF RecInv, SoundCopy, List
<1>5. SoundTasks(Ids(copy.tags), fresh) \subseteq S
  <2> DEFINE k == fresh + 1
  <2>1. k \in Nat /\ fresh \in Nat /\ fresh <= k
    BY <1>1
  <2> HIDE DEF k
  <2>2. Ids(copy.tags) \subseteq BothTags
    BY DEF BothTags
  <2>3. SoundTasks(Ids(copy.tags), fresh) \subseteq SoundTasks(BothTags, k)
    BY <2>1, <2>2, StaySound
  <2> QED  BY <2>3 DEF k
<1>6. \A id : act(id) \in Action /\ (id \in D => act(id) = d[id]) /\ (id \notin D => act(id) = "keep_mine")
  BY DEF Decided, Action
<1>7. \A i \in 1..N : seqs[i] = Keep(tasks[i], act(tasks[i].id))
  BY <1>1
<1>8. DOMAIN seqs = 1..N /\ seqs = [i \in 1..N |-> seqs[i]]
  BY <1>1
<1> HIDE DEF act, seqs, S, N
<1>9. \A i \in 1..N : /\ seqs[i] \in List(S) /\ Ids(seqs[i]) \subseteq {tasks[i].id, fresh}
                      /\ fresh \in Ids(seqs[i]) => tasks[i].id \in Ids(copy.tasks)
                      /\ act(tasks[i].id) # "drop" => tasks[i].id \in Ids(seqs[i])
                      /\ act(tasks[i].id) = "keep_mine" => seqs[i] = <<tasks[i]>>
  BY <1>1, <1>2, <1>6, <1>7, KeepIsSound DEF S
<1>10. \A i \in 1..N : seqs[i] \in Seq(S) /\ Distinct(seqs[i])
  BY <1>9 DEF List
<1>11. seqs \in Seq(Seq(S)) /\ Len(seqs) = N
  BY <1>1, <1>8, <1>10 DEF N
<1>12. Gathers(ours, seqs, S, N)
  BY <1>11, FlattenGathers
<1>13. Apart(seqs)
  <2>1. ASSUME NEW i \in 1..N, NEW j \in 1..N, i # j, NEW x \in Ids(seqs[i]) \cap Ids(seqs[j])
        PROVE  FALSE
    <3>1. tasks[i].id # tasks[j].id
      BY <1>1, <2>1 DEF Distinct
    <3>2. x = fresh
      BY <1>9, <2>1, <3>1
    <3>3. tasks[i].id \in Ids(tasks) \cap Ids(copy.tasks) /\ tasks[j].id \in Ids(tasks) \cap Ids(copy.tasks)
      BY <1>2, <1>9, <2>1, <3>2
    <3> QED  BY <1>4, <3>1, <3>3
  <2> QED  BY <1>8, <1>10, <2>1 DEF Apart
<1>14. ours \in List(S)
  BY <1>12, <1>13 DEF Gathers, List
<1> HIDE DEF ours
<1>15. Ids(ours) \subseteq Ids(tasks) \cup {fresh}
  <2>1. SUFFICES ASSUME NEW k \in DOMAIN ours PROVE ours[k].id \in Ids(tasks) \cup {fresh}
    BY DEF Ids
  <2>2. PICK i \in 1..N : \E j \in DOMAIN seqs[i] : ours[k] = seqs[i][j]
    BY <1>12 DEF Gathers
  <2>3. ours[k].id \in Ids(seqs[i])
    BY <2>2 DEF Ids
  <2> QED  BY <1>2, <1>9, <2>3
<1>16. I \in SUBSET DOMAIN copy.tasks /\ \A i \in I : copy.tasks[i].id \notin Ids(tasks)
  BY DEF OnlyTheirs
<1>17. \A i \in DOMAIN copy.tasks : copy.tasks[i].id \notin Ids(tasks)
         /\ (copy.tasks[i].id \notin D \/ d[copy.tasks[i].id] \in BringIn) => i \in I
  BY DEF OnlyTheirs, Decided, BringIn
<1> HIDE DEF I
<1>18. /\ theirs \in Seq(SoundTasks(Ids(copy.tags), fresh)) /\ Distinct(theirs)
       /\ \A k \in DOMAIN theirs : \E i \in I : theirs[k] = copy.tasks[i]
       /\ \A i \in I : \E k \in DOMAIN theirs : theirs[k] = copy.tasks[i]
  BY <1>4, <1>16, AtKeeps
<1> HIDE DEF theirs
<1>19. theirs \in List(S)
  <2>1. theirs \in List(SoundTasks(Ids(copy.tags), fresh))
    BY <1>18 DEF List
  <2> QED  BY <1>5, <2>1, Wider
<1>20. Ids(ours) \cap Ids(theirs) = {}
  <2>1. \A k \in DOMAIN theirs : theirs[k].id \in Ids(copy.tasks) \ Ids(tasks)
    BY <1>16, <1>18 DEF Ids
  <2>2. Ids(theirs) \subseteq Ids(copy.tasks) \ Ids(tasks)
    BY <2>1 DEF Ids
  <2> QED  BY <1>1, <1>15, <2>2
<1>21. ours \o theirs \in List(S)
  BY <1>14, <1>19, <1>20, JoinedApart
<1>22. /\ ours \in Seq(S) /\ theirs \in Seq(S) /\ ours \o theirs \in Seq(S)
       /\ Distinct(ours \o theirs)
  BY <1>14, <1>19, <1>21 DEF List
<1>23. Ids(ours \o theirs) = Ids(ours) \cup Ids(theirs)
  BY <1>22, JoinedIds
<1>24. ASSUME NEW id \in Ids(tasks), act(id) # "drop" PROVE id \in Ids(ours)
  <2>1. PICK i \in 1..N : tasks[i].id = id
    BY <1>1 DEF Ids
  <2>2. id \in Ids(seqs[i])
    BY <1>9, <1>24, <2>1
  <2>3. PICK j \in DOMAIN seqs[i] : seqs[i][j].id = id
    BY <2>2 DEF Ids
  <2>4. PICK k \in DOMAIN ours : ours[k] = seqs[i][j]
    BY <1>12 DEF Gathers
  <2> QED  BY <2>3, <2>4 DEF Ids
<1>25. ASSUME NEW id \in Ids(tasks) \ D
       PROVE  id \in Ids(ours) /\ Get(ours \o theirs, id) = Get(tasks, id)
  <2>1. PICK i \in 1..N : tasks[i].id = id
    BY <1>1 DEF Ids
  <2>2. act(id) = "keep_mine" /\ act(id) # "drop"
    BY <1>6
  <2>3. seqs[i] = <<tasks[i]>>
    BY <1>9, <2>1, <2>2
  <2>4. 1 \in DOMAIN seqs[i] /\ seqs[i][1] = tasks[i]
    BY <2>3
  <2>5. PICK k \in DOMAIN ours : ours[k] = tasks[i]
    BY <1>12, <2>4 DEF Gathers
  <2> DEFINE list == ours \o theirs
  <2>6. k \in DOMAIN list /\ list[k] = tasks[i]
    BY <1>22, <2>5, Joined
  <2>7. list \in Seq(S) /\ Distinct(list)
    BY <1>22
  <2> HIDE DEF list
  <2>8. Get(list, id) = tasks[i]
    BY <2>1, <2>6, <2>7, GetFinds
  <2>9. Get(tasks, id) = tasks[i]
    BY <1>1, <2>1, GetFinds
  <2>10. id \in Ids(ours)
    BY <1>24, <2>2
  <2> QED  BY <2>8, <2>9, <2>10 DEF list
<1>26. ASSUME NEW id \in Ids(copy.tasks) \ Ids(tasks), id \notin D \/ d[id] \in BringIn
       PROVE  id \in Ids(theirs)
  <2>1. PICK i \in DOMAIN copy.tasks : copy.tasks[i].id = id
    BY DEF Ids
  <2>2. i \in I
    BY <1>17, <1>26, <2>1
  <2>3. PICK k \in DOMAIN theirs : theirs[k] = copy.tasks[i]
    BY <1>18, <2>2
  <2> QED  BY <2>1, <2>3 DEF Ids
<1>27. \A id \in Ids(tasks) : id \in D /\ d[id] # "drop" => id \in Ids(ours)
  BY <1>6, <1>24
<1> QED  BY <1>3, <1>21, <1>23, <1>25, <1>26, <1>27 DEF S

\* Resolving brings the tags that its tasks need, so it keeps the invariant.
LEMMA ResolveKeeps ==
    ASSUME RecInv, Resolve
    PROVE  RecInv'
<1>1. Saved(1) /\ copy # <<>> /\ copy' = <<>> /\ UNCHANGED <<templates, deletedTags, now>>
  BY DEF Resolve
<1>2. PICK D \in SUBSET asked : \E d \in [D -> Action] :
         tasks' = Resolved(d) /\ tags' = tags \o TagsToMerge(Resolved(d))
  BY DEF Resolve
<1>3. PICK d \in [D -> Action] : tasks' = Resolved(d) /\ tags' = tags \o TagsToMerge(Resolved(d))
  BY <1>2
<1> DEFINE list == Resolved(d)
           k == fresh + 1
           J == {j \in DOMAIN copy.tags : /\ copy.tags[j].id \notin Ids(tags)
                                          /\ \E i \in DOMAIN list : copy.tags[j].id \in list[i].tags}
           more == At(copy.tags, J)
<1>4. list \in List(SoundTasks(BothTags, k))
  BY <1>1, ResolvedKeeps
<1>5. fresh \in Nat /\ k \in Nat /\ fresh <= k /\ k <= k
  BY IdsGivenOut
<1>6. tags \in List(SoundTags(k)) /\ templates \in List(SoundTemplates(Ids(tags), deletedTags, k))
  BY ListsStaySound
<1>7. copy.tags \in List(SoundTags(k))
  <2> HIDE DEF k
  <2>1. copy.tags \in List(SoundTags(fresh))
    BY <1>1 DEF RecInv, SoundCopy
  <2>2. SoundTags(fresh) \subseteq SoundTags(k)
    BY <1>5, StaySound
  <2> QED  BY <2>1, <2>2, Wider
<1>8. tags' = tags \o more /\ tasks' = list
  BY <1>3 DEF TagsToMerge
<1> HIDE DEF k, list
<1>9. J \in SUBSET DOMAIN copy.tags /\ \A j \in J : copy.tags[j].id \notin Ids(tags)
  OBVIOUS
<1>10. \A j \in DOMAIN copy.tags :
         copy.tags[j].id \notin Ids(tags) /\ (\E i \in DOMAIN list : copy.tags[j].id \in list[i].tags)
           => j \in J
  OBVIOUS
<1> HIDE DEF J
<1>11. copy.tags \in Seq(SoundTags(k)) /\ Distinct(copy.tags)
  BY <1>7 DEF List
<1>12. /\ more \in Seq(SoundTags(k)) /\ Distinct(more)
       /\ \A m \in DOMAIN more : \E j \in J : more[m] = copy.tags[j]
       /\ \A j \in J : \E m \in DOMAIN more : more[m] = copy.tags[j]
  BY <1>9, <1>11, AtKeeps
<1> HIDE DEF more
<1>13. Ids(tags) \cap Ids(more) = {}
  <2>1. \A m \in DOMAIN more : more[m].id \notin Ids(tags)
    BY <1>9, <1>12
  <2> QED  BY <2>1 DEF Ids
<1>14. tags \o more \in List(SoundTags(k))
  <2>1. more \in List(SoundTags(k))
    BY <1>12 DEF List
  <2> QED  BY <1>6, <1>13, <2>1, JoinedApart
<1> DEFINE T == Ids(tags) \cup Ids(more)
<1>15. Ids(tags') = T
  <2>1. tags \in Seq(SoundTags(k))
    BY <1>6 DEF List
  <2>2. Ids(tags \o more) = T
    BY <1>12, <2>1, JoinedIds
  <2> QED  BY <1>8, <2>2
<1>16. list \in List(SoundTasks(T, k))
  <2>1. SUFFICES ASSUME NEW i \in DOMAIN list, list[i] \in SoundTasks(BothTags, k)
                 PROVE  list[i] \in SoundTasks(T, k)
    BY <1>4, Wider
  <2>2. ASSUME NEW g \in list[i].tags PROVE g \in T
    <3>1. g \in Ids(tags) \/ g \in Ids(copy.tags)
      BY <2>1, <2>2 DEF SoundTasks, BothTags
    <3>2. CASE g \notin Ids(tags)
      <4>1. PICK j \in DOMAIN copy.tags : copy.tags[j].id = g
        BY <3>1, <3>2 DEF Ids
      <4>2. j \in J
        BY <1>10, <2>2, <3>2, <4>1
      <4>3. PICK m \in DOMAIN more : more[m] = copy.tags[j]
        BY <1>12, <4>2
      <4>4. g \in Ids(more)
        BY <4>1, <4>3 DEF Ids
      <4> QED  BY <4>4
    <3> QED  BY <3>2
  <2> HIDE DEF T
  <2>3. list[i].tags \subseteq T
    BY <2>2
  <2> QED  BY <2>1, <2>3 DEF SoundTasks
<1>17. templates \in List(SoundTemplates(T, deletedTags, k))
  <2>1. Ids(tags) \subseteq T
    OBVIOUS
  <2> HIDE DEF T
  <2>2. SoundTemplates(Ids(tags), deletedTags, k) \subseteq SoundTemplates(T, deletedTags, k)
    BY <1>5, <2>1, StaySound
  <2> QED  BY <1>6, <2>2, Wider
<1> HIDE DEF T
<1>18. /\ tasks' \in List(SoundTasks(Ids(tags'), fresh + 1))
       /\ tags' \in List(SoundTags(fresh + 1))
       /\ templates' \in List(SoundTemplates(Ids(tags'), deletedTags', fresh + 1))
  BY <1>1, <1>8, <1>14, <1>15, <1>16, <1>17 DEF k
<1> QED  BY <1>1, <1>18, DocumentChange

-----------------------------------------------------------------------------
(* The invariant holds *)

\* The device and the conflict copy of the start are sound.
LEMMA StartsSound == RecInit => RecInv
<1> SUFFICES ASSUME RecInit PROVE RecInv
  OBVIOUS
<1> DEFINE name == CHOOSE n \in Name : TRUE
           g1 == [id |-> 1, name |-> name, pinned |-> TRUE]
           g3 == [id |-> 3, name |-> name, pinned |-> FALSE]
           mine == [TaskOf(2, {1}) EXCEPT !.entries = {[id |-> 6, start |-> 1, end |-> 0]}]
           edited == [TaskOf(2, {1, 3}) EXCEPT !.due = 1]
           added == TaskOf(4, {3})
           plan == [id |-> 5, tags |-> {1}, due |-> 1, recurs |-> TRUE, recTag |-> 1]
<1>1. name \in Name
  BY RecordsAssumption
<1>2. /\ tags = <<g1>> /\ tasks = <<mine>> /\ templates = <<plan>> /\ deletedTags = {}
      /\ copy = [tasks |-> <<edited, added>>, tags |-> tags \o <<g3>>]
      /\ now = 1 /\ fresh = 7
  BY DEF RecInit
<1>3. MaxId \in Nat /\ MaxId >= 6 /\ {1, 2, 3, 4, 5, 6} \subseteq Id /\ 1 \in Time /\ 7 \in 1..(MaxId + 1)
  BY RecordsAssumption DEF Id, Time
<1>4. g1 \in SoundTags(7) /\ g3 \in SoundTags(7) /\ g1.id = 1 /\ g3.id = 3
  BY <1>1, <1>3 DEF SoundTags, Tag
<1>5. SoundTimes({}) /\ SoundTimes({[id |-> 6, start |-> 1, end |-> 0]})
  <2>1. [id |-> 6, start |-> 1, end |-> 0] \in Entry
    BY <1>3 DEF Entry, Opt
  <2> QED  BY <2>1 DEF SoundTimes
<1> DEFINE es == {[id |-> 6, start |-> 1, end |-> 0]}
<1>6. es \subseteq Entry
  BY <1>5 DEF SoundTimes
<1> HIDE DEF name
<1>7. mine \in SoundTasks({1}, 7) /\ mine.id = 2
  <2>1. mine = [TaskOf(2, {1}) EXCEPT !.entries = es] /\ SoundTimes(es)
    BY <1>5
  <2> HIDE DEF mine, es
  <2>2. mine = [id |-> 2, tags |-> {1}, done |-> 0, entries |-> es, due |-> 0,
                dueTime |-> FALSE, start |-> 0, startTime |-> FALSE]
    BY <2>1 DEF TaskOf
  <2>3. mine \in Task
    BY <1>3, <1>6, <2>2 DEF Task, Opt
  <2> QED  BY <2>1, <2>2, <2>3 DEF SoundTasks
<1>8. edited \in SoundTasks({1, 3}, 7) /\ edited.id = 2
  <2>1. edited = [id |-> 2, tags |-> {1, 3}, done |-> 0, entries |-> {}, due |-> 1,
                  dueTime |-> FALSE, start |-> 0, startTime |-> FALSE]
    <3> DEFINE both == {1, 3}
               base == TaskOf(2, both)
    <3>1. edited = [base EXCEPT !.due = 1]
      OBVIOUS
    <3> HIDE DEF edited, both
    <3>2. base = [id |-> 2, tags |-> both, done |-> 0, entries |-> {}, due |-> 0,
                  dueTime |-> FALSE, start |-> 0, startTime |-> FALSE]
      BY DEF TaskOf
    <3> HIDE DEF base
    <3>3. edited = [id |-> 2, tags |-> both, done |-> 0, entries |-> {}, due |-> 1,
                    dueTime |-> FALSE, start |-> 0, startTime |-> FALSE]
      BY <3>1, <3>2
    <3> QED  BY <3>3 DEF both
  <2> HIDE DEF edited
  <2>2. edited \in Task
    BY <1>3, <2>1 DEF Task, Opt
  <2> QED  BY <1>5, <2>1, <2>2 DEF SoundTasks
<1>9. added \in SoundTasks({1, 3}, 7) /\ added.id = 4
  <2>1. added = [id |-> 4, tags |-> {3}, done |-> 0, entries |-> {}, due |-> 0,
                 dueTime |-> FALSE, start |-> 0, startTime |-> FALSE]
    BY DEF TaskOf
  <2> HIDE DEF added
  <2>2. added \in Task
    BY <1>3, <2>1 DEF Task, Opt
  <2> QED  BY <1>5, <2>1, <2>2 DEF SoundTasks
<1>10. plan \in SoundTemplates({1}, {}, 7)
  <2>1. plan \in Template
    BY <1>3 DEF Template, Opt
  <2> QED  BY <2>1 DEF SoundTemplates
<1> HIDE DEF g1, g3, mine, edited, added, plan
<1>11. \A x : DOMAIN <<x>> = {1} /\ <<x>>[1] = x /\ \A S : x \in S => <<x>> \in Seq(S)
  OBVIOUS
<1>12. \A x, y : DOMAIN <<x, y>> = {1, 2} /\ <<x, y>>[1] = x /\ <<x, y>>[2] = y
                 /\ \A S : x \in S /\ y \in S => <<x, y>> \in Seq(S)
  OBVIOUS
<1>13. tags \in List(SoundTags(7)) /\ Ids(tags) = {1}
  BY <1>2, <1>4, <1>11 DEF List, Distinct, Ids
<1>14. tasks \in List(SoundTasks({1}, 7)) /\ Ids(tasks) = {2}
  BY <1>2, <1>7, <1>11 DEF List, Distinct, Ids
<1>15. templates \in List(SoundTemplates({1}, {}, 7))
  BY <1>2, <1>10, <1>11 DEF List, Distinct
<1>16. copy.tasks = <<edited, added>> /\ copy.tags = tags \o <<g3>>
  BY <1>2
<1>17. copy.tags \in List(SoundTags(7)) /\ Ids(copy.tags) = {1, 3}
  <2>1. <<g3>> \in List(SoundTags(7)) /\ Ids(<<g3>>) = {3}
    BY <1>4, <1>11 DEF List, Distinct, Ids
  <2>2. tags \in Seq(SoundTags(7)) /\ <<g3>> \in Seq(SoundTags(7)) /\ {1} \cap {3} = {}
    BY <1>13, <2>1 DEF List
  <2> DEFINE more == <<g3>>
  <2>3. more \in List(SoundTags(7)) /\ more \in Seq(SoundTags(7)) /\ Ids(more) = {3}
    BY <2>1, <2>2
  <2> HIDE DEF more
  <2>4. tags \o more \in List(SoundTags(7))
    BY <1>13, <2>2, <2>3, JoinedApart
  <2>5. Ids(tags \o more) = {1} \cup {3}
    BY <1>13, <2>2, <2>3, JoinedIds
  <2>6. copy.tags = tags \o more
    BY <1>16 DEF more
  <2>7. {1} \cup {3} = {1, 3}
    OBVIOUS
  <2> QED  BY <2>4, <2>5, <2>6, <2>7
<1>18. copy.tasks \in List(SoundTasks({1, 3}, 7))
  BY <1>8, <1>9, <1>12, <1>16 DEF List, Distinct
<1>19. SoundCopy(copy, Ids(tasks), fresh)
  BY <1>2, <1>14, <1>17, <1>18 DEF SoundCopy
<1> QED  BY <1>2, <1>3, <1>13, <1>14, <1>15, <1>19 DEF RecInv

\* Every step keeps the invariant.
LEMMA StaysSound == RecInv /\ [RecNext]_recVars => RecInv'
<1> SUFFICES ASSUME RecInv, [RecNext]_recVars PROVE RecInv'
  OBVIOUS
<1>1. CASE AddTask \/ UpdateTask \/ SetDone \/ DeleteTask \/ DuplicateTask
  BY <1>1, TaskCommands
<1>2. CASE \/ StartTimer \/ StopTimer \/ AddTimeEntry \/ UpdateTimeEntry
           \/ DeleteTimeEntry \/ DiscardAfk
  BY <1>2, TimeCommands
<1>3. CASE AddTemplate \/ UpdateTemplate \/ DeleteTemplate \/ DuplicateTemplate \/ SpawnRecurring
  BY <1>3, TemplateCommands
<1>4. CASE AddTag \/ UpdateTag \/ DeleteTag
  BY <1>4, TagCommands
<1>5. CASE McpLookUp \/ McpCreate \/ McpUpdate \/ McpFails \/ Tick \/ ReadConflict \/ Dismiss
           \/ UNCHANGED recVars
  BY <1>5, ToolsAndClock
<1>6. CASE Resolve
  BY <1>6, ResolveKeeps
<1> QED  BY <1>1, <1>2, <1>3, <1>4, <1>5, <1>6 DEF RecNext

\* The invariant says that the document is sound.
LEMMA SoundDocuments == RecInv => DocumentSound
<1> SUFFICES ASSUME RecInv PROVE DocumentSound
  OBVIOUS
<1>1. Distinct(tasks) /\ Distinct(tags) /\ Distinct(templates)
  BY IdsGivenOut
<1>2. ASSUME NEW i \in DOMAIN tasks
      PROVE  /\ tasks[i].tags \subseteq Ids(tags)
             /\ (tasks[i].dueTime => tasks[i].due > 0) /\ (tasks[i].startTime => tasks[i].start > 0)
             /\ Cardinality(Running(tasks[i])) <= 1
             /\ \A e \in tasks[i].entries : e \in Entry /\ (e.end > 0 => e.start <= e.end)
  <2> DEFINE t == tasks[i]
  <2>1. t \in SoundTasks(Ids(tags), fresh)
    BY IdsGivenOut
  <2> HIDE DEF t
  <2>2. /\ t.tags \subseteq Ids(tags)
        /\ (t.dueTime => t.due > 0) /\ (t.startTime => t.start > 0)
        /\ SoundTimes(t.entries)
    BY <2>1 DEF SoundTasks
  <2>3. \A e \in t.entries : e \in Entry /\ (e.end > 0 => e.start <= e.end)
    BY <2>2 DEF SoundTimes
  <2>4. \A e, f \in Running(t) : e = f
    BY <2>2 DEF SoundTimes, Running
  <2>5. Cardinality(Running(t)) <= 1
    <3>1. CASE Running(t) = {}
      BY <3>1, FS_EmptySet
    <3>2. CASE Running(t) # {}
      <4>1. PICK e : Running(t) = {e}
        BY <2>4, <3>2
      <4>2. Cardinality({e}) = 1
        BY FS_Singleton
      <4> QED  BY <4>1, <4>2
    <3> QED  BY <3>1, <3>2
  <2> QED  BY <2>2, <2>3, <2>5 DEF t
<1>3. ASSUME NEW i \in DOMAIN templates
      PROVE  /\ templates[i].tags \subseteq Ids(tags)
             /\ templates[i].recurs => \/ templates[i].recTag \in templates[i].tags \cup deletedTags
                                       \/ templates[i].recTag = 0 /\ deletedTags # {}
             /\ ~templates[i].recurs => templates[i].recTag = 0
  <2>1. templates[i] \in SoundTemplates(Ids(tags), deletedTags, fresh)
    BY IdsGivenOut
  <2> QED  BY <2>1 DEF SoundTemplates
<1> QED  BY <1>1, <1>2, <1>3 DEF DocumentSound

\* After any commands, MCP tools and resolved conflicts ids are unique, references hold, a
\* task times at most once and never backwards, and a schedule names a tag of its template
\* unless that tag was deleted (commands.rs, task_ops.rs, conflict.rs).
THEOREM DocumentStaysSound == RecSpec => []DocumentSound
<1>1. RecInit => RecInv
  BY StartsSound
<1>2. RecInv /\ [RecNext]_recVars => RecInv'
  BY StaysSound
<1>3. RecInv => DocumentSound
  BY SoundDocuments
<1> QED  BY <1>1, <1>2, <1>3, PTL DEF RecSpec

\* Resolving a conflict loses only what the user decided to lose and changes nothing that
\* the user was not asked about, whatever commands came in between (conflict.rs).
THEOREM ConflictsLoseNothing == RecSpec => ResolutionLosesNothing
<1> DEFINE Kept == copy # <<>> /\ copy' = <<>> /\ ops' # ops =>
                     /\ (Ids(tasks) \cup Ids(copy.tasks)) \ Ids(tasks') \subseteq doomed'
                     /\ \A id \in Ids(tasks) \ asked : Get(tasks', id) = Get(tasks, id)
<1>1. RecInit => RecInv
  BY StartsSound
<1>2. RecInv /\ [RecNext]_recVars => RecInv'
  BY StaysSound
<1>3. RecInv /\ [RecNext]_recVars => [Kept]_recVars
  <2> SUFFICES ASSUME RecInv, RecNext, copy # <<>>, copy' = <<>>, ops' # ops
               PROVE  /\ (Ids(tasks) \cup Ids(copy.tasks)) \ Ids(tasks') \subseteq doomed'
                      /\ \A id \in Ids(tasks) \ asked : Get(tasks', id) = Get(tasks, id)
    OBVIOUS
  <2>1. CASE Resolve
    <3>1. Saved(1)
      BY <2>1 DEF Resolve
    <3>2. PICK D \in SUBSET asked : \E d \in [D -> Action] :
             /\ tasks' = Resolved(d)
             /\ doomed' = {id \in D : d[id] = "drop" \/ (d[id] = "keep_mine" /\ id \notin Ids(tasks))}
      BY <2>1 DEF Resolve
    <3>3. PICK d \in [D -> Action] :
             /\ tasks' = Resolved(d)
             /\ doomed' = {id \in D : d[id] = "drop" \/ (d[id] = "keep_mine" /\ id \notin Ids(tasks))}
      BY <3>2
    <3> DEFINE list == Resolved(d)
    <3>4. /\ \A id \in Ids(tasks) \ D : id \in Ids(list) /\ Get(list, id) = Get(tasks, id)
          /\ \A id \in Ids(tasks) : id \in D /\ d[id] # "drop" => id \in Ids(list)
          /\ \A id \in Ids(copy.tasks) \ Ids(tasks) :
               id \notin D \/ d[id] \in BringIn => id \in Ids(list)
      BY <3>1, ResolvedKeeps
    <3>5. tasks' = list
      BY <3>3
    <3> HIDE DEF list
    <3>6. ASSUME NEW id \in Ids(tasks), id \notin Ids(list) PROVE id \in doomed'
      <4>1. id \in D /\ d[id] = "drop"
        BY <3>4, <3>6
      <4> QED  BY <3>3, <4>1
    <3>7. ASSUME NEW id \in Ids(copy.tasks) \ Ids(tasks), id \notin Ids(list) PROVE id \in doomed'
      <4>1. id \in D /\ d[id] \notin BringIn
        BY <3>4, <3>7
      <4>2. d[id] \in {"keep_mine", "drop"}
        BY <4>1 DEF Action, BringIn
      <4> QED  BY <3>3, <3>7, <4>1, <4>2
    <3>8. (Ids(tasks) \cup Ids(copy.tasks)) \ Ids(tasks') \subseteq doomed'
      BY <3>5, <3>6, <3>7
    <3>9. ASSUME NEW id \in Ids(tasks) \ asked PROVE Get(tasks', id) = Get(tasks, id)
      <4>1. id \in Ids(tasks) \ D
        BY <3>2
      <4>2. Get(list, id) = Get(tasks, id)
        BY <3>4, <4>1
      <4> QED  BY <3>5, <4>2
    <3> QED  BY <3>8, <3>9
  <2>2. CASE ~Resolve
    <3>1. copy' = copy \/ ops' = ops
      <4>1. CASE AddTask \/ UpdateTask \/ SetDone \/ DeleteTask \/ DuplicateTask
        BY <4>1 DEF AddTask, UpdateTask, SetDone, DeleteTask, DuplicateTask, Dialog
      <4>2. CASE AddTemplate \/ UpdateTemplate \/ DeleteTemplate \/ DuplicateTemplate \/ SpawnRecurring
        BY <4>2 DEF AddTemplate, UpdateTemplate, DeleteTemplate, DuplicateTemplate, SpawnRecurring, Dialog
      <4>3. CASE StartTimer \/ StopTimer \/ AddTimeEntry \/ UpdateTimeEntry \/ DeleteTimeEntry
        BY <4>3 DEF StartTimer, StopTimer, AddTimeEntry, UpdateTimeEntry, DeleteTimeEntry, Timed, Dialog
      <4>4. CASE DiscardAfk \/ AddTag \/ UpdateTag \/ DeleteTag
        BY <4>4 DEF DiscardAfk, AddTag, UpdateTag, DeleteTag, Dialog
      <4>5. CASE McpLookUp \/ McpCreate \/ McpUpdate \/ McpFails \/ Tick \/ ReadConflict \/ Dismiss
        BY <4>5 DEF McpLookUp, McpCreate, McpUpdate, McpFails, Tick, ReadConflict, Dismiss, Dialog
      <4> QED  BY <2>2, <4>1, <4>2, <4>3, <4>4, <4>5 DEF RecNext
    <3> QED  BY <3>1
  <2> QED  BY <2>1, <2>2
<1>4. (RecSpec => [][Kept]_recVars) => (RecSpec => ResolutionLosesNothing)
  BY DEF ResolutionLosesNothing
<1>5. RecSpec => [][Kept]_recVars
  BY <1>1, <1>2, <1>3, PTL DEF RecSpec
<1> QED  BY <1>4, <1>5

-----------------------------------------------------------------------------
(* Pages *)

\* Two adjacent parts of a sequence.
LEMMA AdjacentParts ==
    ASSUME NEW S, NEW s \in Seq(S), NEW a \in 0..Len(s), NEW b \in a..Len(s)
    PROVE  SubSeq(s, 1, a) \o SubSeq(s, a + 1, b) = SubSeq(s, 1, b)
<1> DEFINE u == SubSeq(s, 1, a)
           v == SubSeq(s, a + 1, b)
           w == SubSeq(s, 1, b)
<1>1. a \in Nat /\ b \in Nat /\ Len(s) \in Nat /\ a <= b /\ b <= Len(s)
  OBVIOUS
<1>2. u \in Seq(S) /\ Len(u) = a /\ \A k \in 1..a : u[k] = s[k]
  BY <1>1
<1>3. v \in Seq(S) /\ Len(v) = b - a /\ \A k \in 1..(b - a) : v[k] = s[a + k]
  BY <1>1
<1>4. w \in Seq(S) /\ Len(w) = b /\ \A k \in 1..b : w[k] = s[k]
  BY <1>1
<1> HIDE DEF u, v, w
<1>5. Len(u \o v) = b /\ u \o v \in Seq(S)
  <2>1. Len(u \o v) = Len(u) + Len(v) /\ u \o v \in Seq(S)
    <3>1. u \in Seq(S) /\ v \in Seq(S)
      BY <1>2, <1>3
    <3> QED  BY <3>1, Joined
  <2>2. a + (b - a) = b
    BY <1>1
  <2> QED  BY <1>2, <1>3, <2>1, <2>2
<1>6. ASSUME NEW k \in 1..b PROVE (u \o v)[k] = w[k]
  <2>1. CASE k <= a
    <3>1. (u \o v)[k] = u[k] /\ k \in 1..a
      BY <1>1, <1>2, <1>3, <2>1
    <3> QED  BY <1>2, <1>4, <3>1
  <2>2. CASE k > a
    <3>1. (u \o v)[k] = v[k - a] /\ k - a \in 1..(b - a) /\ a + (k - a) = k
      BY <1>1, <1>2, <1>3, <2>2
    <3>2. v[k - a] = s[k]
      BY <1>3, <3>1
    <3> QED  BY <1>4, <3>1, <3>2
  <2>3. k <= a \/ k > a
    BY <1>1
  <2> QED  BY <2>1, <2>2, <2>3
<1>7. u \o v = w
  BY <1>1, <1>4, <1>5, <1>6
<1> QED  BY <1>7 DEF u, v, w

\* The pages of a list that a client reads until one is not truncated are the list.
LEMMA PagesAreTheList ==
    ASSUME NEW S, NEW found \in Seq(S), NEW limit \in Nat, limit > 0
    PROVE  Pages(found, limit) = found
<1> DEFINE N == Len(found)
           off(k) == k * limit
           Cut(k) == N > off(k) + limit
<1>1. N \in Nat
  OBVIOUS
<1>2. \A k \in Nat : off(k) \in Nat
  OBVIOUS
<1>3. off(0) = 0 /\ \A k \in Nat : off(k + 1) = off(k) + limit
  OBVIOUS
<1>4. off(N) >= N
  <2>1. limit - 1 \in Nat /\ N * (limit - 1) \in Nat
    BY <1>1
  <2>2. N * limit = N * (limit - 1) + N
    BY <1>1
  <2> QED  BY <1>1, <2>1, <2>2
<1>5. \A k \in 0..N : Page(found, limit, k * limit).truncated = Cut(k)
  BY DEF Page
<1> DEFINE last == CHOOSE k \in 0..N : ~Cut(k) /\ \A j \in 0..(k - 1) : Cut(j)
<1>6. last \in 0..N /\ ~Cut(last) /\ \A j \in 0..(last - 1) : Cut(j)
  <2> DEFINE K == {k \in 0..N : ~Cut(k)}
  <2> HIDE DEF off
  <2>1. N \in K
    BY <1>1, <1>2, <1>4
  <2>2. K \in SUBSET Nat /\ \A k \in K : k \in 0..N /\ ~Cut(k)
    BY <1>1
  <2>3. \A k \in 0..N : k \notin K => Cut(k)
    OBVIOUS
  <2> HIDE DEF K, Cut
  <2>4. PICK m \in K : \A k \in K : m <= k
    BY <2>1, <2>2, LeastOne
  <2>5. ASSUME NEW j \in 0..(m - 1) PROVE Cut(j)
    <3>1. j \in 0..N /\ ~(m <= j)
      BY <1>1, <2>2, <2>5
    <3> QED  BY <2>3, <2>4, <3>1
  <2>6. \E k \in 0..N : ~Cut(k) /\ \A j \in 0..(k - 1) : Cut(j)
    BY <2>2, <2>4, <2>5
  <2> QED  BY <2>6, Zenon
<1> DEFINE seqs == [k \in 1..(last + 1) |-> Page(found, limit, (k - 1) * limit).rows]
<1>7. Pages(found, limit) = FlattenSeq(seqs)
  <2> DEFINE stop == CHOOSE k \in 0..Len(found) :
                       /\ ~Page(found, limit, k * limit).truncated
                       /\ \A j \in 0..(k - 1) : Page(found, limit, j * limit).truncated
  <2>1. stop = last
    BY DEF Page
  <2>2. Pages(found, limit) = FlattenSeq([k \in 1..(stop + 1) |-> Page(found, limit, (k - 1) * limit).rows])
    BY DEF Pages
  <2> HIDE DEF stop, last
  <2> QED  BY <2>1, <2>2
<1> DEFINE End(k) == IF k <= last THEN off(k) ELSE N
<1> HIDE DEF last
<1>8. last \in Nat /\ last + 1 \in Nat /\ last + 1 > 0
  BY <1>1, <1>6
<1>9. \A k \in 1..(last + 1) : Page(found, limit, (k - 1) * limit).rows =
        SubSeq(found, off(k - 1) + 1, IF off(k - 1) + limit < N THEN off(k - 1) + limit ELSE N)
  BY DEF Page
<1> HIDE DEF off
<1>10. ASSUME NEW k \in 1..(last + 1)
       PROVE  /\ seqs[k] = SubSeq(found, End(k - 1) + 1, End(k))
              /\ End(k - 1) \in 0..N /\ End(k) \in End(k - 1)..N
  <2>1. k \in Nat /\ k - 1 \in Nat /\ k - 1 <= last /\ (k - 1) + 1 = k
    BY <1>8
  <2>2. End(k - 1) = off(k - 1) /\ off(k - 1) \in Nat /\ off(k) = off(k - 1) + limit /\ off(k) \in Nat
    BY <1>2, <1>3, <2>1
  <2>3. seqs[k] = SubSeq(found, off(k - 1) + 1, IF off(k - 1) + limit < N THEN off(k - 1) + limit ELSE N)
    BY <1>9
  <2>4. CASE k <= last
    <3>1. k - 1 \in 0..(last - 1)
      BY <1>8, <2>1, <2>4
    <3>2. N > off(k - 1) + limit
      BY <1>6, <3>1
    <3>3. End(k) = off(k)
      BY <2>4
    <3> HIDE DEF End, seqs
    <3> QED  BY <1>1, <2>2, <2>3, <3>2, <3>3
  <2>5. CASE k = last + 1
    <3>1. ~(N > off(k - 1) + limit) /\ End(k) = N /\ k - 1 = last
      BY <1>6, <1>8, <2>1, <2>5
    <3>2. off(k - 1) <= N
      <4>1. CASE last = 0
        BY <1>1, <1>3, <3>1, <4>1
      <4>2. CASE last # 0
        <5>1. last - 1 \in 0..(last - 1) /\ last - 1 \in Nat /\ (last - 1) + 1 = last
          BY <1>8, <4>2
        <5>2. N > off(last - 1) + limit /\ off(last) = off(last - 1) + limit
          BY <1>3, <1>6, <5>1
        <5> QED  BY <1>1, <1>2, <1>8, <3>1, <5>2
      <4> QED  BY <4>1, <4>2
    <3> HIDE DEF End, seqs
    <3> QED  BY <1>1, <2>2, <2>3, <3>1, <3>2
  <2> QED  BY <1>8, <2>1, <2>4, <2>5
<1>11. seqs \in Seq(Seq(S)) /\ Len(seqs) = last + 1
  <2>1. \A k \in 1..(last + 1) : seqs[k] \in Seq(S)
    <3>1. SUFFICES ASSUME NEW k \in 1..(last + 1) PROVE seqs[k] \in Seq(S)
      OBVIOUS
    <3> DEFINE a == End(k - 1)
               b == End(k)
    <3>2. seqs[k] = SubSeq(found, a + 1, b) /\ a \in 0..N /\ b \in a..N
      BY <1>10
    <3> HIDE DEF a, b, seqs
    <3> QED  BY <1>1, <3>2
  <2>2. seqs = [k \in 1..(last + 1) |-> seqs[k]]
    OBVIOUS
  <2> HIDE DEF seqs
  <2> QED  BY <1>8, <2>1, <2>2
<1> HIDE DEF seqs, End
<1>12. PICK F : Flattens(F, seqs, last + 1) /\ FlattenSeq(seqs) = F[last + 1]
  BY <1>8, <1>11, FlattenRuns
<1> DEFINE P == {n \in 1..(last + 1) : F[n] = SubSeq(found, 1, End(n))}
<1>13. End(0) = 0 /\ End(last + 1) = N
  BY <1>3, <1>8 DEF End
<1>14. 1 \in P
  <2>1. 1 \in 1..(last + 1) /\ 1 - 1 = 0 /\ 0 + 1 = 1
    BY <1>8
  <2>2. F[1] = seqs[1]
    BY <1>12, <2>1 DEF Flattens
  <2>3. seqs[1] = SubSeq(found, 1, End(1))
    BY <1>10, <1>13, <2>1
  <2> QED  BY <2>1, <2>2, <2>3
<1>15. ASSUME NEW n \in 2..(last + 1), n - 1 \in P PROVE n \in P
  <2>1. n \in 1..(last + 1) /\ n # 1
    BY <1>8
  <2>2. F[n] = F[n - 1] \o seqs[n] /\ F[n - 1] = SubSeq(found, 1, End(n - 1))
    BY <1>12, <1>15, <2>1 DEF Flattens
  <2> DEFINE a == End(n - 1)
             b == End(n)
  <2>3. seqs[n] = SubSeq(found, a + 1, b) /\ a \in 0..N /\ b \in a..N
    BY <1>10, <2>1
  <2> HIDE DEF a, b
  <2>4. SubSeq(found, 1, a) \o SubSeq(found, a + 1, b) = SubSeq(found, 1, b)
    BY <2>3, AdjacentParts
  <2>5. F[n] = SubSeq(found, 1, End(n))
    BY <2>2, <2>3, <2>4 DEF a, b
  <2> QED  BY <2>1, <2>5
<1> HIDE DEF P
<1>16. last + 1 \in P
  BY <1>8, <1>14, <1>15, FlattenLoop
<1>17. SubSeq(found, 1, N) = found
  OBVIOUS
<1> QED  BY <1>7, <1>12, <1>13, <1>16, <1>17 DEF P

\* A client of list_tasks that asks for page after page gets every view whole, in order and
\* once, at any page size, and every task is in "all" or in "completed" (task_query.rs,
\* mcp/handler.rs).
THEOREM PagesCover == RecSpec => []PagesCoverTheViews
<1>1. RecInit => RecInv
  BY StartsSound
<1>2. RecInv /\ [RecNext]_recVars => RecInv'
  BY StaysSound
<1>3. RecInv => PagesCoverTheViews
  <2> SUFFICES ASSUME RecInv PROVE PagesCoverTheViews
    OBVIOUS
  <2>1. tasks \in Seq(SoundTasks(Ids(tags), fresh))
    BY IdsGivenOut
  <2>2. ASSUME NEW view, NEW name, NEW limit \in 1..MaxLimit
        PROVE  Pages(Matches(view, name), limit) = Matches(view, name)
    <3> DEFINE I == {i \in DOMAIN tasks : /\ InView(tasks[i], view)
                                          /\ name # Unfiltered => tasks[i].tags \cap Filter(name) # {}}
    <3>1. Matches(view, name) = At(tasks, I) /\ I \in SUBSET DOMAIN tasks
      BY DEF Matches
    <3> HIDE DEF I
    <3>2. Matches(view, name) \in Seq(SoundTasks(Ids(tags), fresh))
      BY <2>1, <3>1, AtKeeps
    <3>3. limit \in Nat /\ limit > 0
      BY RecordsAssumption
    <3> QED  BY <3>2, <3>3, PagesAreTheList
  <2>3. ASSUME NEW i \in DOMAIN tasks PROVE InView(tasks[i], "all") # InView(tasks[i], "completed")
    <3>1. tasks[i] \in SoundTasks(Ids(tags), fresh)
      BY <2>1
    <3>2. tasks[i].done \in Nat
      BY <3>1, RecordsAssumption DEF SoundTasks, Task, Opt, Time
    <3>3. /\ InView(tasks[i], "all") <=> tasks[i].done = 0
          /\ InView(tasks[i], "completed") <=> tasks[i].done > 0
      BY DEF InView
    <3>4. InView(tasks[i], "all") <=> ~InView(tasks[i], "completed")
      BY <3>2, <3>3
    <3> QED  BY <3>4
  <2> QED  BY <2>2, <2>3 DEF PagesCoverTheViews
<1> QED  BY <1>1, <1>2, <1>3, PTL DEF RecSpec

=============================================================================
