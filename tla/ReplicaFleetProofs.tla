---------------------------- MODULE ReplicaFleetProofs ----------------------------
(***************************************************************************)
(* Proofs about ReplicaFleet, for any devices, entities, edits, restarts   *)
(* and deliveries: tags do not dangle and added time survives at any       *)
(* precision of the stamps; with one stamp a tick every document is the    *)
(* evaluation of its edits and a settled fleet agrees; and Merge is what   *)
(* the loop of merge_documents computes.                                   *)
(***************************************************************************)
EXTENDS ReplicaFleet, FiniteSetTheorems, WellFoundedInduction, TLAPS

-----------------------------------------------------------------------------
(* Greatest and least numbers *)

\* A non-empty set of numbers has a least one, and Min is it.
LEMMA MinOfNumbers ==
    ASSUME NEW S \in SUBSET Nat, S # {}
    PROVE  Min(S) \in S /\ \A y \in S : Min(S) <= y
<1>1. PICK m \in S : \A n \in S : ~(<<n, m>> \in OpToRel(<, Nat))
  BY NatLessThanWellFounded, WFMin, Zenon
<1>2. \A n \in S : m <= n
  <2>1. SUFFICES ASSUME NEW n \in S, n < m PROVE FALSE
    OBVIOUS
  <2>2. <<n, m>> \in {ss \in Nat \X Nat : ss[1] < ss[2]}
    BY <2>1
  <2> QED  BY <2>2, <1>1, Zenon DEF OpToRel
<1>3. Min(S) \in S /\ \A y \in S : Min(S) =< y
  BY <1>2, Zenon DEF Min
<1> QED  BY <1>3

\* A number of the set that none exceeds is its Max.
LEMMA MaxIs ==
    ASSUME NEW S \in SUBSET Nat, NEW x \in S, \A y \in S : y <= x
    PROVE  Max(S) = x
<1>1. \A y \in S : x >= y
  OBVIOUS
<1>2. Max(S) \in S /\ \A y \in S : Max(S) >= y
  BY <1>1, Zenon DEF Max
<1>3. x \in Nat /\ Max(S) \in Nat
  BY <1>2
<1>4. Max(S) >= x /\ Max(S) <= x
  BY <1>2
<1> QED  BY <1>3, <1>4

\* A lower bound of S that is in S is its Min.
LEMMA MinIs ==
    ASSUME NEW S \in SUBSET Nat, NEW x \in S, \A y \in S : x <= y
    PROVE  Min(S) = x
<1>1. Min(S) \in S /\ Min(S) <= x
  BY MinOfNumbers
<1>2. x \in Nat /\ Min(S) \in Nat /\ x <= Min(S)
  BY <1>1
<1> QED  BY <1>1, <1>2

\* A non-empty set of numbers up to a bound has a greatest one, and Max is it.
LEMMA MaxOfNumbers ==
    ASSUME NEW S \in SUBSET Nat, S # {}, NEW b \in Nat, \A y \in S : y <= b
    PROVE  Max(S) \in S /\ \A y \in S : y <= Max(S)
<1> DEFINE Above == {n \in Nat : \A y \in S : y <= n}
           m == Min(Above)
<1>1. m \in Above /\ \A n \in Above : m <= n
  BY MinOfNumbers, b \in Above
<1> HIDE DEF m
<1>2. m \in S
  <2>1. SUFFICES ASSUME m \notin S PROVE FALSE
    OBVIOUS
  <2>2. PICK y \in S : TRUE
    OBVIOUS
  <2>3. m - 1 \in Above
    BY <2>1, <2>2, <1>1
  <2> QED  BY <2>3, <1>1
<1> QED  BY <1>1, <1>2, MaxIs

-----------------------------------------------------------------------------
(* The order of the file names *)

\* A set of n numbers has exactly one number of every rank from 1 to n, and a greater
\* number has a greater rank.
LEMMA RankIsStrict ==
    ASSUME NEW S \in SUBSET Nat, IsFiniteSet(S), NEW p \in S, NEW q \in S
    PROVE  /\ Rank(S, p) \in 1..Cardinality(S)
           /\ p < q => Rank(S, p) < Rank(S, q)
           /\ Rank(S, p) = Rank(S, q) => p = q
<1> DEFINE UpTo(x) == {r \in S : r <= x}
<1>1. ASSUME NEW x \in S, NEW y \in S PROVE x < y => Rank(S, x) < Rank(S, y)
  <2>1. SUFFICES ASSUME x < y PROVE Cardinality(UpTo(x)) < Cardinality(UpTo(y))
    BY DEF Rank
  <2>2. UpTo(x) \subseteq UpTo(y) /\ y \in UpTo(y) /\ y \notin UpTo(x)
    <3>1. x \in Nat /\ y \in Nat /\ \A r \in S : r \in Nat
      OBVIOUS
    <3>2. \A r \in S : r <= x => r <= y
      BY <2>1, <3>1
    <3>3. y <= y /\ ~(y <= x)
      BY <2>1, <3>1
    <3> QED  BY <3>2, <3>3
  <2>3. IsFiniteSet(UpTo(y)) /\ UpTo(x) # UpTo(y)
    <3>1. IsFiniteSet(UpTo(y))
      BY FS_Subset, UpTo(y) \subseteq S
    <3> QED  BY <2>2, <3>1
  <2> HIDE DEF UpTo
  <2>4. Cardinality(UpTo(x)) \in Nat /\ Cardinality(UpTo(y)) \in Nat
        /\ Cardinality(UpTo(x)) <= Cardinality(UpTo(y))
        /\ (Cardinality(UpTo(x)) = Cardinality(UpTo(y)) => UpTo(x) = UpTo(y))
    BY <2>2, <2>3, FS_Subset, FS_CardinalityType
  <2> QED  BY <2>3, <2>4
<1>2. Rank(S, p) \in 1..Cardinality(S)
  <2>1. UpTo(p) \subseteq S /\ p \in UpTo(p)
    OBVIOUS
  <2> HIDE DEF UpTo
  <2>2. IsFiniteSet(UpTo(p)) /\ Cardinality(UpTo(p)) <= Cardinality(S)
        /\ Cardinality(UpTo(p)) \in Nat /\ Cardinality(S) \in Nat
    BY <2>1, FS_Subset, FS_CardinalityType
  <2>3. Cardinality(UpTo(p)) # 0
    BY <2>1, <2>2, FS_EmptySet
  <2> QED  BY <2>2, <2>3 DEF Rank, UpTo
<1>3. Rank(S, p) = Rank(S, q) => p = q
  <2>1. Rank(S, p) \in Nat /\ Rank(S, q) \in Nat
    <3>1. IsFiniteSet(UpTo(p)) /\ IsFiniteSet(UpTo(q))
      BY FS_Subset, UpTo(p) \subseteq S, UpTo(q) \subseteq S
    <3> QED  BY <3>1, FS_CardinalityType DEF Rank
  <2>2. (p < q => Rank(S, p) < Rank(S, q)) /\ (q < p => Rank(S, q) < Rank(S, p))
    BY <1>1
  <2> QED  BY <2>1, <2>2
<1> QED  BY <1>1, <1>2, <1>3

\* NameAt counts the names off in ascending order.
LEMMA NamesInOrder ==
    ASSUME NEW S \in SUBSET Nat, IsFiniteSet(S)
    PROVE  /\ Cardinality(S) \in Nat
           /\ \A n \in 1..Cardinality(S) : NameAt(S, n) \in S /\ Rank(S, NameAt(S, n)) = n
           /\ \A p \in S : \E n \in 1..Cardinality(S) : NameAt(S, n) = p
           /\ \A m, n \in 1..Cardinality(S) : m < n => NameAt(S, m) < NameAt(S, n)
<1> DEFINE f == [p \in S |-> Rank(S, p)]
           N == 1..Cardinality(S)
<1>1. Cardinality(S) \in Nat
  BY FS_CardinalityType
<1>2. f \in [S -> N]
  BY RankIsStrict
<1>3. \A p, q \in S : f[p] = f[q] => p = q
  BY RankIsStrict
<1>4. f \in Injection(S, N)
  BY <1>2, <1>3 DEF Injection, IsInjective
<1>5. IsFiniteSet(N) /\ Cardinality(N) = Cardinality(S)
  BY <1>1, FS_Interval
<1>6. f \in Surjection(S, N)
  BY <1>4, <1>5, FS_Injection
<1>7. \A n \in N : \E p \in S : Rank(S, p) = n
  BY <1>6 DEF Surjection, Range
<1>8. ASSUME NEW n \in N PROVE NameAt(S, n) \in S /\ Rank(S, NameAt(S, n)) = n
  <2>1. \E p \in S : Rank(S, p) = n
    BY <1>7
  <2> QED  BY <2>1, Zenon DEF NameAt
<1>9. ASSUME NEW p \in S PROVE \E n \in N : NameAt(S, n) = p
  <2>1. Rank(S, p) \in N
    BY RankIsStrict
  <2>2. NameAt(S, Rank(S, p)) \in S /\ Rank(S, NameAt(S, Rank(S, p))) = Rank(S, p)
    BY <1>8, <2>1
  <2> QED  BY <2>1, <2>2, RankIsStrict
<1>10. ASSUME NEW m \in N, NEW n \in N, m < n PROVE NameAt(S, m) < NameAt(S, n)
  <2> DEFINE p == NameAt(S, m)
             q == NameAt(S, n)
  <2>1. p \in S /\ q \in S /\ Rank(S, p) = m /\ Rank(S, q) = n
    BY <1>8
  <2> HIDE DEF p, q
  <2>2. (q < p => Rank(S, q) < Rank(S, p)) /\ p # q
    BY <1>10, <2>1, RankIsStrict
  <2>3. m \in Nat /\ n \in Nat /\ p \in Nat /\ q \in Nat
    BY <1>1, <2>1
  <2>4. p < q
    BY <1>10, <2>1, <2>2, <2>3
  <2> QED  BY <2>4 DEF p, q
<1> QED  BY <1>1, <1>8, <1>9, <1>10

\* collect_peer_docs lists every replica once.
LEMMA InOrder ==
    ASSUME NEW docs, DOMAIN docs \in SUBSET Nat, IsFiniteSet(DOMAIN docs),
           \A p \in DOMAIN docs : docs[p] \in Document
    PROVE  /\ InNameOrder(docs) \in Seq(Document)
           /\ Len(InNameOrder(docs)) = Cardinality(DOMAIN docs)
           /\ \A n \in 1..Cardinality(DOMAIN docs) :
                /\ NameAt(DOMAIN docs, n) \in DOMAIN docs
                /\ InNameOrder(docs)[n] = docs[NameAt(DOMAIN docs, n)]
<1> DEFINE N == Cardinality(DOMAIN docs)
<1>1. N \in Nat
  BY NamesInOrder
<1>2. \A n \in 1..N : NameAt(DOMAIN docs, n) \in DOMAIN docs
  BY NamesInOrder
<1>3. \A n \in 1..N : docs[NameAt(DOMAIN docs, n)] \in Document
  BY <1>2
<1> HIDE DEF N
<1>4. InNameOrder(docs) = [n \in 1..N |-> docs[NameAt(DOMAIN docs, n)]]
  BY DEF InNameOrder, N
<1>5. InNameOrder(docs) \in Seq(Document) /\ Len(InNameOrder(docs)) = N
  BY <1>1, <1>3, <1>4
<1> QED  BY <1>2, <1>4, <1>5 DEF N

-----------------------------------------------------------------------------
(* Merging *)

\* What the type of a document says of its rows and tombstones.
LEMMA RowsOfDocuments ==
    ASSUME NEW d \in Document, NEW i \in Item
    PROVE  /\ d.tomb[i] \in Nat /\ d.tomb[i] <= MaxTick
           /\ Live(d, i) => /\ d.row[i] \in Row /\ d.row[i].refs \subseteq Tag
                            /\ d.row[i].entries \subseteq Entry
                            /\ d.row[i].stamp \in Nat /\ d.row[i].stamp \in 1..MaxTick
                            /\ d.row[i].edit \in 1..MaxTick
<1>1. d.row[i] \in Row \cup {Absent} /\ d.tomb[i] \in Tick \cup {0}
  BY DEF Document
<1>2. d.tomb[i] \in Nat /\ d.tomb[i] <= MaxTick
  BY <1>1, FleetAssumption DEF Tick
<1>3. ASSUME Live(d, i)
      PROVE  /\ d.row[i] \in Row /\ d.row[i].refs \subseteq Tag
             /\ d.row[i].entries \subseteq Entry
             /\ d.row[i].stamp \in Nat /\ d.row[i].stamp \in 1..MaxTick
             /\ d.row[i].edit \in 1..MaxTick
  <2>1. d.row[i] \in Row
    BY <1>1, <1>3 DEF Live
  <2> QED  BY <2>1, FleetAssumption DEF Row, Tick
<1> QED  BY <1>2, <1>3

\* The positions of a sequence of documents.
LEMMA Positions ==
    ASSUME NEW docs \in Seq(Document)
    PROVE  /\ DOMAIN docs = 1..Len(docs) /\ Len(docs) \in Nat /\ DOMAIN docs \subseteq Nat
           /\ \A n \in DOMAIN docs : docs[n] \in Document /\ n <= Len(docs)
OBVIOUS

\* Unless no document has a row of i, the last of the leading documents has a newest
\* one, and the first one of these.
LEMMA Leader ==
    ASSUME NEW docs \in Seq(Document), NEW i \in Item,
           \E n \in DOMAIN docs : Live(docs[n], i)
    PROVE  LET L == Max(Leads(docs, i))
           IN  /\ L \in Leads(docs, i) /\ L \in DOMAIN docs /\ Live(docs[L], i)
               /\ \A n \in Leads(docs, i) : n <= L
               /\ \A n \in DOMAIN docs :
                    Live(docs[n], i) =>
                      /\ docs[n].row[i].stamp <= docs[L].row[i].stamp
                      /\ n < L => docs[n].row[i].stamp < docs[L].row[i].stamp
<1> DEFINE has == {n \in DOMAIN docs : Live(docs[n], i)}
           stamps == {docs[n].row[i].stamp : n \in has}
           newest == {n \in has : docs[n].row[i].stamp = Max(stamps)}
           L == Min(newest)
<1>1. has \subseteq Nat /\ has # {} /\ \A n \in has : n \in DOMAIN docs /\ Live(docs[n], i)
  BY Positions
<1>2. \A n \in has : docs[n].row[i].stamp \in Nat /\ docs[n].row[i].stamp <= MaxTick
  <2> TAKE n \in has
  <2>1. docs[n] \in Document /\ Live(docs[n], i)
    BY Positions
  <2>2. docs[n].row[i].stamp \in 1..MaxTick
    BY <2>1, RowsOfDocuments
  <2> QED  BY <2>2, FleetAssumption
<1>3. stamps \in SUBSET Nat /\ stamps # {} /\ \A s \in stamps : s <= MaxTick
  BY <1>1, <1>2
<1>4. Max(stamps) \in stamps /\ \A s \in stamps : s <= Max(stamps)
  BY <1>3, FleetAssumption, MaxOfNumbers
<1>5. newest # {} /\ newest \in SUBSET Nat
  BY <1>1, <1>4
<1>6. L \in newest /\ \A n \in newest : L <= n
  BY <1>5, MinOfNumbers
<1>7. \A n \in has : docs[n].row[i].stamp <= docs[L].row[i].stamp
  BY <1>4, <1>6
<1>8. \A n \in has : docs[n].row[i].stamp = docs[L].row[i].stamp => L <= n
  BY <1>6
<1>9. L \in has /\ L \in Nat
  BY <1>1, <1>6
<1> HIDE DEF has, stamps, newest, L
<1>14. \A n \in has : n < L => docs[n].row[i].stamp < docs[L].row[i].stamp
  <2> SUFFICES ASSUME NEW n \in has, n < L
               PROVE  docs[n].row[i].stamp < docs[L].row[i].stamp
    OBVIOUS
  <2>1. n \in Nat /\ docs[n].row[i].stamp \in Nat /\ docs[L].row[i].stamp \in Nat
    BY <1>1, <1>2, <1>9
  <2>2. docs[n].row[i].stamp # docs[L].row[i].stamp
    BY <1>8, <1>9, <2>1
  <2> QED  BY <2>1, <2>2, <1>7
<1>10. L \in Leads(docs, i)
  <2>1. \A m \in 1..(L - 1) : m \in DOMAIN docs /\ m < L
    BY <1>9, Positions DEF has
  <2> QED  BY <1>9, <1>14, <2>1 DEF Leads, has
<1>11. \A n \in Leads(docs, i) : n <= L
  <2> TAKE n \in Leads(docs, i)
  <2>1. n \in has /\ \A m \in 1..(n - 1) :
          Live(docs[m], i) => docs[m].row[i].stamp < docs[n].row[i].stamp
    BY DEF Leads, has
  <2>2. n \in Nat /\ L >= 1
    BY <1>9, <2>1, Positions DEF has
  <2>3. SUFFICES ASSUME n > L PROVE FALSE
    BY <1>9, <2>2
  <2>4. L \in 1..(n - 1)
    BY <1>9, <2>2, <2>3
  <2>5. docs[L].row[i].stamp < docs[n].row[i].stamp
    BY <1>9, <2>1, <2>4 DEF has
  <2>6. docs[n].row[i].stamp <= docs[L].row[i].stamp
    BY <1>7, <2>1
  <2>7. docs[n].row[i].stamp \in Nat /\ docs[L].row[i].stamp \in Nat
    BY <1>2, <1>9, <2>1
  <2> QED  BY <2>5, <2>6, <2>7
<1>12. Leads(docs, i) \in SUBSET Nat
  BY Positions DEF Leads
<1>13. Max(Leads(docs, i)) = L
  BY <1>10, <1>11, <1>12, MaxIs
<1> QED  BY <1>7, <1>9, <1>10, <1>11, <1>13, <1>14 DEF has

\* No leading document, no row.
LEMMA NoLeader ==
    ASSUME NEW docs \in Seq(Document), NEW i \in Item
    PROVE  Leads(docs, i) = {} <=> \A n \in DOMAIN docs : ~Live(docs[n], i)
BY Leader DEF Leads

\* The tombstone of a merge is the latest.
LEMMA LatestTomb ==
    ASSUME NEW docs \in Seq(Document), NEW i \in Item
    PROVE  /\ Tomb(docs, i) \in Nat /\ Tomb(docs, i) \in Tick \cup {0}
           /\ \A n \in DOMAIN docs : docs[n].tomb[i] <= Tomb(docs, i)
           /\ Tomb(docs, i) = 0 \/ \E n \in DOMAIN docs : docs[n].tomb[i] = Tomb(docs, i)
<1> DEFINE S == {docs[n].tomb[i] : n \in DOMAIN docs} \cup {0}
<1>1. \A n \in DOMAIN docs : docs[n].tomb[i] \in Nat /\ docs[n].tomb[i] <= MaxTick
  BY Positions, RowsOfDocuments
<1>2. S \in SUBSET Nat /\ S # {} /\ (\A s \in S : s <= MaxTick) /\ MaxTick \in Nat
  BY <1>1, FleetAssumption
<1>3. Max(S) \in S /\ \A s \in S : s <= Max(S)
  BY <1>2, MaxOfNumbers
<1>4. Tomb(docs, i) = Max(S)
  BY DEF Tomb
<1>5. \A n \in DOMAIN docs : docs[n].tomb[i] \in S
  OBVIOUS
<1>6. Tomb(docs, i) \in Nat /\ Tomb(docs, i) <= MaxTick
  BY <1>2, <1>3, <1>4
<1>7. Tomb(docs, i) \in Tick \cup {0}
  BY <1>6, FleetAssumption DEF Tick
<1>8. Max(S) = 0 \/ \E n \in DOMAIN docs : docs[n].tomb[i] = Max(S)
  BY <1>3
<1> HIDE DEF S
<1> QED  BY <1>3, <1>4, <1>5, <1>6, <1>7, <1>8

\* Every time entry of a row has a copy in one of the rows that has it.
LEMMA BearerHasIt ==
    ASSUME NEW docs \in Seq(Document), NEW i \in Item, NEW n \in DOMAIN docs,
           Live(docs[n], i), NEW id \in Ids(docs[n].row[i].entries)
    PROVE  LET b == Bearer(docs, i, id)
           IN  /\ b \in DOMAIN docs /\ Live(docs[b], i) /\ id \in Ids(docs[b].row[i].entries)
               /\ n \in Leads(docs, i) => b \in Leads(docs, i) /\ n <= b
<1> DEFINE has == {m \in DOMAIN docs : Live(docs[m], i) /\ id \in Ids(docs[m].row[i].entries)}
           lead == has \cap Leads(docs, i)
<1>1. has \in SUBSET Nat /\ n \in has /\ \A m \in has : m <= Len(docs)
  BY Positions
<1>2. Bearer(docs, i, id) = IF lead = {} THEN Min(has) ELSE Max(lead)
  BY DEF Bearer
<1>3. Len(docs) \in Nat
  BY Positions
<1>4. \A m \in has : /\ m \in DOMAIN docs /\ Live(docs[m], i)
                     /\ id \in Ids(docs[m].row[i].entries)
  OBVIOUS
<1>5. lead \subseteq has /\ (n \in Leads(docs, i) => n \in lead) /\ lead \subseteq Leads(docs, i)
  BY <1>1
<1> HIDE DEF has, lead
<1>6. CASE lead = {}
  <2>1. Min(has) \in has
    BY <1>1, MinOfNumbers
  <2> QED  BY <2>1, <1>2, <1>4, <1>5, <1>6
<1>7. CASE lead # {}
  <2>1. lead \in SUBSET Nat /\ \A m \in lead : m <= Len(docs)
    BY <1>1, <1>5
  <2>2. Max(lead) \in lead /\ \A m \in lead : m <= Max(lead)
    BY <2>1, <1>3, <1>7, MaxOfNumbers
  <2> QED  BY <2>2, <1>2, <1>4, <1>5, <1>7
<1> QED  BY <1>6, <1>7

\* The merged entries are those of all rows, each in the copy of its bearer.
LEMMA MergedEntries ==
    ASSUME NEW docs \in Seq(Document), NEW i \in Item
    PROVE  /\ AllEntries(docs, i) \subseteq Entry
           /\ \A n \in DOMAIN docs :
                Live(docs[n], i) => Ids(docs[n].row[i].entries) \subseteq Ids(AllEntries(docs, i))
           /\ \A e : e \in AllEntries(docs, i) <=>
                \E n \in DOMAIN docs : /\ Live(docs[n], i) /\ e \in docs[n].row[i].entries
                                       /\ Bearer(docs, i, e.id) = n
<1>1. \A e : e \in AllEntries(docs, i) <=>
        \E n \in DOMAIN docs : /\ Live(docs[n], i) /\ e \in docs[n].row[i].entries
                               /\ Bearer(docs, i, e.id) = n
  BY DEF AllEntries
<1>2. AllEntries(docs, i) \subseteq Entry
  BY <1>1, Positions, RowsOfDocuments
<1>3. ASSUME NEW n \in DOMAIN docs, Live(docs[n], i), NEW id \in Ids(docs[n].row[i].entries)
      PROVE  id \in Ids(AllEntries(docs, i))
  <2> DEFINE b == Bearer(docs, i, id)
  <2>1. b \in DOMAIN docs /\ Live(docs[b], i) /\ id \in Ids(docs[b].row[i].entries)
    BY <1>3, BearerHasIt
  <2>2. PICK e \in docs[b].row[i].entries : e.id = id
    BY <2>1 DEF Ids
  <2>3. e \in AllEntries(docs, i)
    BY <1>1, <2>1, <2>2
  <2> QED  BY <2>2, <2>3 DEF Ids
<1> QED  BY <1>1, <1>2, <1>3

\* Merging documents gives a document.
LEMMA MergeRow ==
    ASSUME NEW docs \in Seq(Document), NEW i \in Item
    PROVE  /\ Live(Merge(docs), i) <=> Survives(docs, i)
           /\ Survives(docs, i) =>
                LET L == Max(Leads(docs, i))
                    r == Merge(docs).row[i]
                IN  /\ L \in DOMAIN docs /\ Live(docs[L], i)
                    /\ r \in Row
                    /\ r.stamp = docs[L].row[i].stamp /\ r.edit = docs[L].row[i].edit
                    /\ r.refs = {g \in docs[L].row[i].refs : Survives(docs, g)}
                    /\ r.entries = AllEntries(docs, i)
                    /\ Tomb(docs, i) < r.stamp
           /\ Merge(docs).tomb[i] = Tomb(docs, i)
<1> DEFINE L == Max(Leads(docs, i))
           lead == docs[L].row[i]
           r == [lead EXCEPT !.refs = {g \in @ : Survives(docs, g)},
                             !.entries = AllEntries(docs, i)]
<1>1. Merge(docs).tomb[i] = Tomb(docs, i)
  BY DEF Merge
<1>2. Merge(docs).row[i] = IF Survives(docs, i) THEN r ELSE Absent
  BY DEF Merge
<1>3. ASSUME Survives(docs, i)
      PROVE  /\ L \in DOMAIN docs /\ Live(docs[L], i) /\ r \in Row
             /\ r.stamp = lead.stamp /\ r.edit = lead.edit
             /\ r.refs = {g \in lead.refs : Survives(docs, g)}
             /\ r.entries = AllEntries(docs, i)
             /\ Tomb(docs, i) < lead.stamp
  <2>1. Leads(docs, i) # {} /\ Tomb(docs, i) < lead.stamp
    BY <1>3 DEF Survives
  <2>2. L \in DOMAIN docs /\ Live(docs[L], i)
    BY <2>1, NoLeader, Leader
  <2>3. lead \in Row
    BY <2>2, Positions, RowsOfDocuments
  <2>4. AllEntries(docs, i) \in SUBSET Entry
    BY MergedEntries
  <2> HIDE DEF L, lead
  <2>5. {g \in lead.refs : Survives(docs, g)} \in SUBSET Tag
    BY <2>3 DEF Row
  <2>6. r \in Row /\ r.stamp = lead.stamp /\ r.edit = lead.edit
        /\ r.refs = {g \in lead.refs : Survives(docs, g)}
        /\ r.entries = AllEntries(docs, i)
    BY <2>3, <2>4, <2>5 DEF Row
  <2> QED  BY <2>1, <2>2, <2>6 DEF L, lead
<1> HIDE DEF r, L, lead
<1>4. Live(Merge(docs), i) <=> Survives(docs, i)
  <2>1. CASE Survives(docs, i)
    BY <2>1, <1>2, <1>3, RowAssumption DEF Live
  <2>2. CASE ~Survives(docs, i)
    BY <2>2, <1>2 DEF Live
  <2> QED  BY <2>1, <2>2
<1> QED  BY <1>1, <1>2, <1>3, <1>4 DEF L, lead

\* merge_documents makes a document.
LEMMA MergeType ==
    ASSUME NEW docs \in Seq(Document)
    PROVE  Merge(docs) \in Document
<1> DEFINE R == [i \in Item |->
                  IF Survives(docs, i)
                    THEN [docs[Max(Leads(docs, i))].row[i] EXCEPT
                            !.refs = {g \in @ : Survives(docs, g)},
                            !.entries = AllEntries(docs, i)]
                    ELSE Absent]
           T == [i \in Item |-> Tomb(docs, i)]
           E == UNION {docs[n].edits : n \in DOMAIN docs}
<1>1. Merge(docs) = [row |-> R, tomb |-> T, edits |-> E]
  BY DEF Merge
<1>2. ASSUME NEW i \in Item PROVE R[i] \in Row \cup {Absent}
  <2>1. CASE Survives(docs, i)
    <3>1. Merge(docs).row = R
      <4> HIDE DEF R, T, E
      <4> QED  BY <1>1
    <3> HIDE DEF R
    <3> QED  BY <2>1, <3>1, MergeRow
  <2>2. CASE ~Survives(docs, i)
    BY <2>2
  <2> QED  BY <2>1, <2>2
<1>3. R \in [Item -> Row \cup {Absent}]
  <2> DEFINE f == [i \in Item |-> R[i]]
  <2>1. R = f
    OBVIOUS
  <2> HIDE DEF R
  <2>2. f \in [Item -> Row \cup {Absent}]
    BY <1>2
  <2> QED  BY <2>1, <2>2
<1>4. T \in [Item -> Tick \cup {0}]
  BY LatestTomb
<1>5. E \subseteq Edit
  <2>1. \A n \in DOMAIN docs : docs[n].edits \subseteq Edit
    BY Positions DEF Document
  <2> QED  BY <2>1
<1> HIDE DEF R, T, E
<1> QED  BY <1>1, <1>3, <1>4, <1>5 DEF Document

-----------------------------------------------------------------------------
(* What every document is, in memory and on disk *)

\* No stamp is of the first second: cutting it to the second leaves a stamp.
LateStamps(d) ==
    \A i \in Item : /\ Live(d, i) => d.row[i].stamp >= TicksPerSecond
                    /\ d.tomb[i] = 0 \/ d.tomb[i] >= TicksPerSecond

\* What was put and never deleted is there, and what is there was put.
Undeleted(d) ==
    \A i \in Item : /\ d.tomb[i] = 0 /\ Puts(d, i) # {} => Live(d, i)
                    /\ Live(d, i) => Puts(d, i) # {}

KeptOrRemoved(d, t, id) ==
    \/ id \in Ids(d.row[t].entries)
    \/ \E r \in d.edits : r.kind = "remove" /\ r.entry = id

KeepsAdditions(d) ==
    \A t \in Task : Live(d, t) /\ d.tomb[t] = 0 =>
        \A e \in d.edits : e.item = t /\ e.kind = "add" => KeptOrRemoved(d, t, e.entry)

\* References are to live tags, and tags have none.
RefsHang(d) ==
    \A i \in Item : Live(d, i) => /\ \A g \in d.row[i].refs : Live(d, g)
                                  /\ i \in Tag => d.row[i].refs = {}

Sane(d) == d \in Document /\ LateStamps(d) /\ Undeleted(d) /\ KeepsAdditions(d) /\ RefsHang(d)

\* With stamps that the disk does not cut, and edits up to tick c: the document is the
\* evaluation of its edits.
Sound(d, c) ==
    /\ \A e \in d.edits : e.at <= c
    /\ \A i \in Item :
         /\ Live(d, i) => /\ d.row[i].stamp = d.row[i].edit
                          /\ d.tomb[i] < d.row[i].stamp
                          /\ \E e \in Puts(d, i) : e.at = d.row[i].stamp
                          /\ \A e \in Puts(d, i) : e.at <= d.row[i].stamp
         /\ ~Live(d, i) => \A e \in Puts(d, i) : e.at <= d.tomb[i]
         /\ d.tomb[i] = 0 \/ \E e \in Deletions(d, i) : e.at = d.tomb[i]
         /\ \A e \in Deletions(d, i) : e.at <= d.tomb[i]

-----------------------------------------------------------------------------
(* Merging *)

\* A merge of documents that are well-formed is well-formed.
LEMMA MergeSane ==
    ASSUME NEW docs \in Seq(Document), \A n \in DOMAIN docs : Sane(docs[n])
    PROVE  Sane(Merge(docs))
<1> DEFINE M == Merge(docs)
<1>1. M \in Document
  BY MergeType
<1>2. \A i \in Item : M.tomb[i] = Tomb(docs, i)
  BY MergeRow
<1>3. M.edits = UNION {docs[n].edits : n \in DOMAIN docs}
  BY DEF Merge
<1>4. \A i \in Item : Live(M, i) <=> Survives(docs, i)
  BY MergeRow
<1> HIDE DEF M
<1>5. ASSUME NEW i \in Item, Live(M, i)
      PROVE  /\ \E n \in DOMAIN docs : /\ Live(docs[n], i)
                                       /\ M.row[i].stamp = docs[n].row[i].stamp
                                       /\ M.row[i].refs \subseteq docs[n].row[i].refs
             /\ M.row[i].refs \subseteq Tag
             /\ \A g \in M.row[i].refs : Survives(docs, g)
             /\ M.row[i].entries = AllEntries(docs, i)
  <2>1. Survives(docs, i)
    BY <1>4, <1>5
  <2> DEFINE L == Max(Leads(docs, i))
  <2>2. /\ L \in DOMAIN docs /\ Live(docs[L], i) /\ M.row[i] \in Row
        /\ M.row[i].stamp = docs[L].row[i].stamp
        /\ M.row[i].refs = {g \in docs[L].row[i].refs : Survives(docs, g)}
        /\ M.row[i].entries = AllEntries(docs, i)
    BY <2>1, MergeRow DEF M
  <2> HIDE DEF L
  <2>3. M.row[i].refs \subseteq Tag
    BY <2>2 DEF Row
  <2> QED  BY <2>2, <2>3
<1>6. LateStamps(M)
  <2>1. ASSUME NEW i \in Item, Live(M, i) PROVE M.row[i].stamp >= TicksPerSecond
    BY <1>5, <2>1 DEF Sane, LateStamps
  <2>2. ASSUME NEW i \in Item PROVE M.tomb[i] = 0 \/ M.tomb[i] >= TicksPerSecond
    <3>1. Tomb(docs, i) = 0 \/ \E n \in DOMAIN docs : docs[n].tomb[i] = Tomb(docs, i)
      BY LatestTomb
    <3> QED  BY <3>1, <1>2 DEF Sane, LateStamps
  <2> QED  BY <2>1, <2>2 DEF LateStamps
<1>7. ASSUME NEW i \in Item, M.tomb[i] = 0, NEW n \in DOMAIN docs PROVE docs[n].tomb[i] = 0
  <2>1. docs[n].tomb[i] \in Nat
    BY Positions, RowsOfDocuments
  <2>2. docs[n].tomb[i] <= Tomb(docs, i) /\ Tomb(docs, i) = 0
    BY <1>2, <1>7, LatestTomb
  <2> QED  BY <2>1, <2>2
<1>8. Undeleted(M)
  <2>7. ASSUME NEW i \in Item, Live(M, i) PROVE Puts(M, i) # {}
    <3>1. PICK n \in DOMAIN docs : Live(docs[n], i)
      BY <1>5, <2>7
    <3>2. PICK e \in Puts(docs[n], i) : TRUE
      BY <3>1 DEF Sane, Undeleted
    <3>3. e \in Puts(M, i)
      BY <1>3, <3>2 DEF Puts
    <3> QED  BY <3>3
  <2> SUFFICES ASSUME NEW i \in Item, M.tomb[i] = 0, NEW e \in Puts(M, i) PROVE Live(M, i)
    BY <2>7 DEF Undeleted
  <2>1. PICK n \in DOMAIN docs : e \in docs[n].edits
    BY <1>3 DEF Puts
  <2>2. e \in Puts(docs[n], i) /\ docs[n].tomb[i] = 0
    BY <2>1, <1>7 DEF Puts
  <2>3. Live(docs[n], i)
    BY <2>2 DEF Sane, Undeleted
  <2> DEFINE L == Max(Leads(docs, i))
  <2>4. Leads(docs, i) # {} /\ L \in DOMAIN docs /\ Live(docs[L], i)
    BY <2>3, NoLeader, Leader
  <2>5. docs[L].row[i].stamp \in 1..MaxTick /\ Tomb(docs, i) = 0
    BY <2>4, <1>2, Positions, RowsOfDocuments
  <2>6. Survives(docs, i)
    BY <2>4, <2>5, FleetAssumption DEF Survives
  <2> QED  BY <2>6, <1>4
<1>9. KeepsAdditions(M)
  <2> SUFFICES ASSUME NEW t \in Task, Live(M, t), M.tomb[t] = 0, NEW e \in M.edits,
                      e.item = t, e.kind = "add"
               PROVE  KeptOrRemoved(M, t, e.entry)
    BY DEF KeepsAdditions
  <2>1. t \in Item
    BY DEF Item
  <2>2. PICK n \in DOMAIN docs : e \in docs[n].edits
    BY <1>3
  <2>3. e \in Puts(docs[n], t) /\ docs[n].tomb[t] = 0
    BY <2>1, <2>2, <1>7 DEF Puts
  <2>4. Live(docs[n], t)
    BY <2>1, <2>3 DEF Sane, Undeleted
  <2>5. KeptOrRemoved(docs[n], t, e.entry)
    BY <2>2, <2>3, <2>4 DEF Sane, KeepsAdditions
  <2>6. Ids(docs[n].row[t].entries) \subseteq Ids(M.row[t].entries)
    BY <2>1, <2>4, <1>5, MergedEntries
  <2>7. docs[n].edits \subseteq M.edits
    BY <1>3
  <2> QED  BY <2>5, <2>6, <2>7 DEF KeptOrRemoved
<1>10. RefsHang(M)
  <2> SUFFICES ASSUME NEW i \in Item, Live(M, i)
               PROVE  (\A g \in M.row[i].refs : Live(M, g)) /\ (i \in Tag => M.row[i].refs = {})
    BY DEF RefsHang
  <2>1. \A g \in M.row[i].refs : Live(M, g)
    BY <1>4, <1>5 DEF Item
  <2>2. i \in Tag => M.row[i].refs = {}
    BY <1>5 DEF Sane, RefsHang
  <2> QED  BY <2>1, <2>2
<1> QED  BY <1>1, <1>6, <1>8, <1>9, <1>10 DEF Sane, M

\* A merge of evaluations of edits is the evaluation of all of them.
LEMMA MergeSound ==
    ASSUME NEW docs \in Seq(Document), NEW c \in Nat, \A n \in DOMAIN docs : Sound(docs[n], c)
    PROVE  Sound(Merge(docs), c)
<1> DEFINE M == Merge(docs)
<1>1. M.edits = UNION {docs[n].edits : n \in DOMAIN docs} /\ M \in Document
  BY MergeType DEF Merge
<1>2. \A i \in Item : M.tomb[i] = Tomb(docs, i) /\ (Live(M, i) <=> Survives(docs, i))
  BY MergeRow
<1> HIDE DEF M
<1>3. \A e \in M.edits : e.at <= c
  BY <1>1 DEF Sound
<1>4. ASSUME NEW i \in Item, NEW e \in M.edits, e.item = i
      PROVE  \E n \in DOMAIN docs : /\ e \in docs[n].edits
                                    /\ e \in Puts(M, i) => e \in Puts(docs[n], i)
                                    /\ e \in Deletions(M, i) => e \in Deletions(docs[n], i)
  BY <1>1 DEF Puts, Deletions
<1>5. \A i \in Item, n \in DOMAIN docs :
        Puts(docs[n], i) \subseteq Puts(M, i) /\ Deletions(docs[n], i) \subseteq Deletions(M, i)
  BY <1>1 DEF Puts, Deletions
<1>6. \A e \in M.edits : e.at \in Nat
  BY <1>1, FleetAssumption DEF Document, Edit, Tick
<1>7. ASSUME NEW i \in Item
      PROVE  /\ M.tomb[i] = 0 \/ \E e \in Deletions(M, i) : e.at = M.tomb[i]
             /\ \A e \in Deletions(M, i) : e.at <= M.tomb[i]
  <2>1. Tomb(docs, i) = 0 \/ \E n \in DOMAIN docs : docs[n].tomb[i] = Tomb(docs, i)
    BY LatestTomb
  <2>2. M.tomb[i] = 0 \/ \E e \in Deletions(M, i) : e.at = M.tomb[i]
    BY <2>1, <1>2, <1>5 DEF Sound
  <2>3. ASSUME NEW e \in Deletions(M, i) PROVE e.at <= M.tomb[i]
    <3>1. PICK n \in DOMAIN docs : e \in Deletions(docs[n], i)
      BY <1>4 DEF Deletions
    <3>2. e.at <= docs[n].tomb[i] /\ docs[n].tomb[i] <= M.tomb[i]
      BY <3>1, <1>2, LatestTomb DEF Sound
    <3>3. e.at \in Nat /\ docs[n].tomb[i] \in Nat /\ M.tomb[i] \in Nat
      BY <1>1, <1>6, Positions, RowsOfDocuments DEF Deletions
    <3> QED  BY <3>2, <3>3
  <2> QED  BY <2>2, <2>3
<1>8. ASSUME NEW i \in Item, NEW n \in DOMAIN docs, NEW e \in Puts(docs[n], i)
      PROVE  \/ Live(docs[n], i) /\ e.at <= docs[n].row[i].stamp
             \/ e.at <= M.tomb[i]
  <2>1. CASE Live(docs[n], i)
    BY <2>1 DEF Sound
  <2>2. CASE ~Live(docs[n], i)
    <3>1. e.at <= docs[n].tomb[i] /\ docs[n].tomb[i] <= M.tomb[i]
      BY <2>2, <1>2, LatestTomb DEF Sound
    <3>2. e.at \in Nat /\ docs[n].tomb[i] \in Nat /\ M.tomb[i] \in Nat
      BY <1>1, <1>5, <1>6, Positions, RowsOfDocuments DEF Puts
    <3> QED  BY <3>1, <3>2
  <2> QED  BY <2>1, <2>2
<1>9. ASSUME NEW i \in Item, Live(M, i)
      PROVE  /\ M.row[i].stamp = M.row[i].edit
             /\ M.tomb[i] < M.row[i].stamp
             /\ \E e \in Puts(M, i) : e.at = M.row[i].stamp
             /\ \A e \in Puts(M, i) : e.at <= M.row[i].stamp
  <2> DEFINE L == Max(Leads(docs, i))
  <2>1. /\ L \in DOMAIN docs /\ Live(docs[L], i)
        /\ M.row[i].stamp = docs[L].row[i].stamp /\ M.row[i].edit = docs[L].row[i].edit
        /\ M.tomb[i] < M.row[i].stamp
    BY <1>2, <1>9, MergeRow DEF M
  <2>2. \A n \in DOMAIN docs :
          Live(docs[n], i) => docs[n].row[i].stamp <= docs[L].row[i].stamp
    BY <2>1, Leader
  <2> HIDE DEF L
  <2>3. M.row[i].stamp = M.row[i].edit /\ \E e \in Puts(M, i) : e.at = M.row[i].stamp
    BY <2>1, <1>5 DEF Sound
  <2>4. ASSUME NEW e \in Puts(M, i) PROVE e.at <= M.row[i].stamp
    <3>1. PICK n \in DOMAIN docs : e \in Puts(docs[n], i)
      BY <1>4 DEF Puts
    <3>2. e.at \in Nat /\ M.tomb[i] \in Nat /\ M.row[i].stamp \in Nat
      BY <1>1, <1>6, <1>9, RowsOfDocuments DEF Puts
    <3>3. Live(docs[n], i) => docs[n].row[i].stamp \in Nat
      BY Positions, RowsOfDocuments
    <3> QED  BY <3>1, <3>2, <3>3, <2>1, <2>2, <1>8
  <2> QED  BY <2>1, <2>3, <2>4
<1>10. ASSUME NEW i \in Item, ~Live(M, i), NEW e \in Puts(M, i)
       PROVE  e.at <= M.tomb[i]
  <2>1. PICK n \in DOMAIN docs : e \in Puts(docs[n], i)
    BY <1>4 DEF Puts
  <2>2. CASE Live(docs[n], i)
    <3> DEFINE L == Max(Leads(docs, i))
    <3>1. /\ L \in DOMAIN docs /\ Live(docs[L], i)
          /\ docs[n].row[i].stamp <= docs[L].row[i].stamp
      BY <2>2, Leader
    <3>2. Leads(docs, i) # {}
      BY <2>2, NoLeader
    <3>3. ~(Tomb(docs, i) < docs[L].row[i].stamp)
      BY <3>2, <1>2, <1>10 DEF Survives
    <3> HIDE DEF L
    <3>4. e.at \in Nat /\ M.tomb[i] \in Nat /\ docs[n].row[i].stamp \in Nat
          /\ docs[L].row[i].stamp \in Nat /\ M.tomb[i] = Tomb(docs, i)
      BY <1>1, <1>2, <1>6, <2>2, <3>1, Positions, RowsOfDocuments DEF Puts
    <3>5. e.at <= docs[n].row[i].stamp \/ e.at <= M.tomb[i]
      BY <2>1, <1>8
    <3> QED  BY <3>1, <3>3, <3>4, <3>5
  <2>3. CASE ~Live(docs[n], i)
    BY <2>1, <2>3, <1>8
  <2> QED  BY <2>2, <2>3
<1> QED  BY <1>3, <1>7, <1>9, <1>10 DEF Sound, M

-----------------------------------------------------------------------------
(* The replica file *)

\* Cutting a stamp to the second takes less than a second off it.
LEMMA CutStamps ==
    ASSUME NEW s \in Nat
    PROVE  /\ OnDisk(s) \in Nat /\ OnDisk(s) <= s
           /\ s >= TicksPerSecond => OnDisk(s) >= TicksPerSecond
           /\ s = 0 => OnDisk(s) = 0
           /\ TicksPerSecond = 1 => OnDisk(s) = s
<1>1. TicksPerSecond \in Nat /\ TicksPerSecond > 0
  BY FleetAssumption
<1> DEFINE q == s \div TicksPerSecond
           r == s % TicksPerSecond
<1>2. r \in Nat /\ r < TicksPerSecond
  BY <1>1
<1>3. q \in Nat /\ s = TicksPerSecond * q + r
  BY <1>1
<1>4. OnDisk(s) = s - r
  BY DEF OnDisk
<1> HIDE DEF q, r
<1>5. r <= s
  <2>1. TicksPerSecond * q >= 0
    BY <1>1, <1>3
  <2> QED  BY <1>1, <1>2, <1>3, <2>1
<1>6. s >= TicksPerSecond => s - r >= TicksPerSecond
  <2>1. SUFFICES ASSUME s >= TicksPerSecond PROVE s - r >= TicksPerSecond
    OBVIOUS
  <2>2. q # 0
    BY <1>1, <1>2, <1>3, <2>1
  <2>3. TicksPerSecond * q >= TicksPerSecond
    BY <1>1, <1>3, <2>2
  <2>4. TicksPerSecond * q \in Nat
    BY <1>1, <1>3
  <2> QED  BY <1>1, <1>2, <1>3, <2>3, <2>4
<1> QED  BY <1>1, <1>2, <1>4, <1>5, <1>6

\* What iso_secs leaves of a row and of a tombstone.
LEMMA ReplicaRow ==
    ASSUME NEW d \in Document, NEW i \in Item, LateStamps(d)
    PROVE  /\ Replica(d).tomb[i] = OnDisk(d.tomb[i])
           /\ Replica(d).edits = d.edits
           /\ Replica(d) \in Document
           /\ Live(Replica(d), i) <=> Live(d, i)
           /\ Live(d, i) => /\ Replica(d).row[i] = [d.row[i] EXCEPT !.stamp = OnDisk(@)]
                            /\ Replica(d).row[i].refs = d.row[i].refs
                            /\ Replica(d).row[i].entries = d.row[i].entries
                            /\ Replica(d).row[i].stamp = OnDisk(d.row[i].stamp)
<1> DEFINE R == [j \in Item |-> IF Live(d, j) THEN [d.row[j] EXCEPT !.stamp = OnDisk(@)]
                                              ELSE Absent]
           T == [j \in Item |-> OnDisk(d.tomb[j])]
           cut(j) == [d.row[j] EXCEPT !.stamp = OnDisk(@)]
<1>1. Replica(d).row = R /\ Replica(d).tomb = T /\ Replica(d).edits = d.edits
      /\ Replica(d) = [d EXCEPT !.row = R, !.tomb = T]
  BY DEF Replica, Document
<1>2. ASSUME NEW j \in Item, Live(d, j)
      PROVE  /\ cut(j) \in Row /\ cut(j).stamp = OnDisk(d.row[j].stamp)
             /\ cut(j).refs = d.row[j].refs /\ cut(j).entries = d.row[j].entries
  <2>1. d.row[j] \in Row /\ d.row[j].stamp \in Nat /\ d.row[j].stamp <= MaxTick
        /\ d.row[j].stamp >= TicksPerSecond
    BY <1>2, RowsOfDocuments, FleetAssumption DEF LateStamps
  <2>2. OnDisk(d.row[j].stamp) \in Nat /\ OnDisk(d.row[j].stamp) <= d.row[j].stamp
        /\ OnDisk(d.row[j].stamp) >= TicksPerSecond
    BY <2>1, CutStamps
  <2>3. OnDisk(d.row[j].stamp) \in Tick
    BY <2>1, <2>2, FleetAssumption DEF Tick
  <2> QED  BY <2>1, <2>3 DEF Row
<1>3. \A j \in Item : R[j] = (IF Live(d, j) THEN cut(j) ELSE Absent)
  OBVIOUS
<1>4. \A j \in Item : R[j] \in Row \cup {Absent}
  BY <1>2, <1>3
<1>5. ASSUME NEW j \in Item PROVE OnDisk(d.tomb[j]) \in Tick \cup {0}
  <2>1. d.tomb[j] \in Nat /\ d.tomb[j] <= MaxTick
    BY RowsOfDocuments
  <2>2. OnDisk(d.tomb[j]) \in Nat /\ OnDisk(d.tomb[j]) <= d.tomb[j]
    BY <2>1, CutStamps
  <2> QED  BY <2>1, <2>2, FleetAssumption DEF Tick
<1>6. T \in [Item -> Tick \cup {0}]
  BY <1>5
<1>7. R \in [Item -> Row \cup {Absent}]
  <2> DEFINE f == [j \in Item |-> R[j]]
  <2>1. R = f
    OBVIOUS
  <2> HIDE DEF R
  <2>2. f \in [Item -> Row \cup {Absent}]
    BY <1>4
  <2> QED  BY <2>1, <2>2
<1>8. Replica(d) \in Document
  <2> HIDE DEF R, T
  <2> QED  BY <1>1, <1>6, <1>7 DEF Document
<1>9. T[i] = OnDisk(d.tomb[i])
  OBVIOUS
<1>10. Live(Replica(d), i) <=> Live(d, i)
  <2> HIDE DEF R, T, cut
  <2> QED  BY <1>1, <1>2, <1>3, RowAssumption DEF Live
<1>11. Live(d, i) => Replica(d).row[i] = cut(i)
  <2> HIDE DEF R, T, cut
  <2> QED  BY <1>1, <1>3
<1> HIDE DEF R, T
<1> QED  BY <1>1, <1>2, <1>8, <1>9, <1>10, <1>11

\* The replica file of a well-formed document is well-formed.
LEMMA ReplicaSane ==
    ASSUME NEW d, Sane(d)
    PROVE  Sane(Replica(d))
<1> DEFINE M == Replica(d)
<1>1. d \in Document /\ LateStamps(d)
  BY DEF Sane
<1>2. \A i \in Item :
        /\ M.tomb[i] = OnDisk(d.tomb[i])
        /\ Live(M, i) <=> Live(d, i)
        /\ Live(d, i) => /\ M.row[i].refs = d.row[i].refs
                         /\ M.row[i].entries = d.row[i].entries
                         /\ M.row[i].stamp = OnDisk(d.row[i].stamp)
  BY <1>1, ReplicaRow
<1>3. M \in Document /\ M.edits = d.edits
  <2>1. CASE Item = {}
    BY <1>1, <2>1 DEF Replica, Document
  <2>2. CASE Item # {}
    BY <1>1, <2>2, ReplicaRow
  <2> QED  BY <2>1, <2>2
<1> HIDE DEF M
<1>4. ASSUME NEW i \in Item
      PROVE  /\ d.tomb[i] \in Nat /\ (d.tomb[i] = 0 \/ d.tomb[i] >= TicksPerSecond)
             /\ Live(d, i) => d.row[i].stamp \in Nat /\ d.row[i].stamp >= TicksPerSecond
  BY <1>1, RowsOfDocuments DEF LateStamps
<1>5. ASSUME NEW i \in Item PROVE M.tomb[i] = 0 <=> d.tomb[i] = 0
  BY <1>2, <1>4, CutStamps, FleetAssumption
<1>6. LateStamps(M)
  BY <1>2, <1>4, CutStamps DEF LateStamps
<1>7. Undeleted(M)
  BY <1>2, <1>3, <1>5 DEF Sane, Undeleted, Puts
<1>8. KeepsAdditions(M)
  <2> SUFFICES ASSUME NEW t \in Task, Live(M, t), M.tomb[t] = 0, NEW e \in M.edits,
                      e.item = t, e.kind = "add"
               PROVE  KeptOrRemoved(M, t, e.entry)
    BY DEF KeepsAdditions
  <2>1. t \in Item
    BY DEF Item
  <2>2. Live(d, t) /\ d.tomb[t] = 0 /\ e \in d.edits /\ M.row[t].entries = d.row[t].entries
    BY <2>1, <1>2, <1>3, <1>5
  <2>3. KeptOrRemoved(d, t, e.entry)
    BY <2>2 DEF Sane, KeepsAdditions
  <2> QED  BY <2>2, <2>3, <1>3 DEF KeptOrRemoved
<1>9. RefsHang(M)
  <2> SUFFICES ASSUME NEW i \in Item, Live(M, i)
               PROVE  (\A g \in M.row[i].refs : Live(M, g)) /\ (i \in Tag => M.row[i].refs = {})
    BY DEF RefsHang
  <2>1. Live(d, i) /\ M.row[i].refs = d.row[i].refs
    BY <1>2
  <2>2. d.row[i].refs \subseteq Item
    BY <1>1, <2>1, RowsOfDocuments DEF Item
  <2> QED  BY <1>2, <2>1, <2>2 DEF Sane, RefsHang
<1> QED  BY <1>3, <1>6, <1>7, <1>8, <1>9 DEF Sane, M

\* Where the disk does not cut stamps a replica file is the document.
LEMMA ReplicaIsDocument ==
    ASSUME TicksPerSecond = 1, NEW d \in Document
    PROVE  Replica(d) = d
<1> DEFINE R == [j \in Item |-> IF Live(d, j) THEN [d.row[j] EXCEPT !.stamp = OnDisk(@)]
                                              ELSE Absent]
           T == [j \in Item |-> OnDisk(d.tomb[j])]
           cut(j) == [d.row[j] EXCEPT !.stamp = OnDisk(@)]
<1>1. ASSUME NEW j \in Item, Live(d, j) PROVE cut(j) = d.row[j]
  <2>1. d.row[j] \in Row /\ d.row[j].stamp \in Nat
    BY <1>1, RowsOfDocuments
  <2>2. OnDisk(d.row[j].stamp) = d.row[j].stamp
    BY <2>1, CutStamps
  <2> QED  BY <2>1, <2>2 DEF Row
<1>2. \A j \in Item : R[j] = d.row[j]
  <2> TAKE j \in Item
  <2>1. R[j] = IF Live(d, j) THEN cut(j) ELSE Absent
    OBVIOUS
  <2> HIDE DEF cut, R
  <2> QED  BY <1>1, <2>1 DEF Live
<1>3. R = d.row
  <2> DEFINE f == [j \in Item |-> R[j]]
  <2>1. R = f
    OBVIOUS
  <2>2. d.row = [j \in Item |-> d.row[j]]
    BY DEF Document
  <2> HIDE DEF R
  <2>3. f = [j \in Item |-> d.row[j]]
    BY <1>2
  <2> QED  BY <2>1, <2>2, <2>3
<1>4. T = d.tomb
  <2>1. \A j \in Item : OnDisk(d.tomb[j]) = d.tomb[j]
    BY RowsOfDocuments, CutStamps
  <2> QED  BY <2>1 DEF Document
<1>5. Replica(d) = [d EXCEPT !.row = R, !.tomb = T]
  BY DEF Replica
<1> HIDE DEF R, T
<1> QED  BY <1>3, <1>4, <1>5 DEF Document

-----------------------------------------------------------------------------
(* Commands *)

\* What every command makes of a document d, in one edit at tick c: an entity is as it
\* was, or put, or deleted.
Untouched(d, n, i) ==
    /\ n.row[i] = d.row[i] /\ n.tomb[i] = d.tomb[i]
    /\ Puts(n, i) = Puts(d, i) /\ Deletions(n, i) = Deletions(d, i)

Put(d, n, i, c) ==
    /\ Live(n, i) /\ n.row[i].stamp = c /\ n.row[i].edit = c /\ n.tomb[i] = d.tomb[i]
    /\ Live(d, i) \/ Puts(d, i) = {}
    /\ Deletions(n, i) = Deletions(d, i)
    /\ Puts(d, i) \subseteq Puts(n, i) /\ \E e \in Puts(n, i) : e.at = c
    /\ \A e \in Puts(n, i) \ Puts(d, i) :
         e.at = c /\ (e.kind = "add" => e.entry \in Ids(n.row[i].entries))
    /\ Live(d, i) => \A id \in Ids(d.row[i].entries) : KeptOrRemoved(n, i, id)

Deleted(d, n, i, c) ==
    /\ Live(d, i) /\ ~Live(n, i) /\ n.tomb[i] = c
    /\ Puts(n, i) = Puts(d, i) /\ Deletions(d, i) \subseteq Deletions(n, i)
    /\ \E e \in Deletions(n, i) : e.at = c
    /\ \A e \in Deletions(n, i) \ Deletions(d, i) : e.at = c

Edited(d, n, c) ==
    /\ n \in Document /\ d.edits \subseteq n.edits /\ RefsHang(n)
    /\ \A i \in Item : Untouched(d, n, i) \/ Put(d, n, i, c) \/ Deleted(d, n, i, c)

\* An edit leaves a well-formed document well-formed.
LEMMA EditSane ==
    ASSUME NEW d, NEW n, NEW c, Sane(d), Edited(d, n, c), c \in Nat, c > TicksPerSecond
    PROVE  Sane(n)
<1>1. TicksPerSecond \in Nat /\ TicksPerSecond > 0
  BY FleetAssumption
<1>2. LateStamps(n)
  <2> SUFFICES ASSUME NEW i \in Item
               PROVE  /\ Live(n, i) => n.row[i].stamp >= TicksPerSecond
                      /\ n.tomb[i] = 0 \/ n.tomb[i] >= TicksPerSecond
    BY DEF LateStamps
  <2>1. CASE Untouched(d, n, i)
    BY <2>1 DEF Untouched, Sane, LateStamps, Live
  <2>2. CASE Put(d, n, i, c)
    BY <2>2, <1>1 DEF Put, Sane, LateStamps
  <2>3. CASE Deleted(d, n, i, c)
    BY <2>3, <1>1 DEF Deleted
  <2> QED  BY <2>1, <2>2, <2>3 DEF Edited
<1>3. Undeleted(n)
  <2> SUFFICES ASSUME NEW i \in Item
               PROVE  /\ n.tomb[i] = 0 /\ Puts(n, i) # {} => Live(n, i)
                      /\ Live(n, i) => Puts(n, i) # {}
    BY DEF Undeleted
  <2>1. CASE Untouched(d, n, i)
    BY <2>1 DEF Untouched, Sane, Undeleted, Live
  <2>2. CASE Put(d, n, i, c)
    BY <2>2 DEF Put
  <2>3. CASE Deleted(d, n, i, c)
    BY <2>3, <1>1 DEF Deleted
  <2> QED  BY <2>1, <2>2, <2>3 DEF Edited
<1>4. KeepsAdditions(n)
  <2> SUFFICES ASSUME NEW t \in Task, Live(n, t), n.tomb[t] = 0, NEW e \in n.edits,
                      e.item = t, e.kind = "add"
               PROVE  KeptOrRemoved(n, t, e.entry)
    BY DEF KeepsAdditions
  <2>1. t \in Item /\ e \in Puts(n, t)
    BY DEF Item, Puts
  <2>2. ASSUME Live(d, t), d.tomb[t] = 0, e \in Puts(d, t) PROVE KeptOrRemoved(d, t, e.entry)
    BY <2>2 DEF Sane, KeepsAdditions, Puts
  <2>3. CASE Untouched(d, n, t)
    <3>1. KeptOrRemoved(d, t, e.entry)
      BY <2>1, <2>2, <2>3 DEF Untouched, Live
    <3>2. n.row[t] = d.row[t] /\ d.edits \subseteq n.edits
      BY <2>3 DEF Untouched, Edited
    <3> QED  BY <3>1, <3>2 DEF KeptOrRemoved
  <2>4. CASE Put(d, n, t, c)
    <3>1. CASE e \in Puts(d, t)
      <4>1. Live(d, t) /\ d.tomb[t] = 0
        BY <2>4, <3>1 DEF Put
      <4>2. KeptOrRemoved(d, t, e.entry)
        BY <2>2, <3>1, <4>1
      <4>3. CASE e.entry \in Ids(d.row[t].entries)
        BY <2>4, <4>1, <4>3 DEF Put
      <4>4. CASE \E r \in d.edits : r.kind = "remove" /\ r.entry = e.entry
        BY <4>4 DEF Edited, KeptOrRemoved
      <4> QED  BY <4>2, <4>3, <4>4 DEF KeptOrRemoved
    <3>2. CASE e \notin Puts(d, t)
      BY <2>1, <2>4, <3>2 DEF Put, KeptOrRemoved
    <3> QED  BY <3>1, <3>2
  <2>5. CASE Deleted(d, n, t, c)
    BY <2>5 DEF Deleted
  <2> QED  BY <2>1, <2>3, <2>4, <2>5 DEF Edited
<1> QED  BY <1>2, <1>3, <1>4 DEF Sane, Edited

\* An edit later than all before it leaves a document the evaluation of its edits.
LEMMA EditSound ==
    ASSUME NEW d, NEW n, NEW b \in Nat, Sane(d), Sound(d, b), Edited(d, n, b + 1)
    PROVE  Sound(n, b + 1)
<1> DEFINE c == b + 1
<1>1. d \in Document /\ n \in Document
  BY DEF Sane, Edited
<1>2. \A i \in Item : d.tomb[i] \in Nat /\ n.tomb[i] \in Nat
  BY <1>1, RowsOfDocuments
<1>3. \A e \in n.edits : e.at \in Nat /\ e.item \in Item
  BY <1>1, FleetAssumption DEF Document, Edit, Tick
<1>4. \A e \in d.edits : e.at <= b /\ e \in n.edits
  BY DEF Sound, Edited
<1>5. ASSUME NEW e \in n.edits PROVE e.at <= c
  <2>1. PICK i \in Item : e.item = i
    BY <1>3
  <2>2. e \in Puts(n, i) \/ e \in Deletions(n, i)
    BY <2>1 DEF Puts, Deletions
  <2>3. CASE e \in d.edits
    BY <2>3, <1>3, <1>4
  <2>4. CASE e \notin d.edits
    <3>1. e \notin Puts(d, i) /\ e \notin Deletions(d, i)
      BY <2>4 DEF Puts, Deletions
    <3>2. e.at = c
      BY <2>2, <3>1 DEF Edited, Untouched, Put, Deleted
    <3> QED  BY <3>2
  <2> QED  BY <2>3, <2>4
<1>6. ASSUME NEW i \in Item
      PROVE /\ \A e \in Puts(n, i) : e.at \in Nat /\ e.at <= c
            /\ \A e \in Deletions(n, i) : e.at \in Nat /\ e.at <= c
            /\ \A e \in Puts(d, i) : e.at \in Nat /\ e.at <= b
            /\ \A e \in Deletions(d, i) : e.at \in Nat /\ e.at <= b
  BY <1>3, <1>4, <1>5 DEF Puts, Deletions
<1>7. ASSUME NEW i \in Item
      PROVE  /\ Live(n, i) => /\ n.row[i].stamp = n.row[i].edit
                              /\ n.tomb[i] < n.row[i].stamp
                              /\ \E e \in Puts(n, i) : e.at = n.row[i].stamp
                              /\ \A e \in Puts(n, i) : e.at <= n.row[i].stamp
             /\ ~Live(n, i) => \A e \in Puts(n, i) : e.at <= n.tomb[i]
             /\ n.tomb[i] = 0 \/ \E e \in Deletions(n, i) : e.at = n.tomb[i]
             /\ \A e \in Deletions(n, i) : e.at <= n.tomb[i]
  <2>1. CASE Untouched(d, n, i)
    BY <2>1 DEF Untouched, Sound, Live
  <2>2. CASE Put(d, n, i, c)
    <3>1. n.tomb[i] < c
      <4>1. d.tomb[i] = 0 \/ \E e \in Deletions(d, i) : e.at = d.tomb[i]
        BY DEF Sound
      <4>2. d.tomb[i] <= b
        BY <4>1, <1>6, <1>2
      <4> QED  BY <4>2, <2>2, <1>2 DEF Put
    <3>2. \A e \in Puts(n, i) : e.at <= n.row[i].stamp
      BY <2>2, <1>6 DEF Put
    <3>3. n.row[i].stamp = n.row[i].edit /\ n.tomb[i] < n.row[i].stamp
          /\ Live(n, i) /\ \E e \in Puts(n, i) : e.at = n.row[i].stamp
      BY <2>2, <3>1 DEF Put
    <3>4. /\ n.tomb[i] = 0 \/ \E e \in Deletions(n, i) : e.at = n.tomb[i]
          /\ \A e \in Deletions(n, i) : e.at <= n.tomb[i]
      BY <2>2 DEF Put, Sound
    <3> QED  BY <3>2, <3>3, <3>4
  <2>3. CASE Deleted(d, n, i, c)
    <3>1. ~Live(n, i) /\ n.tomb[i] = c /\ \E e \in Deletions(n, i) : e.at = n.tomb[i]
      BY <2>3 DEF Deleted
    <3> QED  BY <1>6, <3>1
  <2> QED  BY <2>1, <2>2, <2>3 DEF Edited
<1> QED  BY <1>5, <1>7 DEF Sound

\* Row i of d becomes r, with edits `what' at tick c that stand for it.
Written(d, i, r, what) == [d EXCEPT !.row = [d.row EXCEPT ![i] = r], !.edits = d.edits \cup what]

StandFor(what, d, i, r, c) ==
    /\ r.stamp = c /\ r.edit = c
    /\ (\A g \in r.refs : Live(d, g)) /\ (i \in Tag => r.refs = {})
    /\ Live(d, i) \/ Puts(d, i) = {}
    /\ what # {}
    /\ \A w \in what : /\ w.item = i /\ w.at = c /\ w.kind # "delete"
                       /\ w.kind = "add" => w.entry \in Ids(r.entries)
    /\ Live(d, i) => \A id \in Ids(d.row[i].entries) :
                        \/ id \in Ids(r.entries)
                        \/ \E w \in what : w.kind = "remove" /\ w.entry = id

\* Write, when its edits say what it does, is an edit of the document.
LEMMA WritingEdits ==
    ASSUME NEW d \in Document, RefsHang(d), NEW i \in Item, NEW r \in Row,
           NEW what \in SUBSET Edit, NEW c, StandFor(what, d, i, r, c)
    PROVE  Edited(d, Written(d, i, r, what), c)
<1> DEFINE n == Written(d, i, r, what)
<1>1. n \in Document /\ n.tomb = d.tomb /\ n.edits = d.edits \cup what
  BY DEF Document, Written
<1>2. n.row[i] = r /\ \A j \in Item : j # i => n.row[j] = d.row[j]
  BY DEF Document, Written
<1> HIDE DEF n
<1>3. Live(n, i)
  BY <1>2, RowAssumption DEF Live
<1>4. \A j \in Item : Live(d, j) => Live(n, j)
  BY <1>2, <1>3 DEF Live
<1>5. RefsHang(n)
  <2> SUFFICES ASSUME NEW j \in Item, Live(n, j)
               PROVE  (\A g \in n.row[j].refs : Live(n, g)) /\ (j \in Tag => n.row[j].refs = {})
    BY DEF RefsHang
  <2>1. CASE j = i
    <3>1. r.refs \subseteq Item
      BY DEF Row, Item
    <3> QED  BY <1>2, <1>4, <2>1, <3>1 DEF StandFor
  <2>2. CASE j # i
    <3>1. Live(d, j) /\ n.row[j] = d.row[j]
      BY <1>2, <2>2 DEF Live
    <3>2. d.row[j].refs \subseteq Item
      BY <3>1, RowsOfDocuments DEF Item
    <3> QED  BY <1>4, <3>1, <3>2 DEF RefsHang
  <2> QED  BY <2>1, <2>2
<1>6. ASSUME NEW j \in Item, j # i PROVE Untouched(d, n, j)
  <2>1. Puts(n, j) = Puts(d, j) /\ Deletions(n, j) = Deletions(d, j)
    BY <1>1, <1>6 DEF Puts, Deletions, StandFor
  <2> QED  BY <1>1, <1>2, <1>6, <2>1 DEF Untouched
<1>7. Put(d, n, i, c)
  <2>1. Deletions(n, i) = Deletions(d, i) /\ Puts(n, i) = Puts(d, i) \cup what
    BY <1>1 DEF Puts, Deletions, StandFor
  <2>2. Live(d, i) => \A id \in Ids(d.row[i].entries) : KeptOrRemoved(n, i, id)
    BY <1>1, <1>2 DEF KeptOrRemoved, StandFor
  <2>3. /\ Puts(d, i) \subseteq Puts(n, i) /\ \E e \in Puts(n, i) : e.at = c
        /\ \A e \in Puts(n, i) \ Puts(d, i) :
             e.at = c /\ (e.kind = "add" => e.entry \in Ids(n.row[i].entries))
    BY <1>2, <2>1 DEF StandFor
  <2> QED  BY <1>1, <1>2, <1>3, <2>1, <2>2, <2>3 DEF Put, StandFor
<1> QED  BY <1>1, <1>5, <1>6, <1>7 DEF Edited, n

\* The edits a command notes are edits of now.
LEMMA NewEdits ==
    ASSUME clock \in Tick, clock < MaxTick, clock' = clock + 1
    PROVE  /\ clock' \in Tick
           /\ \A i \in Item, kind \in {"put", "delete", "add", "remove"}, id \in Tick \cup {0} :
                /\ NewEdit(i, kind, id) \in Edit
                /\ NewEdit(i, kind, id).item = i /\ NewEdit(i, kind, id).at = clock'
                /\ NewEdit(i, kind, id).kind = kind /\ NewEdit(i, kind, id).entry = id
<1>1. clock' \in Tick
  BY FleetAssumption DEF Tick
<1> QED  BY <1>1 DEF NewEdit, Edit

\* Open and Closed keep the entries what they are.
LEMMA Opened ==
    ASSUME NEW entries \in SUBSET Entry
    PROVE  Closed(entries) \in SUBSET Entry /\ Ids(Closed(entries)) = Ids(entries)
<1>1. \A e \in entries : [e EXCEPT !.open = FALSE] \in Entry /\ [e EXCEPT !.open = FALSE].id = e.id
  BY DEF Entry
<1> QED  BY <1>1 DEF Closed, Ids

\* add_task_record and add_tag edit the document.
LEMMA AddItemEdits ==
    ASSUME NEW d \in Device, NEW i \in Item, doc \in [Device -> Document], clock \in Tick,
           Sane(doc[d]), AddItem(d, i)
    PROVE  Edited(doc[d], doc'[d], clock') /\ \A e \in Device : e # d => doc'[e] = doc[e]
<1>1. Puts(doc[d], i) = {} /\ clock' = clock + 1 /\ clock < MaxTick
  BY DEF AddItem, Stamps
<1>2. PICK refs \in SUBSET (IF i \in Task THEN {g \in Tag : Live(doc[d], g)} ELSE {}) :
        Write(d, i, [stamp |-> clock', edit |-> clock', refs |-> refs, entries |-> {}],
              {NewEdit(i, "put", 0)})
  BY DEF AddItem
<1> DEFINE r == [[stamp |-> clock', edit |-> clock', refs |-> refs, entries |-> {}]
                   EXCEPT !.stamp = clock', !.edit = clock']
           what == {NewEdit(i, "put", 0)}
           n == Written(doc[d], i, r, what)
<1>3. doc' = [doc EXCEPT ![d] = n]
  BY <1>2 DEF Write, Written
<1>4. r \in Row /\ r.stamp = clock' /\ r.edit = clock' /\ r.refs = refs
  BY <1>1, NewEdits DEF Row
<1>5. (\A g \in refs : Live(doc[d], g)) /\ (i \in Tag => refs = {})
  BY FleetAssumption
<1>6. /\ what \in SUBSET Edit /\ what # {}
      /\ \A w \in what : w.item = i /\ w.at = clock' /\ w.kind = "put"
  BY <1>1, NewEdits
<1>7. ~Live(doc[d], i) /\ RefsHang(doc[d]) /\ doc[d] \in Document
  BY <1>1 DEF Sane, Undeleted
<1> HIDE DEF r, what
<1>10. StandFor(what, doc[d], i, r, clock')
  BY <1>1, <1>4, <1>5, <1>6, <1>7 DEF StandFor
<1>8. Edited(doc[d], n, clock')
  BY <1>1, <1>4, <1>6, <1>7, <1>10, WritingEdits
<1> HIDE DEF n
<1> QED  BY <1>3, <1>8

\* update_task_record and update_tag edit the document.
LEMMA EditItemEdits ==
    ASSUME NEW d \in Device, NEW i \in Item, doc \in [Device -> Document], clock \in Tick,
           Sane(doc[d]), EditItem(d, i)
    PROVE  Edited(doc[d], doc'[d], clock') /\ \A e \in Device : e # d => doc'[e] = doc[e]
<1>1. Live(doc[d], i) /\ clock' = clock + 1 /\ clock < MaxTick
  BY DEF EditItem, Stamps
<1>2. PICK refs \in SUBSET (IF i \in Task THEN {g \in Tag : Live(doc[d], g)} ELSE {}) :
        Write(d, i, [doc[d].row[i] EXCEPT !.refs = refs], {NewEdit(i, "put", 0)})
  BY DEF EditItem
<1> DEFINE r == [[doc[d].row[i] EXCEPT !.refs = refs] EXCEPT !.stamp = clock', !.edit = clock']
           what == {NewEdit(i, "put", 0)}
           n == Written(doc[d], i, r, what)
<1>3. doc' = [doc EXCEPT ![d] = n]
  BY <1>2 DEF Write, Written
<1>7. RefsHang(doc[d]) /\ doc[d] \in Document /\ doc[d].row[i] \in Row
  BY <1>1, RowsOfDocuments DEF Sane
<1>4. /\ r \in Row /\ r.stamp = clock' /\ r.edit = clock' /\ r.refs = refs
      /\ r.entries = doc[d].row[i].entries
  BY <1>1, <1>7, NewEdits DEF Row
<1>5. (\A g \in refs : Live(doc[d], g)) /\ (i \in Tag => refs = {})
  BY FleetAssumption
<1>6. /\ what \in SUBSET Edit /\ what # {}
      /\ \A w \in what : w.item = i /\ w.at = clock' /\ w.kind = "put"
  BY <1>1, NewEdits
<1> HIDE DEF r, what
<1>10. StandFor(what, doc[d], i, r, clock')
  BY <1>1, <1>4, <1>5, <1>6, <1>7 DEF StandFor
<1>8. Edited(doc[d], n, clock')
  BY <1>1, <1>4, <1>6, <1>7, <1>10, WritingEdits
<1> HIDE DEF n
<1> QED  BY <1>3, <1>8

\* start_timer and add_time_entry edit the document.
LEMMA AddEntryEdits ==
    ASSUME NEW d \in Device, NEW t \in Task, NEW open \in BOOLEAN,
           doc \in [Device -> Document], clock \in Tick, Sane(doc[d]), AddEntry(d, t, open)
    PROVE  Edited(doc[d], doc'[d], clock') /\ \A e \in Device : e # d => doc'[e] = doc[e]
<1>1. Live(doc[d], t) /\ clock' = clock + 1 /\ clock < MaxTick /\ t \in Item
  BY DEF AddEntry, Stamps, Item
<1> DEFINE entry == [id |-> clock', open |-> open]
           r == [[doc[d].row[t] EXCEPT !.entries = @ \cup {entry}]
                   EXCEPT !.stamp = clock', !.edit = clock']
           what == {NewEdit(t, "add", clock')}
           n == Written(doc[d], t, r, what)
<1>2. Write(d, t, [doc[d].row[t] EXCEPT !.entries = @ \cup {entry}], what)
  BY DEF AddEntry
<1>3. doc' = [doc EXCEPT ![d] = n]
  BY <1>2 DEF Write, Written
<1>7. RefsHang(doc[d]) /\ doc[d] \in Document /\ doc[d].row[t] \in Row
  BY <1>1, RowsOfDocuments DEF Sane
<1>11. entry \in Entry /\ entry.id = clock'
  BY <1>1, NewEdits DEF Entry
<1> HIDE DEF entry
<1>12. /\ doc[d].row[t].entries \cup {entry} \in SUBSET Entry /\ clock' \in Tick
  BY <1>1, <1>7, <1>11, RowsOfDocuments, NewEdits
<1>4. /\ r \in Row /\ r.stamp = clock' /\ r.edit = clock' /\ r.refs = doc[d].row[t].refs
      /\ r.entries = doc[d].row[t].entries \cup {entry} /\ entry.id = clock'
  BY <1>7, <1>11, <1>12 DEF Row
<1>5. (\A g \in r.refs : Live(doc[d], g)) /\ (t \in Tag => r.refs = {})
  BY <1>1, <1>4, <1>7 DEF RefsHang
<1>6. /\ what \in SUBSET Edit /\ what # {}
      /\ \A w \in what : w.item = t /\ w.at = clock' /\ w.kind = "add" /\ w.entry = clock'
  BY <1>1, NewEdits
<1> HIDE DEF r, what
<1>9. clock' \in Ids(r.entries) /\ Ids(doc[d].row[t].entries) \subseteq Ids(r.entries)
  BY <1>4 DEF Ids
<1>10. StandFor(what, doc[d], t, r, clock')
  BY <1>1, <1>4, <1>5, <1>6, <1>7, <1>9 DEF StandFor
<1>8. Edited(doc[d], n, clock')
  BY <1>1, <1>4, <1>6, <1>7, <1>10, WritingEdits
<1> HIDE DEF n
<1> QED  BY <1>3, <1>8

\* stop_timer edits the document.
LEMMA StopTimerEdits ==
    ASSUME NEW d \in Device, NEW t \in Task, doc \in [Device -> Document], clock \in Tick,
           Sane(doc[d]), StopTimer(d, t)
    PROVE  Edited(doc[d], doc'[d], clock') /\ \A e \in Device : e # d => doc'[e] = doc[e]
<1>1. Live(doc[d], t) /\ clock' = clock + 1 /\ clock < MaxTick /\ t \in Item
  BY DEF StopTimer, Stamps, Item
<1> DEFINE r == [[doc[d].row[t] EXCEPT !.entries = Closed(@)]
                   EXCEPT !.stamp = clock', !.edit = clock']
           what == {NewEdit(t, "put", 0)}
           n == Written(doc[d], t, r, what)
<1>2. Write(d, t, [doc[d].row[t] EXCEPT !.entries = Closed(@)], what)
  BY DEF StopTimer
<1>3. doc' = [doc EXCEPT ![d] = n]
  BY <1>2 DEF Write, Written
<1>7. RefsHang(doc[d]) /\ doc[d] \in Document /\ doc[d].row[t] \in Row
      /\ doc[d].row[t].entries \in SUBSET Entry
  BY <1>1, RowsOfDocuments DEF Sane
<1>9. /\ Closed(doc[d].row[t].entries) \in SUBSET Entry
      /\ Ids(Closed(doc[d].row[t].entries)) = Ids(doc[d].row[t].entries)
  BY <1>7, Opened
<1>4. /\ r \in Row /\ r.stamp = clock' /\ r.edit = clock' /\ r.refs = doc[d].row[t].refs
      /\ r.entries = Closed(doc[d].row[t].entries)
  BY <1>1, <1>7, <1>9, NewEdits DEF Row
<1>5. (\A g \in r.refs : Live(doc[d], g)) /\ (t \in Tag => r.refs = {})
  BY <1>1, <1>4, <1>7 DEF RefsHang
<1>6. /\ what \in SUBSET Edit /\ what # {}
      /\ \A w \in what : w.item = t /\ w.at = clock' /\ w.kind = "put"
  BY <1>1, NewEdits
<1> HIDE DEF r, what
<1>10. StandFor(what, doc[d], t, r, clock')
  BY <1>1, <1>4, <1>5, <1>6, <1>7, <1>9 DEF StandFor
<1>8. Edited(doc[d], n, clock')
  BY <1>1, <1>4, <1>6, <1>7, <1>10, WritingEdits
<1> HIDE DEF n
<1> QED  BY <1>3, <1>8

\* delete_time_entry edits the document.
LEMMA DeleteEntryEdits ==
    ASSUME NEW d \in Device, NEW t \in Task, doc \in [Device -> Document], clock \in Tick,
           Sane(doc[d]), DeleteEntry(d, t)
    PROVE  Edited(doc[d], doc'[d], clock') /\ \A e \in Device : e # d => doc'[e] = doc[e]
<1>1. Live(doc[d], t) /\ clock' = clock + 1 /\ clock < MaxTick /\ t \in Item
  BY DEF DeleteEntry, Stamps, Item
<1>2. PICK e \in doc[d].row[t].entries :
        Write(d, t, [doc[d].row[t] EXCEPT !.entries = @ \ {e}], {NewEdit(t, "remove", e.id)})
  BY DEF DeleteEntry
<1> DEFINE r == [[doc[d].row[t] EXCEPT !.entries = @ \ {e}]
                   EXCEPT !.stamp = clock', !.edit = clock']
           what == {NewEdit(t, "remove", e.id)}
           n == Written(doc[d], t, r, what)
<1>3. doc' = [doc EXCEPT ![d] = n]
  BY <1>2 DEF Write, Written
<1>7. RefsHang(doc[d]) /\ doc[d] \in Document /\ doc[d].row[t] \in Row
      /\ doc[d].row[t].entries \in SUBSET Entry /\ e.id \in Tick
  BY <1>1, RowsOfDocuments DEF Sane, Entry
<1>4. /\ r \in Row /\ r.stamp = clock' /\ r.edit = clock' /\ r.refs = doc[d].row[t].refs
      /\ r.entries = doc[d].row[t].entries \ {e}
  BY <1>1, <1>7, NewEdits DEF Row
<1>5. (\A g \in r.refs : Live(doc[d], g)) /\ (t \in Tag => r.refs = {})
  BY <1>1, <1>4, <1>7 DEF RefsHang
<1>6. /\ what \in SUBSET Edit /\ what # {}
      /\ \A w \in what : w.item = t /\ w.at = clock' /\ w.kind = "remove" /\ w.entry = e.id
  BY <1>1, <1>7, NewEdits
<1> HIDE DEF r, what
<1>9. \A id \in Ids(doc[d].row[t].entries) :
        id \in Ids(r.entries) \/ \E w \in what : w.kind = "remove" /\ w.entry = id
  BY <1>4, <1>6 DEF Ids
<1>10. StandFor(what, doc[d], t, r, clock')
  BY <1>1, <1>4, <1>5, <1>6, <1>7, <1>9 DEF StandFor
<1>8. Edited(doc[d], n, clock')
  BY <1>1, <1>4, <1>6, <1>7, <1>10, WritingEdits
<1> HIDE DEF n
<1> QED  BY <1>3, <1>8

\* delete_task_record edits the document.
LEMMA DeleteTaskEdits ==
    ASSUME NEW d \in Device, NEW t \in Task, doc \in [Device -> Document], clock \in Tick,
           Sane(doc[d]), DeleteTask(d, t)
    PROVE  Edited(doc[d], doc'[d], clock') /\ \A e \in Device : e # d => doc'[e] = doc[e]
<1> DEFINE what == {NewEdit(t, "delete", 0)}
           n == [doc[d] EXCEPT !.row = [doc[d].row EXCEPT ![t] = Absent],
                               !.tomb = [doc[d].tomb EXCEPT ![t] = clock'],
                               !.edits = doc[d].edits \cup what]
<1>1. Live(doc[d], t) /\ clock' = clock + 1 /\ clock < MaxTick /\ t \in Item /\ t \notin Tag
  BY FleetAssumption DEF DeleteTask, Stamps, Item
<1>2. doc' = [doc EXCEPT ![d] = n]
  BY DEF DeleteTask
<1>3. RefsHang(doc[d]) /\ doc[d] \in Document
  BY DEF Sane
<1>4. /\ what \in SUBSET Edit /\ clock' \in Tick
      /\ \A w \in what : w.item = t /\ w.at = clock' /\ w.kind = "delete"
      /\ what # {}
  BY <1>1, NewEdits
<1> HIDE DEF what
<1>5. /\ n.edits = doc[d].edits \cup what /\ n.row[t] = Absent /\ n.tomb[t] = clock'
      /\ \A j \in Item : j # t => n.row[j] = doc[d].row[j] /\ n.tomb[j] = doc[d].tomb[j]
  BY <1>1, <1>3 DEF Document
<1>6. n \in Document
  BY <1>1, <1>3, <1>4 DEF Document
<1> HIDE DEF n
<1>7. ~Live(n, t) /\ \A j \in Item : j # t => (Live(n, j) <=> Live(doc[d], j))
  BY <1>5 DEF Live
<1>8. RefsHang(n)
  <2> SUFFICES ASSUME NEW j \in Item, Live(n, j)
               PROVE  (\A g \in n.row[j].refs : Live(n, g)) /\ (j \in Tag => n.row[j].refs = {})
    BY DEF RefsHang
  <2>1. j # t /\ Live(doc[d], j) /\ n.row[j] = doc[d].row[j]
    BY <1>5, <1>7
  <2>2. \A g \in n.row[j].refs : g \in Item /\ g # t
    BY <1>1, <1>3, <2>1, RowsOfDocuments DEF Item
  <2> QED  BY <1>3, <1>7, <2>1, <2>2 DEF RefsHang
<1>9. ASSUME NEW j \in Item, j # t PROVE Untouched(doc[d], n, j)
  <2>1. Puts(n, j) = Puts(doc[d], j) /\ Deletions(n, j) = Deletions(doc[d], j)
    BY <1>4, <1>5, <1>9 DEF Puts, Deletions
  <2> QED  BY <1>5, <1>9, <2>1 DEF Untouched
<1>10. Deleted(doc[d], n, t, clock')
  <2>1. Puts(n, t) = Puts(doc[d], t) /\ Deletions(n, t) = Deletions(doc[d], t) \cup what
    BY <1>4, <1>5 DEF Puts, Deletions
  <2> QED  BY <1>1, <1>4, <1>5, <1>7, <2>1 DEF Deleted
<1>11. Edited(doc[d], n, clock')
  BY <1>5, <1>6, <1>8, <1>9, <1>10 DEF Edited
<1> QED  BY <1>2, <1>11

\* delete_tag edits the document, all its tasks at once.
LEMMA DeleteTagEdits ==
    ASSUME NEW d \in Device, NEW g \in Tag, doc \in [Device -> Document], clock \in Tick,
           Sane(doc[d]), DeleteTag(d, g)
    PROVE  Edited(doc[d], doc'[d], clock') /\ \A e \in Device : e # d => doc'[e] = doc[e]
<1> DEFINE D == doc[d]
           c == clock'
           tasks == {t \in Task : Live(D, t)}
           strip(i) == [D.row[i] EXCEPT !.stamp = c, !.edit = c, !.refs = @ \ {g}]
           R == [i \in Item |-> IF i = g THEN Absent
                                ELSE IF i \in tasks THEN strip(i) ELSE D.row[i]]
           puts == {NewEdit(t, "put", 0) : t \in tasks}
           gone == NewEdit(g, "delete", 0)
           n == [D EXCEPT !.row = R, !.tomb = [D.tomb EXCEPT ![g] = c],
                          !.edits = D.edits \cup {gone} \cup puts]
<1>1. /\ Live(D, g) /\ clock' = clock + 1 /\ clock < MaxTick /\ g \in Item /\ g \notin Task
      /\ RefsHang(D) /\ D \in Document
  BY FleetAssumption DEF DeleteTag, Stamps, Item, Sane
<1>2. doc' = [doc EXCEPT ![d] = n]
  BY DEF DeleteTag
<1>3. c \in Tick
  BY <1>1, NewEdits
<1>4. /\ gone \in Edit /\ gone.item = g /\ gone.at = c /\ gone.kind = "delete"
      /\ puts \in SUBSET Edit
      /\ \A w \in puts : w.item \in tasks /\ w.at = c /\ w.kind = "put"
      /\ \A t \in tasks : \E w \in puts : w.item = t
  <2>1. tasks \subseteq Item
    BY DEF Item
  <2> HIDE DEF tasks
  <2> QED  BY <1>1, <2>1, NewEdits
<1>5. \A t \in tasks : t \in Task /\ t \in Item /\ t # g /\ Live(D, t)
  BY <1>1 DEF Item
<1>6. \A i \in Item : i \notin tasks /\ Live(D, i) => i \in Tag
  BY DEF Item
<1>7. ASSUME NEW t \in tasks
      PROVE  /\ strip(t) \in Row /\ strip(t).stamp = c /\ strip(t).edit = c
             /\ strip(t).refs = D.row[t].refs \ {g} /\ strip(t).entries = D.row[t].entries
  <2>1. D.row[t] \in Row
    BY <1>1, <1>5, RowsOfDocuments
  <2> HIDE DEF D, c
  <2> QED  BY <2>1, <1>3 DEF Row
<1> HIDE DEF tasks, strip, puts, gone, D, c
<1>8. \A i \in Item : R[i] = IF i = g THEN Absent
                             ELSE IF i \in tasks THEN strip(i) ELSE D.row[i]
  OBVIOUS
<1>9. \A i \in Item : R[i] \in Row \cup {Absent}
  BY <1>1, <1>7, <1>8 DEF Document
<1>10. R \in [Item -> Row \cup {Absent}]
  <2> DEFINE f == [i \in Item |-> R[i]]
  <2>1. R = f
    OBVIOUS
  <2> HIDE DEF R
  <2>2. f \in [Item -> Row \cup {Absent}]
    BY <1>9
  <2> QED  BY <2>1, <2>2
<1> HIDE DEF R
<1>11. n \in Document
  BY <1>1, <1>3, <1>4, <1>10 DEF Document
<1>12. /\ n.row = R /\ n.edits = D.edits \cup {gone} \cup puts /\ n.tomb[g] = c
       /\ \A i \in Item : i # g => n.tomb[i] = D.tomb[i]
  BY <1>1 DEF Document
<1> HIDE DEF n
<1>13. ~Live(n, g) /\ \A i \in Item : i # g => (Live(n, i) <=> Live(D, i))
  <2> SUFFICES ASSUME NEW i \in Item, i # g PROVE Live(n, i) <=> Live(D, i)
    BY <1>1, <1>8, <1>12 DEF Live
  <2>1. CASE i \in tasks
    BY <2>1, <1>5, <1>7, <1>8, <1>12, RowAssumption DEF Live
  <2>2. CASE i \notin tasks
    BY <2>2, <1>8, <1>12 DEF Live
  <2> QED  BY <2>1, <2>2
<1>14. RefsHang(n)
  <2> SUFFICES ASSUME NEW i \in Item, Live(n, i)
               PROVE  (\A h \in n.row[i].refs : Live(n, h)) /\ (i \in Tag => n.row[i].refs = {})
    BY DEF RefsHang
  <2>1. i # g /\ Live(D, i)
    BY <1>13
  <2>2. \A h \in D.row[i].refs : h \in Item /\ Live(D, h)
    BY <1>1, <2>1, RowsOfDocuments DEF RefsHang, Item
  <2>3. CASE i \in tasks
    <3>1. n.row[i].refs = D.row[i].refs \ {g}
      BY <2>1, <2>3, <1>7, <1>8, <1>12
    <3>2. i \notin Tag
      BY <2>3, <1>5, FleetAssumption
    <3> QED  BY <1>13, <2>2, <3>1, <3>2
  <2>4. CASE i \notin tasks
    <3>1. n.row[i] = D.row[i] /\ i \in Tag
      BY <2>1, <2>4, <1>6, <1>8, <1>12
    <3> QED  BY <1>1, <2>1, <3>1 DEF RefsHang
  <2> QED  BY <2>3, <2>4
<1>15. Deleted(D, n, g, c)
  <2>1. g \notin tasks
    BY <1>5
  <2>2. Puts(n, g) = Puts(D, g)
    BY <1>4, <1>12, <2>1 DEF Puts
  <2>3. Deletions(n, g) = Deletions(D, g) \cup {gone}
    BY <1>4, <1>12, <2>1 DEF Deletions
  <2> QED  BY <1>1, <1>4, <1>12, <1>13, <2>2, <2>3 DEF Deleted
<1>16. ASSUME NEW i \in tasks PROVE Put(D, n, i, c)
  <2>1. n.row[i] = strip(i) /\ Live(n, i) /\ Live(D, i) /\ i # g /\ i \in Item
    BY <1>5, <1>8, <1>12, <1>13
  <2>2. Deletions(n, i) = Deletions(D, i)
    BY <1>4, <1>12, <2>1 DEF Deletions
  <2>3. Puts(n, i) = Puts(D, i) \cup {w \in puts : w.item = i}
    BY <1>4, <1>12, <2>1 DEF Puts
  <2>4. \A id \in Ids(D.row[i].entries) : KeptOrRemoved(n, i, id)
    BY <2>1, <1>7 DEF KeptOrRemoved
  <2> QED  BY <1>4, <1>7, <1>12, <2>1, <2>2, <2>3, <2>4 DEF Put
<1>17. ASSUME NEW i \in Item, i # g, i \notin tasks PROVE Untouched(D, n, i)
  <2>1. Puts(n, i) = Puts(D, i) /\ Deletions(n, i) = Deletions(D, i)
    BY <1>4, <1>12, <1>17 DEF Puts, Deletions
  <2> QED  BY <1>8, <1>12, <1>17, <2>1 DEF Untouched
<1>18. Edited(D, n, c)
  <2>1. D.edits \subseteq n.edits
    BY <1>12
  <2> QED  BY <1>11, <1>14, <1>15, <1>16, <1>17, <2>1 DEF Edited
<1> QED  BY <1>2, <1>18 DEF D, c

\* discard_running_afk edits the document, all tasks with a timer at once.
LEMMA DiscardAfkEdits ==
    ASSUME NEW d \in Device, doc \in [Device -> Document], clock \in Tick, Sane(doc[d]),
           DiscardAfk(d)
    PROVE  Edited(doc[d], doc'[d], clock') /\ \A e \in Device : e # d => doc'[e] = doc[e]
<1> DEFINE D == doc[d]
           c == clock'
           tasks == {t \in Task : Live(D, t) /\ Open(D.row[t]) # {}}
<1>1. PICK away \in 1..clock :
        LET gone(t) == {e \in Open(doc[d].row[t]) : e.id >= away}
        IN  doc' = [doc EXCEPT
              ![d].row = [i \in Item |->
                  IF i \in tasks
                    THEN [doc[d].row[i] EXCEPT !.stamp = clock', !.edit = clock',
                                               !.entries = Closed(@ \ gone(i))]
                    ELSE doc[d].row[i]],
              ![d].edits = @ \cup {NewEdit(t, "put", 0) : t \in tasks}
                  \cup UNION {{NewEdit(t, "remove", e.id) : e \in gone(t)} : t \in tasks}]
  BY DEF DiscardAfk
<1> DEFINE gone(t) == {e \in Open(D.row[t]) : e.id >= away}
           cut(i) == [D.row[i] EXCEPT !.stamp = c, !.edit = c, !.entries = Closed(@ \ gone(i))]
           R == [i \in Item |-> IF i \in tasks THEN cut(i) ELSE D.row[i]]
           puts == {NewEdit(t, "put", 0) : t \in tasks}
           removals == UNION {{NewEdit(t, "remove", e.id) : e \in gone(t)} : t \in tasks}
           n == [D EXCEPT !.row = R, !.edits = D.edits \cup puts \cup removals]
<1>2. doc' = [doc EXCEPT ![d] = n]
  BY <1>1
<1>3. clock' = clock + 1 /\ clock < MaxTick /\ RefsHang(D) /\ D \in Document
  BY DEF DiscardAfk, Stamps, Sane
<1>4. c \in Tick
  BY <1>3, NewEdits
<1>5. \A t \in tasks : t \in Task /\ t \in Item /\ t \notin Tag /\ Live(D, t)
  BY FleetAssumption DEF Item
<1>6. ASSUME NEW t \in tasks
      PROVE  /\ D.row[t] \in Row /\ D.row[t].entries \in SUBSET Entry
             /\ gone(t) \subseteq D.row[t].entries
             /\ \A e \in gone(t) : e.id \in Tick
  <2>1. D.row[t] \in Row /\ D.row[t].entries \in SUBSET Entry
    BY <1>3, <1>5, RowsOfDocuments
  <2>2. gone(t) \subseteq D.row[t].entries
    BY DEF Open
  <2> HIDE DEF gone
  <2> QED  BY <2>1, <2>2 DEF Entry
<1>7. ASSUME NEW t \in tasks
      PROVE  /\ cut(t) \in Row /\ cut(t).stamp = c /\ cut(t).edit = c
             /\ cut(t).refs = D.row[t].refs
             /\ cut(t).entries = Closed(D.row[t].entries \ gone(t))
             /\ Ids(cut(t).entries) = Ids(D.row[t].entries \ gone(t))
  <2> DEFINE rest == D.row[t].entries \ gone(t)
  <2>1. rest \in SUBSET Entry /\ D.row[t] \in Row
    BY <1>6
  <2>2. cut(t) = [D.row[t] EXCEPT !.stamp = c, !.edit = c, !.entries = Closed(rest)]
    OBVIOUS
  <2> HIDE DEF rest, D, c, cut
  <2>3. Closed(rest) \in SUBSET Entry /\ Ids(Closed(rest)) = Ids(rest)
    BY <2>1, Opened
  <2>4. cut(t) \in Row /\ cut(t).stamp = c /\ cut(t).edit = c /\ cut(t).refs = D.row[t].refs
        /\ cut(t).entries = Closed(rest)
    BY <2>1, <2>2, <2>3, <1>4 DEF Row
  <2> QED  BY <2>3, <2>4 DEF rest
<1>8. /\ puts \in SUBSET Edit
      /\ \A w \in puts : w.item \in tasks /\ w.at = c /\ w.kind = "put"
      /\ \A t \in tasks : \E w \in puts : w.item = t
  <2> HIDE DEF tasks
  <2> QED  BY <1>3, <1>5, NewEdits
<1>9. /\ removals \in SUBSET Edit
      /\ \A w \in removals : w.item \in tasks /\ w.at = c /\ w.kind = "remove"
      /\ \A t \in tasks : \A e \in gone(t) :
           \E w \in removals : w.kind = "remove" /\ w.entry = e.id
  <2>1. ASSUME NEW t \in tasks, NEW e \in gone(t)
        PROVE  /\ NewEdit(t, "remove", e.id) \in Edit
               /\ NewEdit(t, "remove", e.id).item = t /\ NewEdit(t, "remove", e.id).at = c
               /\ NewEdit(t, "remove", e.id).kind = "remove"
               /\ NewEdit(t, "remove", e.id).entry = e.id
    <3>1. e.id \in Tick /\ t \in Item
      BY <1>5, <1>6
    <3> HIDE DEF tasks, gone
    <3> QED  BY <1>3, <3>1, NewEdits
  <2> HIDE DEF tasks, gone
  <2>2. \A w : w \in removals <=> \E t \in tasks : \E e \in gone(t) : w = NewEdit(t, "remove", e.id)
    OBVIOUS
  <2> HIDE DEF removals
  <2> QED  BY <2>1, <2>2
<1> HIDE DEF tasks, gone, cut, puts, removals, D, c
<1>10. \A i \in Item : R[i] = IF i \in tasks THEN cut(i) ELSE D.row[i]
  OBVIOUS
<1>11. \A i \in Item : R[i] \in Row \cup {Absent}
  BY <1>3, <1>7, <1>10 DEF Document
<1>12. R \in [Item -> Row \cup {Absent}]
  <2> DEFINE f == [i \in Item |-> R[i]]
  <2>1. R = f
    OBVIOUS
  <2> HIDE DEF R
  <2>2. f \in [Item -> Row \cup {Absent}]
    BY <1>11
  <2> QED  BY <2>1, <2>2
<1> HIDE DEF R
<1>13. n \in Document
  BY <1>3, <1>8, <1>9, <1>12 DEF Document
<1>14. n.row = R /\ n.edits = D.edits \cup puts \cup removals /\ n.tomb = D.tomb
  BY <1>3 DEF Document
<1> HIDE DEF n
<1>15. \A i \in Item : Live(n, i) <=> Live(D, i)
  <2> TAKE i \in Item
  <2>1. CASE i \in tasks
    BY <2>1, <1>5, <1>7, <1>10, <1>14, RowAssumption DEF Live
  <2>2. CASE i \notin tasks
    BY <2>2, <1>10, <1>14 DEF Live
  <2> QED  BY <2>1, <2>2
<1>16. RefsHang(n)
  <2> SUFFICES ASSUME NEW i \in Item, Live(n, i)
               PROVE  (\A h \in n.row[i].refs : Live(n, h)) /\ (i \in Tag => n.row[i].refs = {})
    BY DEF RefsHang
  <2>1. Live(D, i)
    BY <1>15
  <2>2. n.row[i].refs = D.row[i].refs
    BY <1>7, <1>10, <1>14
  <2>3. \A h \in D.row[i].refs : h \in Item /\ Live(D, h)
    BY <1>3, <2>1, RowsOfDocuments DEF RefsHang, Item
  <2> QED  BY <1>3, <1>15, <2>1, <2>2, <2>3 DEF RefsHang
<1>17. ASSUME NEW i \in tasks PROVE Put(D, n, i, c)
  <2>1. n.row[i] = cut(i) /\ Live(n, i) /\ Live(D, i) /\ i \in Item
    BY <1>5, <1>10, <1>14, <1>15
  <2>2. Deletions(n, i) = Deletions(D, i)
    BY <1>8, <1>9, <1>14 DEF Deletions
  <2>3. Puts(n, i) = Puts(D, i) \cup {w \in puts \cup removals : w.item = i}
    BY <1>8, <1>9, <1>14 DEF Puts
  <2>4. ASSUME NEW id \in Ids(D.row[i].entries) PROVE KeptOrRemoved(n, i, id)
    <3>1. PICK e \in D.row[i].entries : e.id = id
      BY <2>4 DEF Ids
    <3>2. CASE e \in gone(i)
      BY <3>1, <3>2, <1>9, <1>14 DEF KeptOrRemoved
    <3>3. CASE e \notin gone(i)
      <4>1. e.id \in Ids(D.row[i].entries \ gone(i))
        BY <3>3 DEF Ids
      <4> QED  BY <3>1, <4>1, <2>1, <1>7 DEF KeptOrRemoved
    <3> QED  BY <3>2, <3>3
  <2>5. /\ Puts(D, i) \subseteq Puts(n, i) /\ \E e \in Puts(n, i) : e.at = c
        /\ \A e \in Puts(n, i) \ Puts(D, i) : e.at = c /\ e.kind # "add"
    BY <1>8, <1>9, <2>3
  <2> QED  BY <1>7, <1>14, <2>1, <2>2, <2>4, <2>5 DEF Put
<1>18. ASSUME NEW i \in Item, i \notin tasks PROVE Untouched(D, n, i)
  <2>1. Puts(n, i) = Puts(D, i) /\ Deletions(n, i) = Deletions(D, i)
    BY <1>8, <1>9, <1>14, <1>18 DEF Puts, Deletions
  <2> QED  BY <1>10, <1>14, <1>18, <2>1 DEF Untouched
<1>19. Edited(D, n, c)
  <2>1. D.edits \subseteq n.edits
    BY <1>14
  <2> QED  BY <1>13, <1>16, <1>17, <1>18, <2>1 DEF Edited
<1> QED  BY <1>2, <1>19 DEF D, c

\* Every command is one edit of one device's document.
LEMMA CommandEdits ==
    ASSUME NEW d \in Device, doc \in [Device -> Document], clock \in Tick, Sane(doc[d]),
           Command(d)
    PROVE  /\ Edited(doc[d], doc'[d], clock') /\ \A e \in Device : e # d => doc'[e] = doc[e]
           /\ clock' = clock + 1 /\ clock' \in Tick /\ UNCHANGED <<view, seen, restarts>>
<1>1. Edited(doc[d], doc'[d], clock') /\ \A e \in Device : e # d => doc'[e] = doc[e]
  <2>1. CASE \E i \in Item : AddItem(d, i)
    BY <2>1, AddItemEdits
  <2>2. CASE \E i \in Item : EditItem(d, i)
    BY <2>2, EditItemEdits
  <2>3. CASE \E t \in Task : DeleteTask(d, t)
    BY <2>3, DeleteTaskEdits
  <2>4. CASE \E t \in Task : StopTimer(d, t)
    BY <2>4, StopTimerEdits
  <2>5. CASE \E t \in Task : DeleteEntry(d, t)
    BY <2>5, DeleteEntryEdits
  <2>6. CASE \E t \in Task : \E open \in BOOLEAN : AddEntry(d, t, open)
    BY <2>6, AddEntryEdits
  <2>7. CASE \E g \in Tag : DeleteTag(d, g)
    BY <2>7, DeleteTagEdits
  <2>8. CASE DiscardAfk(d)
    BY <2>8, DiscardAfkEdits
  <2> QED  BY <2>1, <2>2, <2>3, <2>4, <2>5, <2>6, <2>7, <2>8 DEF Command
<1>2. Stamps(d)
  BY DEF Command, AddItem, EditItem, DeleteTask, StopTimer, DeleteEntry, AddEntry, DeleteTag,
         DiscardAfk
<1> QED  BY <1>1, <1>2, NewEdits DEF Stamps

-----------------------------------------------------------------------------
(* The invariants *)

Replicas(d) == [Peers(d) -> {r \in Document : Sane(r)}]

\* Everything in memory, in the folders and remembered is sane.
FleetSane ==
    /\ clock \in Tick /\ clock >= TicksPerSecond /\ restarts \in 0..MaxRestarts
    /\ doc \in [Device -> Document] /\ \A d \in Device : Sane(doc[d])
    /\ view = [d \in Device |-> view[d]] /\ \A d \in Device : view[d] \in Replicas(d)
    /\ seen = [d \in Device |-> seen[d]] /\ \A d \in Device : seen[d] \in Replicas(d)

FleetSound ==
    \A d \in Device : /\ Sound(doc[d], clock)
                      /\ \A p \in Peers(d) : Sound(view[d][p], clock) /\ Sound(seen[d][p], clock)

\* Of the peers p's row of i is the newest, and the first of the newest.
First(peers, i, p) ==
    /\ Live(peers[p], i)
    /\ \A q \in DOMAIN peers : Live(peers[q], i) =>
         /\ peers[q].row[i].stamp <= peers[p].row[i].stamp
         /\ q < p => peers[q].row[i].stamp < peers[p].row[i].stamp

\* Document d is peers merged, then edited: a row that is not newer than all of the peers'
\* is that of the first newest of them, with the references that are live here and the
\* time entries of all others.
AsMerged(d, peers) ==
    /\ \A p \in DOMAIN peers : peers[p].edits \subseteq d.edits
    /\ \A i \in Item : Live(d, i) =>
         \/ \A p \in DOMAIN peers :
              Live(peers[p], i) => peers[p].row[i].stamp < d.row[i].stamp
         \/ \E p \in DOMAIN peers :
              /\ First(peers, i, p)
              /\ d.row[i].refs = {g \in peers[p].row[i].refs : Live(d, g)}
              /\ {e \in d.row[i].entries : e.id \in Ids(peers[p].row[i].entries)}
                   = peers[p].row[i].entries
              /\ \A q \in DOMAIN peers : Live(peers[q], i) =>
                   Ids(peers[q].row[i].entries) \subseteq Ids(d.row[i].entries)

FleetMerged == \A d \in Device : AsMerged(doc[d], seen[d])

-----------------------------------------------------------------------------
(* What is merged *)

\* The peers of a device are finitely many numbers.
LEMMA PeersAreFew ==
    ASSUME NEW d \in Device
    PROVE  Peers(d) \in SUBSET Nat /\ IsFiniteSet(Peers(d)) /\ Peers(d) \subseteq Device
<1>1. Peers(d) \subseteq Device
  BY DEF Peers
<1> QED  BY <1>1, FleetAssumption, FS_Subset

\* The replicas of the peers, in their order, and maybe a document of our own behind them.
Assembled(docs, peers, own) ==
    \/ docs = InNameOrder(peers)
    \/ docs = Append(InNameOrder(peers), own)

\* What a reload or a start-up merges: every peer's replica, perhaps our own document.
LEMMA AssembledDocuments ==
    ASSUME NEW d \in Device, NEW peers \in [Peers(d) -> Document], NEW own \in Document,
           NEW docs, Assembled(docs, peers, own)
    PROVE  /\ docs \in Seq(Document)
           /\ \A n \in DOMAIN docs : docs[n] = own \/ \E p \in Peers(d) : docs[n] = peers[p]
           /\ \A p \in Peers(d) : \E n \in DOMAIN docs : docs[n] = peers[p]
<1> DEFINE s == InNameOrder(peers)
           N == Cardinality(Peers(d))
<1>1. DOMAIN peers = Peers(d) /\ Peers(d) \in SUBSET Nat /\ IsFiniteSet(Peers(d))
      /\ \A p \in Peers(d) : peers[p] \in Document
  BY PeersAreFew
<1>2. /\ s \in Seq(Document) /\ Len(s) = N
      /\ \A n \in 1..N : NameAt(Peers(d), n) \in Peers(d) /\ s[n] = peers[NameAt(Peers(d), n)]
  BY <1>1, InOrder
<1>3. \A p \in Peers(d) : \E n \in 1..N : NameAt(Peers(d), n) = p
  BY <1>1, NamesInOrder
<1> HIDE DEF s, N
<1>4. /\ Append(s, own) \in Seq(Document) /\ Len(Append(s, own)) = N + 1 /\ N \in Nat
      /\ Append(s, own)[N + 1] = own /\ \A n \in 1..N : Append(s, own)[n] = s[n]
  BY <1>2
<1>5. CASE docs = s
  <2>1. DOMAIN docs = 1..N /\ docs \in Seq(Document)
    BY <1>2, <1>5
  <2>2. \A n \in 1..N : n \in DOMAIN docs /\ docs[n] = peers[NameAt(Peers(d), n)]
    BY <1>2, <1>5, <2>1
  <2>3. \A n \in DOMAIN docs : \E p \in Peers(d) : docs[n] = peers[p]
    BY <1>2, <2>1, <2>2
  <2>4. ASSUME NEW p \in Peers(d) PROVE \E n \in DOMAIN docs : docs[n] = peers[p]
    <3>1. PICK n \in 1..N : NameAt(Peers(d), n) = p
      BY <1>3
    <3> QED  BY <3>1, <2>2
  <2> QED  BY <2>1, <2>3, <2>4
<1>6. CASE docs = Append(s, own)
  <2>1. DOMAIN docs = 1..(N + 1)
    BY <1>4, <1>6
  <2>2. \A n \in DOMAIN docs : n \in 1..N \/ n = N + 1
    BY <1>4, <2>1
  <2>3. \A n \in 1..N : n \in DOMAIN docs /\ docs[n] = peers[NameAt(Peers(d), n)]
    BY <1>2, <1>4, <1>6, <2>1
  <2>4. docs[N + 1] = own /\ docs \in Seq(Document)
    BY <1>4, <1>6
  <2>5. \A n \in DOMAIN docs : docs[n] = own \/ \E p \in Peers(d) : docs[n] = peers[p]
    BY <1>2, <2>2, <2>3, <2>4
  <2>6. ASSUME NEW p \in Peers(d) PROVE \E n \in DOMAIN docs : docs[n] = peers[p]
    <3>1. PICK n \in 1..N : NameAt(Peers(d), n) = p
      BY <1>3
    <3> QED  BY <3>1, <2>3
  <2> QED  BY <2>4, <2>5, <2>6
<1> QED  BY <1>5, <1>6 DEF Assembled, s

\* What a merge makes of peers and a document of our own is as merged.
LEMMA MergeIsAsMerged ==
    ASSUME NEW d \in Device, NEW peers \in [Peers(d) -> Document], NEW own \in Document,
           NEW docs, Assembled(docs, peers, own)
    PROVE  AsMerged(Merge(docs), peers)
<1> DEFINE M == Merge(docs)
           s == InNameOrder(peers)
           N == Cardinality(Peers(d))
           name(n) == NameAt(Peers(d), n)
<1>1. DOMAIN peers = Peers(d) /\ Peers(d) \in SUBSET Nat /\ IsFiniteSet(Peers(d))
      /\ \A p \in Peers(d) : peers[p] \in Document
  BY PeersAreFew
<1>2. /\ s \in Seq(Document) /\ Len(s) = N /\ N \in Nat
      /\ \A n \in 1..N : name(n) \in Peers(d) /\ s[n] = peers[name(n)]
  BY <1>1, InOrder, FS_CardinalityType
<1>3. /\ \A p \in Peers(d) : \E n \in 1..N : name(n) = p
      /\ \A m, n \in 1..N : m < n => name(m) < name(n)
  BY <1>1, NamesInOrder
<1>4. docs \in Seq(Document) /\ \A p \in Peers(d) : \E n \in DOMAIN docs : docs[n] = peers[p]
  BY AssembledDocuments
<1>5. \A p \in Peers(d) : peers[p].edits \subseteq M.edits
  BY <1>4 DEF Merge
<1> HIDE DEF s, N, name
<1>6. /\ \A n \in 1..N : n \in DOMAIN docs /\ docs[n] = peers[name(n)]
      /\ \A n \in DOMAIN docs : n \in 1..N \/ (n = N + 1 /\ \A m \in 1..N : m < n)
  <2>1. CASE docs = s
    BY <1>2, <2>1
  <2>2. CASE docs = Append(s, own)
    <3>1. DOMAIN docs = 1..(N + 1) /\ \A n \in 1..N : docs[n] = s[n]
      BY <1>2, <2>2
    <3> QED  BY <1>2, <3>1
  <2> QED  BY <2>1, <2>2 DEF Assembled, s
<1>7. ASSUME NEW i \in Item, Live(M, i)
      PROVE  \/ \A p \in Peers(d) : Live(peers[p], i) => peers[p].row[i].stamp < M.row[i].stamp
             \/ \E p \in Peers(d) :
                  /\ First(peers, i, p)
                  /\ M.row[i].refs = {g \in peers[p].row[i].refs : Live(M, g)}
                  /\ {e \in M.row[i].entries : e.id \in Ids(peers[p].row[i].entries)}
                       = peers[p].row[i].entries
                  /\ \A q \in Peers(d) : Live(peers[q], i) =>
                       Ids(peers[q].row[i].entries) \subseteq Ids(M.row[i].entries)
  <2> DEFINE L == Max(Leads(docs, i))
  <2>1. /\ L \in DOMAIN docs /\ Live(docs[L], i)
        /\ M.row[i].stamp = docs[L].row[i].stamp
        /\ M.row[i].refs = {g \in docs[L].row[i].refs : Survives(docs, g)}
        /\ M.row[i].entries = AllEntries(docs, i)
    BY <1>4, <1>7, MergeRow
  <2>2. /\ L \in Leads(docs, i) /\ \A n \in Leads(docs, i) : n <= L
        /\ \A n \in DOMAIN docs : Live(docs[n], i) =>
             /\ docs[n].row[i].stamp <= docs[L].row[i].stamp
             /\ n < L => docs[n].row[i].stamp < docs[L].row[i].stamp
    BY <1>4, <2>1, Leader
  <2>3. \A g \in Item : Live(M, g) <=> Survives(docs, g)
    BY <1>4, MergeRow
  <2>4. docs[L].row[i].refs \subseteq Item
    BY <1>4, <2>1, Positions, RowsOfDocuments DEF Item
  <2> HIDE DEF L, M
  <2>5. CASE L \in 1..N
    <3> DEFINE p == name(L)
    <3>1. p \in Peers(d) /\ docs[L] = peers[p]
      BY <1>2, <1>6, <2>5
    <3>2. First(peers, i, p)
      <4> SUFFICES ASSUME NEW q \in Peers(d), Live(peers[q], i)
                   PROVE  /\ peers[q].row[i].stamp <= peers[p].row[i].stamp
                          /\ q < p => peers[q].row[i].stamp < peers[p].row[i].stamp
        BY <1>1, <2>1, <3>1 DEF First
      <4>1. PICK n \in 1..N : name(n) = q
        BY <1>3
      <4>2. n \in DOMAIN docs /\ docs[n] = peers[q]
        BY <1>6, <4>1
      <4>3. q < p => n < L
        <5>1. SUFFICES ASSUME q < p, ~(n < L) PROVE FALSE
          OBVIOUS
        <5>2. n \in Nat /\ L \in Nat /\ q \in Nat /\ p \in Nat
          BY <1>1, <1>2, <2>5, <3>1
        <5>3. CASE n = L
          BY <4>1, <5>1, <5>2, <5>3
        <5>4. CASE L < n
          <6>1. p < q
            BY <1>3, <2>5, <4>1, <5>4
          <6> QED  BY <5>1, <5>2, <6>1
        <5> QED  BY <5>1, <5>2, <5>3, <5>4
      <4> QED  BY <2>2, <3>1, <4>2, <4>3
    <3> HIDE DEF p
    <3>3. M.row[i].refs = {g \in peers[p].row[i].refs : Live(M, g)}
      BY <2>1, <2>3, <2>4, <3>1
    <3>4. ASSUME NEW q \in Peers(d), Live(peers[q], i)
          PROVE  Ids(peers[q].row[i].entries) \subseteq Ids(M.row[i].entries)
      <4>1. PICK n \in DOMAIN docs : docs[n] = peers[q]
        BY <1>4
      <4> QED  BY <1>4, <2>1, <3>4, <4>1, MergedEntries
    <3>5. ASSUME NEW id \in Ids(docs[L].row[i].entries) PROVE Bearer(docs, i, id) = L
      <4> DEFINE b == Bearer(docs, i, id)
      <4>1. b \in Leads(docs, i) /\ L <= b /\ b \in DOMAIN docs
        BY <1>4, <2>1, <2>2, <3>5, BearerHasIt
      <4> HIDE DEF b
      <4>2. b <= L /\ b \in Nat /\ L \in Nat
        BY <1>4, <2>1, <2>2, <4>1, Positions
      <4>3. b = L
        BY <4>1, <4>2
      <4> QED  BY <4>3 DEF b
    <3>6. {e \in M.row[i].entries : e.id \in Ids(peers[p].row[i].entries)}
            = peers[p].row[i].entries
      <4>1. \A e : e \in M.row[i].entries <=>
              \E n \in DOMAIN docs : /\ Live(docs[n], i) /\ e \in docs[n].row[i].entries
                                     /\ Bearer(docs, i, e.id) = n
        BY <1>4, <2>1, MergedEntries
      <4>2. ASSUME NEW e \in M.row[i].entries, e.id \in Ids(peers[p].row[i].entries)
            PROVE  e \in peers[p].row[i].entries
        BY <3>1, <3>5, <4>1, <4>2
      <4>3. ASSUME NEW e \in peers[p].row[i].entries
            PROVE  e \in M.row[i].entries /\ e.id \in Ids(peers[p].row[i].entries)
        <5>1. e.id \in Ids(peers[p].row[i].entries)
          BY DEF Ids
        <5> QED  BY <2>1, <3>1, <3>5, <4>1, <5>1
      <4> QED  BY <4>2, <4>3
    <3> QED  BY <3>1, <3>2, <3>3, <3>4, <3>6
  <2>6. CASE L \notin 1..N
    <3>1. \A m \in 1..N : m < L
      BY <1>6, <2>1, <2>6
    <3>2. ASSUME NEW q \in Peers(d), Live(peers[q], i)
          PROVE  peers[q].row[i].stamp < M.row[i].stamp
      <4>1. PICK n \in 1..N : name(n) = q
        BY <1>3
      <4>2. n \in DOMAIN docs /\ docs[n] = peers[q] /\ n < L
        BY <1>6, <3>1, <4>1
      <4> QED  BY <2>1, <2>2, <3>2, <4>2
    <3> QED  BY <3>2
  <2> QED  BY <2>5, <2>6
<1> QED  BY <1>1, <1>5, <1>7 DEF AsMerged, M

\* An edit newer than everything leaves a document as merged.
LEMMA EditKeepsAsMerged ==
    ASSUME NEW d \in Document, NEW n, NEW b \in Nat, NEW peers,
           \A p \in DOMAIN peers : Sane(peers[p]) /\ Sound(peers[p], b),
           RefsHang(d), AsMerged(d, peers), Edited(d, n, b + 1)
    PROVE  AsMerged(n, peers)
<1>1. \A p \in DOMAIN peers : peers[p].edits \subseteq n.edits
  BY DEF AsMerged, Edited
<1>2. ASSUME NEW i \in Item, Live(n, i)
      PROVE  \/ \A p \in DOMAIN peers :
                  Live(peers[p], i) => peers[p].row[i].stamp < n.row[i].stamp
             \/ \E p \in DOMAIN peers :
                  /\ First(peers, i, p)
                  /\ n.row[i].refs = {g \in peers[p].row[i].refs : Live(n, g)}
                  /\ {e \in n.row[i].entries : e.id \in Ids(peers[p].row[i].entries)}
                       = peers[p].row[i].entries
                  /\ \A q \in DOMAIN peers : Live(peers[q], i) =>
                       Ids(peers[q].row[i].entries) \subseteq Ids(n.row[i].entries)
  <2>1. CASE Deleted(d, n, i, b + 1)
    BY <1>2, <2>1 DEF Deleted
  <2>2. CASE Put(d, n, i, b + 1)
    <3>1. ASSUME NEW p \in DOMAIN peers, Live(peers[p], i)
          PROVE  peers[p].row[i].stamp < n.row[i].stamp
      <4>1. PICK e \in Puts(peers[p], i) : e.at = peers[p].row[i].stamp
        BY <3>1 DEF Sound
      <4>2. e.at <= b
        BY DEF Puts, Sound
      <4>3. peers[p].row[i].stamp \in Nat
        BY <3>1, RowsOfDocuments DEF Sane
      <4> QED  BY <2>2, <4>1, <4>2, <4>3 DEF Put
    <3> QED  BY <3>1
  <2>3. CASE Untouched(d, n, i)
    <3>1. n.row[i] = d.row[i] /\ Live(d, i)
      BY <1>2, <2>3 DEF Untouched, Live
    <3>2. CASE \A p \in DOMAIN peers :
                 Live(peers[p], i) => peers[p].row[i].stamp < d.row[i].stamp
      BY <3>1, <3>2
    <3>3. ASSUME NEW p \in DOMAIN peers, First(peers, i, p),
                 d.row[i].refs = {g \in peers[p].row[i].refs : Live(d, g)}
          PROVE  n.row[i].refs = {g \in peers[p].row[i].refs : Live(n, g)}
      <4>1. Live(peers[p], i) /\ peers[p] \in Document
        BY <3>3 DEF First, Sane
      <4>2. peers[p].row[i].refs \subseteq Item
        BY <4>1, RowsOfDocuments DEF Item
      <4>3. ASSUME NEW g \in peers[p].row[i].refs, Live(n, g) PROVE g \in n.row[i].refs
        <5>1. Live(peers[p], g)
          BY <4>1 DEF Sane, RefsHang
        <5>2. Puts(peers[p], g) # {}
          BY <4>2, <5>1 DEF Sane, Undeleted
        <5>3. Puts(d, g) # {}
          BY <5>2 DEF AsMerged, Puts
        <5>4. Live(d, g)
          BY <4>2, <4>3, <5>3 DEF Edited, Untouched, Put, Deleted, Live
        <5> QED  BY <3>1, <3>3, <5>4
      <4>4. \A g \in n.row[i].refs : g \in peers[p].row[i].refs /\ Live(n, g)
        BY <1>2, <3>1, <3>3 DEF Edited, RefsHang
      <4> QED  BY <4>3, <4>4
    <3>4. CASE \E p \in DOMAIN peers :
                  /\ First(peers, i, p)
                  /\ d.row[i].refs = {g \in peers[p].row[i].refs : Live(d, g)}
                  /\ {e \in d.row[i].entries : e.id \in Ids(peers[p].row[i].entries)}
                       = peers[p].row[i].entries
                  /\ \A q \in DOMAIN peers : Live(peers[q], i) =>
                       Ids(peers[q].row[i].entries) \subseteq Ids(d.row[i].entries)
      BY <3>1, <3>3, <3>4
    <3> QED  BY <3>1, <3>2, <3>4 DEF AsMerged
  <2> QED  BY <2>1, <2>2, <2>3 DEF Edited
<1> QED  BY <1>1, <1>2 DEF AsMerged

-----------------------------------------------------------------------------
(* The steps of the fleet *)

\* The document the devices start from.
LEMMA SharedDocument ==
    /\ Sane(Shared) /\ Sound(Shared, TicksPerSecond)
    /\ \A i \in Item : /\ Live(Shared, i) <=> i \notin Late
                       /\ Live(Shared, i) => Shared.row[i].entries = {}
<1> DEFINE r(i) == [stamp |-> TicksPerSecond, edit |-> TicksPerSecond,
                    refs |-> IF i \in Task THEN Tag \ Late ELSE {}, entries |-> {}]
           put(i) == [item |-> i, at |-> TicksPerSecond, kind |-> "put", entry |-> 0]
           S == Shared
<1>1. TicksPerSecond \in Tick /\ TicksPerSecond \in Nat /\ TicksPerSecond # 0
  BY FleetAssumption DEF Tick
<1>2. \A i \in Item : /\ r(i) \in Row /\ r(i) # Absent
                      /\ r(i).stamp = TicksPerSecond /\ r(i).edit = TicksPerSecond
                      /\ r(i).refs = IF i \in Task THEN Tag \ Late ELSE {}
                      /\ r(i).entries = {}
  BY <1>1, RowAssumption DEF Row
<1>3. \A i \in Item : /\ put(i) \in Edit /\ put(i).item = i /\ put(i).at = TicksPerSecond
                      /\ put(i).kind = "put"
  BY <1>1 DEF Edit
<1>4. /\ S = [row   |-> [i \in Item |-> IF i \in Late THEN Absent ELSE r(i)],
              tomb  |-> [i \in Item |-> 0],
              edits |-> {put(i) : i \in Item \ Late}]
  BY DEF Shared
<1> HIDE DEF r, put, S
<1>5. /\ S.edits = {put(i) : i \in Item \ Late}
      /\ \A i \in Item : S.tomb[i] = 0 /\ S.row[i] = IF i \in Late THEN Absent ELSE r(i)
  BY <1>4
<1>6. S \in Document
  <2>1. [i \in Item |-> IF i \in Late THEN Absent ELSE r(i)] \in [Item -> Row \cup {Absent}]
    BY <1>2
  <2>2. {put(i) : i \in Item \ Late} \in SUBSET Edit
    BY <1>3
  <2> QED  BY <1>4, <2>1, <2>2 DEF Document
<1>7. \A i \in Item : /\ Live(S, i) <=> i \notin Late
                      /\ Live(S, i) => S.row[i] = r(i)
  BY <1>2, <1>5 DEF Live
<1>8. ASSUME NEW e \in S.edits
      PROVE  e.item \in Item \ Late /\ e.at = TicksPerSecond /\ e.kind = "put"
  BY <1>3, <1>5
<1>9. \A i \in Item : /\ Deletions(S, i) = {}
                      /\ \A e \in Puts(S, i) : e.at = TicksPerSecond /\ i \notin Late
                      /\ i \notin Late => put(i) \in Puts(S, i)
  BY <1>3, <1>5, <1>8 DEF Puts, Deletions
<1>10. LateStamps(S)
  BY <1>1, <1>2, <1>5, <1>7 DEF LateStamps
<1>11. Undeleted(S)
  BY <1>7, <1>9 DEF Undeleted
<1>12. KeepsAdditions(S)
  BY <1>8 DEF KeepsAdditions
<1>13. RefsHang(S)
  <2> SUFFICES ASSUME NEW i \in Item, Live(S, i)
               PROVE  (\A g \in S.row[i].refs : Live(S, g)) /\ (i \in Tag => S.row[i].refs = {})
    BY DEF RefsHang
  <2> QED  BY <1>2, <1>7, FleetAssumption DEF Item
<1>14. Sound(S, TicksPerSecond)
  <2>1. \A e \in S.edits : e.at <= TicksPerSecond
    BY <1>1, <1>8
  <2>2. ASSUME NEW i \in Item, Live(S, i)
        PROVE  /\ S.row[i].stamp = S.row[i].edit /\ S.tomb[i] < S.row[i].stamp
               /\ \E e \in Puts(S, i) : e.at = S.row[i].stamp
               /\ \A e \in Puts(S, i) : e.at <= S.row[i].stamp
    BY <1>1, <1>2, <1>3, <1>5, <1>7, <1>9, <2>2
  <2>3. ASSUME NEW i \in Item
        PROVE  /\ ~Live(S, i) => \A e \in Puts(S, i) : e.at <= S.tomb[i]
               /\ S.tomb[i] = 0 /\ \A e \in Deletions(S, i) : e.at <= S.tomb[i]
    BY <1>5, <1>7, <1>9
  <2> QED  BY <2>1, <2>2, <2>3 DEF Sound
<1> QED  BY <1>2, <1>6, <1>7, <1>10, <1>11, <1>12, <1>13, <1>14 DEF Sane, S

\* The fleet starts in the invariants.
LEMMA FleetStarts == Init => FleetSane /\ FleetSound /\ FleetMerged
<1> SUFFICES ASSUME Init PROVE FleetSane /\ FleetSound /\ FleetMerged
  OBVIOUS
<1>1. Sane(Shared) /\ Shared \in Document /\ Sound(Shared, TicksPerSecond)
  BY SharedDocument DEF Sane
<1>2. /\ \A d \in Device : doc[d] = Shared
      /\ \A d \in Device : view[d] = [p \in Peers(d) |-> Shared] /\ seen[d] = view[d]
      /\ doc = [d \in Device |-> Shared]
      /\ view = [d \in Device |-> [p \in Peers(d) |-> Shared]] /\ seen = view
  BY DEF Init
<1>3. FleetSane
  <2>1. clock \in Tick /\ clock >= TicksPerSecond /\ restarts \in 0..MaxRestarts
    BY FleetAssumption DEF Init, Tick
  <2>2. \A d \in Device : view[d] \in Replicas(d) /\ seen[d] \in Replicas(d)
    BY <1>1, <1>2 DEF Replicas
  <2>3. view = [d \in Device |-> view[d]] /\ seen = [d \in Device |-> seen[d]]
    BY <1>2
  <2> QED  BY <1>1, <1>2, <2>1, <2>2, <2>3 DEF FleetSane
<1>4. FleetSound
  BY <1>1, <1>2 DEF FleetSound, Init
<1>5. ASSUME NEW d \in Device PROVE AsMerged(doc[d], seen[d])
  <2>1. doc[d] = Shared /\ DOMAIN seen[d] = Peers(d) /\ \A p \in Peers(d) : seen[d][p] = Shared
    BY <1>2
  <2>2. CASE Peers(d) = {}
    BY <2>1, <2>2 DEF AsMerged
  <2>3. CASE Peers(d) # {}
    <3> DEFINE p == Min(Peers(d))
    <3>1. Peers(d) \in SUBSET Nat
      BY PeersAreFew
    <3>2. p \in Peers(d) /\ \A q \in Peers(d) : p <= q
      BY <2>3, <3>1, MinOfNumbers
    <3> HIDE DEF p
    <3>3. \A q \in Peers(d) : q \in Nat /\ p \in Nat /\ ~(q < p)
      BY <3>1, <3>2
    <3>4. ASSUME NEW i \in Item, Live(doc[d], i)
          PROVE  /\ First(seen[d], i, p)
                 /\ doc[d].row[i].refs = {g \in seen[d][p].row[i].refs : Live(doc[d], g)}
                 /\ {e \in doc[d].row[i].entries : e.id \in Ids(seen[d][p].row[i].entries)}
                      = seen[d][p].row[i].entries
                 /\ \A q \in Peers(d) : Live(seen[d][q], i) =>
                      Ids(seen[d][q].row[i].entries) \subseteq Ids(doc[d].row[i].entries)
      <4>1. Shared.row[i].stamp \in Nat
        BY <1>1, <2>1, <3>4, RowsOfDocuments
      <4>2. First(seen[d], i, p)
        BY <2>1, <3>2, <3>3, <3>4, <4>1 DEF First
      <4>3. \A g \in Shared.row[i].refs : Live(Shared, g)
        BY <1>1, <2>1, <3>4 DEF Sane, RefsHang
      <4>4. Shared.row[i].entries = {}
        BY <2>1, <3>4, SharedDocument
      <4> QED  BY <2>1, <3>2, <4>2, <4>3, <4>4
    <3>5. \A q \in Peers(d) : seen[d][q].edits \subseteq doc[d].edits
      BY <2>1
    <3> QED  BY <2>1, <3>2, <3>4, <3>5 DEF AsMerged
  <2> QED  BY <2>2, <2>3
<1> QED  BY <1>3, <1>4, <1>5 DEF FleetMerged

\* A reload and a restart merge the peers and a document of our own, and remember the peers.
LEMMA Synchronising ==
    ASSUME FleetSane, NEW d \in Device, Reload(d) \/ Restart(d)
    PROVE  \E own \in {doc[d], Replica(doc[d])} :
             \E docs \in Seq(Document) :
               /\ Assembled(docs, view[d], own)
               /\ \A n \in DOMAIN docs : docs[n] = own \/ \E p \in Peers(d) : docs[n] = view[d][p]
               /\ doc' = [doc EXCEPT ![d] = Merge(docs)]
               /\ seen' = [seen EXCEPT ![d] = view[d]]
               /\ UNCHANGED <<view, clock>> /\ restarts' \in 0..MaxRestarts
<1>1. Sane(doc[d]) /\ doc[d] \in Document /\ view[d] \in [Peers(d) -> Document]
      /\ restarts \in 0..MaxRestarts
  BY DEF FleetSane, Replicas, Sane
<1>2. Sane(Replica(doc[d])) /\ Replica(doc[d]) \in Document
  BY <1>1, ReplicaSane DEF Sane
<1>3. CASE Reload(d)
  <2> DEFINE docs == Append(InNameOrder(view[d]), doc[d])
  <2>1. /\ doc' = [doc EXCEPT ![d] = Merge(docs)] /\ seen' = [seen EXCEPT ![d] = view[d]]
        /\ UNCHANGED <<view, clock, restarts>>
    BY <1>3 DEF Reload
  <2>2. Assembled(docs, view[d], doc[d])
    BY DEF Assembled
  <2> HIDE DEF docs
  <2>3. /\ docs \in Seq(Document)
        /\ \A n \in DOMAIN docs : docs[n] = doc[d] \/ \E p \in Peers(d) : docs[n] = view[d][p]
    BY <1>1, <2>2, AssembledDocuments
  <2> QED  BY <1>1, <2>1, <2>2, <2>3
<1>4. CASE Restart(d)
  <2> DEFINE own == Replica(doc[d])
             ps == InNameOrder(view[d])
             docs == IF HasData(own) \/ ps = <<>> THEN Append(ps, own) ELSE ps
  <2>1. /\ doc' = [doc EXCEPT ![d] = Merge(docs)] /\ seen' = [seen EXCEPT ![d] = view[d]]
        /\ UNCHANGED <<view, clock>> /\ restarts < MaxRestarts /\ restarts' = restarts + 1
    BY <1>4 DEF Restart
  <2>2. Assembled(docs, view[d], own)
    BY DEF Assembled
  <2> HIDE DEF docs, ps, own
  <2>3. own \in Document
    BY <1>2 DEF own
  <2>4. /\ docs \in Seq(Document)
        /\ \A n \in DOMAIN docs : docs[n] = own \/ \E p \in Peers(d) : docs[n] = view[d][p]
    BY <1>1, <2>2, <2>3, AssembledDocuments
  <2>5. restarts' \in 0..MaxRestarts
    BY <1>1, <2>1, FleetAssumption
  <2> QED  BY <2>1, <2>2, <2>4, <2>5 DEF own
<1> QED  BY <1>3, <1>4

\* Every step keeps the documents, the replicas and the clock well-formed.
LEMMA NextSane == FleetSane /\ [Next]_vars => FleetSane'
<1> SUFFICES ASSUME FleetSane, [Next]_vars PROVE FleetSane'
  OBVIOUS
<1>1. /\ clock \in Tick /\ clock >= TicksPerSecond /\ clock \in Nat
      /\ restarts \in 0..MaxRestarts
      /\ doc \in [Device -> Document] /\ \A d \in Device : Sane(doc[d])
      /\ view = [d \in Device |-> view[d]] /\ \A d \in Device : view[d] \in Replicas(d)
      /\ seen = [d \in Device |-> seen[d]] /\ \A d \in Device : seen[d] \in Replicas(d)
  BY DEF FleetSane, Tick
<1>2. ASSUME NEW d \in Device, Command(d) PROVE FleetSane'
  <2>1. /\ Edited(doc[d], doc'[d], clock') /\ \A e \in Device : e # d => doc'[e] = doc[e]
        /\ clock' = clock + 1 /\ clock' \in Tick /\ UNCHANGED <<view, seen, restarts>>
    BY <1>1, <1>2, CommandEdits
  <2>2. clock' \in Nat /\ clock' > TicksPerSecond /\ clock' >= TicksPerSecond
    BY <1>1, <2>1, FleetAssumption
  <2>3. Sane(doc'[d])
    BY <1>1, <2>1, <2>2, EditSane
  <2>4. \A e \in Device : Sane(doc'[e])
    BY <1>1, <2>1, <2>3
  <2>5. doc' = [e \in Device |-> doc'[e]]
    BY <1>1, <1>2 DEF Command, AddItem, EditItem, DeleteTask, StopTimer, DeleteEntry, AddEntry,
       DeleteTag, DiscardAfk, Write
  <2>6. doc' \in [Device -> Document]
    BY <2>4, <2>5 DEF Sane
  <2> QED  BY <1>1, <2>1, <2>2, <2>4, <2>6 DEF FleetSane, Replicas
<1>3. ASSUME NEW d \in Device, Reload(d) \/ Restart(d) PROVE FleetSane'
  <2>1. PICK own \in {doc[d], Replica(doc[d])} : \E docs \in Seq(Document) :
               /\ Assembled(docs, view[d], own)
               /\ \A n \in DOMAIN docs : docs[n] = own \/ \E p \in Peers(d) : docs[n] = view[d][p]
               /\ doc' = [doc EXCEPT ![d] = Merge(docs)]
               /\ seen' = [seen EXCEPT ![d] = view[d]]
               /\ UNCHANGED <<view, clock>> /\ restarts' \in 0..MaxRestarts
    BY <1>3, Synchronising
  <2>2. PICK docs \in Seq(Document) :
               /\ Assembled(docs, view[d], own)
               /\ \A n \in DOMAIN docs : docs[n] = own \/ \E p \in Peers(d) : docs[n] = view[d][p]
               /\ doc' = [doc EXCEPT ![d] = Merge(docs)]
               /\ seen' = [seen EXCEPT ![d] = view[d]]
               /\ UNCHANGED <<view, clock>> /\ restarts' \in 0..MaxRestarts
    BY <2>1
  <2>3. Sane(own)
    BY <1>1, ReplicaSane
  <2>4. \A p \in Peers(d) : Sane(view[d][p])
    BY <1>1 DEF Replicas
  <2>5. Sane(Merge(docs))
    BY <2>2, <2>3, <2>4, MergeSane
  <2>6. doc' \in [Device -> Document] /\ \A e \in Device : Sane(doc'[e])
    BY <1>1, <2>2, <2>5 DEF Sane
  <2>7. seen' = [e \in Device |-> seen'[e]] /\ \A e \in Device : seen'[e] \in Replicas(e)
    BY <1>1, <2>2
  <2> QED  BY <1>1, <2>2, <2>6, <2>7 DEF FleetSane, Replicas
<1>4. ASSUME NEW d \in Device, NEW p \in Peers(d), Deliver(d, p) PROVE FleetSane'
  <2>1. /\ view' = [view EXCEPT ![d] = [view[d] EXCEPT ![p] = Replica(doc[p])]]
        /\ UNCHANGED <<doc, seen, clock, restarts>>
    BY <1>4 DEF Deliver
  <2>2. p \in Device
    BY PeersAreFew
  <2>3. Sane(Replica(doc[p])) /\ Replica(doc[p]) \in Document
    BY <1>1, <2>2, ReplicaSane DEF Sane
  <2>4. [view[d] EXCEPT ![p] = Replica(doc[p])] \in Replicas(d)
    BY <1>1, <2>3 DEF Replicas
  <2>5. view' = [e \in Device |-> view'[e]] /\ \A e \in Device : view'[e] \in Replicas(e)
    BY <1>1, <2>1, <2>4
  <2> QED  BY <1>1, <2>1, <2>5 DEF FleetSane, Replicas
<1>5. CASE UNCHANGED vars
  BY <1>1, <1>5 DEF vars, FleetSane, Replicas
<1> QED  BY <1>2, <1>3, <1>4, <1>5 DEF Next

\* The next two hold where the disk cuts no stamps.
LEMMA NextSound ==
    TicksPerSecond = 1 /\ FleetSane /\ FleetSound /\ [Next]_vars => FleetSound'
<1> SUFFICES ASSUME TicksPerSecond = 1, FleetSane, FleetSound, [Next]_vars PROVE FleetSound'
  OBVIOUS
<1>1. /\ clock \in Tick /\ clock \in Nat
      /\ doc \in [Device -> Document] /\ \A d \in Device : Sane(doc[d])
      /\ view = [d \in Device |-> view[d]] /\ \A d \in Device : view[d] \in Replicas(d)
      /\ seen = [d \in Device |-> seen[d]]
  BY DEF FleetSane, Tick
<1>2. \A d \in Device : /\ Sound(doc[d], clock) /\ Replica(doc[d]) = doc[d]
                        /\ \A p \in Peers(d) : /\ Sound(view[d][p], clock)
                                               /\ Sound(seen[d][p], clock)
                                               /\ view[d][p] \in Document
                                               /\ seen[d][p] \in Document
  BY <1>1, ReplicaIsDocument DEF FleetSound, FleetSane, Replicas
<1>3. ASSUME NEW d \in Device, Command(d) PROVE FleetSound'
  <2>1. /\ Edited(doc[d], doc'[d], clock') /\ \A e \in Device : e # d => doc'[e] = doc[e]
        /\ clock' = clock + 1 /\ UNCHANGED <<view, seen, restarts>>
    BY <1>1, <1>3, CommandEdits
  <2>2. Sound(doc'[d], clock')
    BY <1>1, <1>2, <2>1, EditSound
  <2>3. ASSUME NEW r \in Document, Sound(r, clock) PROVE Sound(r, clock')
    <3>1. \A e \in r.edits : e.at \in Nat
      BY FleetAssumption DEF Document, Edit, Tick
    <3>2. \A e \in r.edits : e.at <= clock'
      BY <1>1, <2>1, <2>3, <3>1 DEF Sound
    <3> QED  BY <2>3, <3>2 DEF Sound
  <2>4. \A e \in Device : Sound(doc'[e], clock')
    BY <1>1, <1>2, <2>1, <2>2, <2>3
  <2>5. \A e \in Device : \A p \in Peers(e) :
          Sound(view'[e][p], clock') /\ Sound(seen'[e][p], clock')
    BY <1>2, <2>1, <2>3
  <2> QED  BY <2>4, <2>5 DEF FleetSound, Peers
<1>4. ASSUME NEW d \in Device, Reload(d) \/ Restart(d) PROVE FleetSound'
  <2>1. PICK own \in {doc[d], Replica(doc[d])} : \E docs \in Seq(Document) :
               /\ Assembled(docs, view[d], own)
               /\ \A n \in DOMAIN docs : docs[n] = own \/ \E p \in Peers(d) : docs[n] = view[d][p]
               /\ doc' = [doc EXCEPT ![d] = Merge(docs)]
               /\ seen' = [seen EXCEPT ![d] = view[d]]
               /\ UNCHANGED <<view, clock>> /\ restarts' \in 0..MaxRestarts
    BY <1>4, Synchronising
  <2>2. PICK docs \in Seq(Document) :
               /\ \A n \in DOMAIN docs : docs[n] = own \/ \E p \in Peers(d) : docs[n] = view[d][p]
               /\ doc' = [doc EXCEPT ![d] = Merge(docs)]
               /\ seen' = [seen EXCEPT ![d] = view[d]]
               /\ UNCHANGED <<view, clock>>
    BY <2>1
  <2>3. \A n \in DOMAIN docs : Sound(docs[n], clock)
    BY <1>2, <2>2
  <2>4. Sound(Merge(docs), clock)
    BY <1>1, <2>3, MergeSound
  <2>5. \A e \in Device : Sound(doc'[e], clock)
    BY <1>1, <1>2, <2>2, <2>4
  <2>6. \A e \in Device : \A p \in Peers(e) : Sound(view'[e][p], clock) /\ Sound(seen'[e][p], clock)
    BY <1>1, <1>2, <2>2
  <2> QED  BY <2>2, <2>5, <2>6 DEF FleetSound, Peers
<1>5. ASSUME NEW d \in Device, NEW p \in Peers(d), Deliver(d, p) PROVE FleetSound'
  <2>1. /\ view' = [view EXCEPT ![d] = [view[d] EXCEPT ![p] = Replica(doc[p])]]
        /\ UNCHANGED <<doc, seen, clock, restarts>>
    BY <1>5 DEF Deliver
  <2>2. p \in Device /\ DOMAIN view[d] = Peers(d)
    BY <1>1, PeersAreFew DEF Replicas
  <2>3. ASSUME NEW e \in Device, NEW q \in Peers(e) PROVE Sound(view'[e][q], clock)
    BY <1>1, <1>2, <2>1, <2>2
  <2> QED  BY <1>2, <2>1, <2>3 DEF FleetSound, Peers
<1>6. CASE UNCHANGED vars
  BY <1>6 DEF vars, FleetSound, Peers
<1> QED  BY <1>3, <1>4, <1>5, <1>6 DEF Next

\* Every step keeps what a device shows a merge of the replicas it has seen.
LEMMA NextMerged ==
    TicksPerSecond = 1 /\ FleetSane /\ FleetSound /\ FleetMerged /\ [Next]_vars => FleetMerged'
<1> SUFFICES ASSUME TicksPerSecond = 1, FleetSane, FleetSound, FleetMerged, [Next]_vars
             PROVE  FleetMerged'
  OBVIOUS
<1>1. /\ clock \in Tick /\ clock \in Nat
      /\ doc \in [Device -> Document] /\ \A d \in Device : Sane(doc[d])
      /\ \A d \in Device : view[d] \in [Peers(d) -> Document]
      /\ seen = [d \in Device |-> seen[d]] /\ \A d \in Device : seen[d] \in Replicas(d)
  BY DEF FleetSane, Tick, Replicas
<1>2. ASSUME NEW d \in Device, Command(d) PROVE FleetMerged'
  <2>1. /\ Edited(doc[d], doc'[d], clock') /\ \A e \in Device : e # d => doc'[e] = doc[e]
        /\ clock' = clock + 1 /\ UNCHANGED <<view, seen, restarts>>
    BY <1>1, <1>2, CommandEdits
  <2>2. \A p \in DOMAIN seen[d] : Sane(seen[d][p]) /\ Sound(seen[d][p], clock)
    BY <1>1 DEF Replicas, FleetSound
  <2>3. doc[d] \in Document /\ RefsHang(doc[d]) /\ AsMerged(doc[d], seen[d])
    BY <1>1 DEF Sane, FleetMerged
  <2>4. AsMerged(doc'[d], seen[d])
    BY <1>1, <2>1, <2>2, <2>3, EditKeepsAsMerged
  <2> QED  BY <2>1, <2>4 DEF FleetMerged
<1>3. ASSUME NEW d \in Device, Reload(d) \/ Restart(d) PROVE FleetMerged'
  <2>1. PICK own \in {doc[d], Replica(doc[d])} : \E docs \in Seq(Document) :
               /\ Assembled(docs, view[d], own)
               /\ doc' = [doc EXCEPT ![d] = Merge(docs)]
               /\ seen' = [seen EXCEPT ![d] = view[d]]
    BY <1>3, Synchronising
  <2>2. PICK docs \in Seq(Document) :
               /\ Assembled(docs, view[d], own)
               /\ doc' = [doc EXCEPT ![d] = Merge(docs)]
               /\ seen' = [seen EXCEPT ![d] = view[d]]
    BY <2>1
  <2>3. own \in Document
    BY <1>1, ReplicaSane DEF Sane
  <2>4. AsMerged(Merge(docs), view[d])
    BY <1>1, <2>2, <2>3, MergeIsAsMerged
  <2>5. \A e \in Device : AsMerged(doc'[e], seen'[e])
    <3>1. doc'[d] = Merge(docs) /\ seen'[d] = view[d]
          /\ \A e \in Device : e # d => doc'[e] = doc[e] /\ seen'[e] = seen[e]
      BY <1>1, <2>2
    <3> QED  BY <2>4, <3>1 DEF FleetMerged
  <2> QED  BY <2>5 DEF FleetMerged
<1>4. CASE UNCHANGED <<doc, seen>>
  BY <1>4 DEF FleetMerged
<1>5. \A d \in Device : \A p \in Peers(d) : Deliver(d, p) => UNCHANGED <<doc, seen>>
  BY DEF Deliver
<1>6. UNCHANGED vars => UNCHANGED <<doc, seen>>
  BY DEF vars
<1> QED  BY <1>2, <1>3, <1>4, <1>5, <1>6 DEF Next

-----------------------------------------------------------------------------
(* Theorems *)

\* Every device's document, and every replica in a folder or remembered, is of its type, for
\* any number of devices, ticks in a second and edits (model.rs, Document).
THEOREM FleetTypes == Spec => []TypeOK
<1>1. FleetSane => TypeOK
  BY DEF FleetSane, TypeOK, Replicas
<1> QED  BY <1>1, FleetStarts, NextSane, PTL DEF Spec

\* No device ever shows a task with a tag that it does not show, whatever ticks in a second
\* (model.rs, merge_documents; commands.rs, delete_tag).
THEOREM TagsHang == Spec => []TagsDoNotDangle
<1>1. FleetSane => TagsDoNotDangle
  BY DEF FleetSane, Sane, RefsHang, TagsDoNotDangle, Item
<1> QED  BY <1>1, FleetStarts, NextSane, PTL DEF Spec

\* Time added to a task on any device that went into a document is in it, unless the task
\* was ever deleted there or a user removed the entry, whatever ticks in a second
\* (model.rs, merge_time_entries).
THEOREM AdditionsAreKept == Spec => []AdditionsSurvive
<1>1. FleetSane => AdditionsSurvive
  BY DEF FleetSane, Sane, KeepsAdditions, KeptOrRemoved, AdditionsSurvive
<1> QED  BY <1>1, FleetStarts, NextSane, PTL DEF Spec

\* With edits in different seconds every document is the last-writer-wins evaluation of the
\* edits that went into it (model.rs, merge_documents).
THEOREM LastWriter == TicksPerSecond = 1 => (Spec => []LastWriterWins)
<1> SUFFICES ASSUME TicksPerSecond = 1 PROVE Spec => []LastWriterWins
  OBVIOUS
<1>1. ASSUME FleetSane, FleetSound PROVE LastWriterWins
  <2> SUFFICES ASSUME NEW d \in Device, NEW i \in Item
               PROVE  LET newest == Max({e.at : e \in Puts(doc[d], i)} \cup {0})
                          gone   == Max({e.at : e \in Deletions(doc[d], i)} \cup {0})
                      IN  IF newest > gone THEN Live(doc[d], i) /\ doc[d].row[i].edit = newest
                                           ELSE ~Live(doc[d], i)
    BY DEF LastWriterWins
  <2> DEFINE D == doc[d]
             P == {e.at : e \in Puts(D, i)} \cup {0}
             G == {e.at : e \in Deletions(D, i)} \cup {0}
  <2>1. D \in Document /\ Sound(D, clock)
    BY <1>1 DEF FleetSane, FleetSound
  <2> HIDE DEF D
  <2>2. D.tomb[i] \in Nat /\ (Live(D, i) => D.row[i].stamp \in Nat)
    BY <2>1, RowsOfDocuments
  <2>3. \A e \in D.edits : e.at \in Nat
    BY <2>1, FleetAssumption DEF Document, Edit, Tick
  <2>4. P \in SUBSET Nat /\ G \in SUBSET Nat
    BY <2>3 DEF Puts, Deletions
  <2>5. D.tomb[i] \in G /\ \A y \in G : y <= D.tomb[i]
    BY <2>1, <2>2 DEF Sound
  <2>6. Max(G) = D.tomb[i]
    BY <2>4, <2>5, MaxIs
  <2>7. CASE Live(D, i)
    <3>1. D.row[i].stamp \in P /\ \A y \in P : y <= D.row[i].stamp
      BY <2>1, <2>2, <2>7 DEF Sound
    <3>2. Max(P) = D.row[i].stamp
      BY <2>4, <3>1, MaxIs
    <3>3. D.tomb[i] < D.row[i].stamp /\ D.row[i].edit = D.row[i].stamp
      BY <2>1, <2>7 DEF Sound
    <3>4. Max(P) > Max(G)
      BY <2>2, <2>6, <2>7, <3>2, <3>3
    <3> QED  BY <2>7, <3>2, <3>3, <3>4 DEF D
  <2>8. CASE ~Live(D, i)
    <3>1. \A y \in P : y <= D.tomb[i]
      BY <2>1, <2>2, <2>8 DEF Sound
    <3>2. Max(P) \in P
      <4>1. P # {}
        OBVIOUS
      <4> QED  BY <2>2, <2>4, <3>1, <4>1, MaxOfNumbers
    <3>4. Max(P) \in Nat /\ Max(P) <= D.tomb[i]
      BY <2>4, <3>1, <3>2
    <3>3. ~(Max(P) > Max(G))
      <4> HIDE DEF P, G
      <4> QED  BY <2>2, <2>6, <3>4
    <3> QED  BY <2>8, <3>3 DEF D
  <2> QED  BY <2>7, <2>8
<1>2. Init => FleetSane /\ FleetSound
  BY FleetStarts
<1>3. FleetSane /\ FleetSound /\ [Next]_vars => (FleetSane /\ FleetSound)'
  BY NextSane, NextSound
<1> QED  BY <1>1, <1>2, <1>3, PTL DEF Spec

\* With edits in different seconds a fleet whose replicas are all delivered and merged shows
\* one document (model.rs, merge_documents; store.rs, reload_replicas_if_changed).
THEOREM FleetAgrees == TicksPerSecond = 1 => (Spec => []SettledFleetAgrees)
<1> SUFFICES ASSUME TicksPerSecond = 1 PROVE Spec => []SettledFleetAgrees
  OBVIOUS
<1> DEFINE Inv == FleetSane /\ FleetSound /\ FleetMerged
<1>1. ASSUME Inv PROVE SettledFleetAgrees
  <2> SUFFICES ASSUME Settled, NEW d \in Device, NEW e \in Device
               PROVE  Visible(doc[d]) = Visible(doc[e])
    BY DEF SettledFleetAgrees
  <2>1. \A x \in Device : /\ Sane(doc[x]) /\ doc[x] \in Document /\ Sound(doc[x], clock)
                          /\ AsMerged(doc[x], seen[x])
    BY <1>1 DEF FleetSane, FleetSound, FleetMerged, Sane
  <2>2. \A x \in Device : /\ DOMAIN seen[x] = Peers(x)
                          /\ \A p \in Peers(x) : p \in Device /\ seen[x][p] = doc[p]
    BY <1>1, <2>1, ReplicaIsDocument, PeersAreFew DEF Settled, FleetSane, Replicas
  <2>3. \A x, y \in Device : doc[x].edits = doc[y].edits
    <3>1. ASSUME NEW x \in Device, NEW y \in Device PROVE doc[y].edits \subseteq doc[x].edits
      <4>1. CASE y = x
        BY <4>1
      <4>2. CASE y # x
        <5>1. y \in Peers(x)
          BY <4>2 DEF Peers
        <5>2. y \in DOMAIN seen[x] /\ seen[x][y] = doc[y]
          BY <2>2, <5>1
        <5> QED  BY <2>1, <5>2 DEF AsMerged
      <4> QED  BY <4>1, <4>2
    <3> QED  BY <3>1
  <2>4. ASSUME NEW x \in Device, NEW y \in Device, NEW i \in Item, Live(doc[x], i)
        PROVE  /\ Live(doc[y], i) /\ doc[y].row[i].edit = doc[x].row[i].edit
               /\ doc[y].row[i].stamp = doc[x].row[i].stamp
    <3> DEFINE X == doc[x]
               Y == doc[y]
    <3>1. X \in Document /\ Y \in Document /\ Sound(X, clock) /\ Sound(Y, clock)
          /\ X.edits = Y.edits
      BY <2>1, <2>3
    <3> HIDE DEF X, Y
    <3>2. Live(X, i) /\ Puts(X, i) = Puts(Y, i) /\ Deletions(X, i) = Deletions(Y, i)
      BY <2>4, <3>1 DEF Puts, Deletions, X
    <3>3. X.row[i].stamp \in Nat /\ X.tomb[i] \in Nat /\ Y.tomb[i] \in Nat
          /\ (Live(Y, i) => Y.row[i].stamp \in Nat)
      BY <3>1, <3>2, RowsOfDocuments
    <3>4. PICK put \in Puts(X, i) : put.at = X.row[i].stamp
      BY <3>1, <3>2 DEF Sound
    <3>5. Y.tomb[i] <= X.tomb[i] /\ X.tomb[i] < X.row[i].stamp
      BY <3>1, <3>2, <3>3 DEF Sound
    <3>6. Live(Y, i)
      <4>1. SUFFICES ASSUME ~Live(Y, i) PROVE FALSE
        OBVIOUS
      <4>2. put.at <= Y.tomb[i]
        BY <3>1, <3>2, <4>1 DEF Sound
      <4> QED  BY <3>3, <3>4, <3>5, <4>2
    <3>7. PICK other \in Puts(Y, i) : other.at = Y.row[i].stamp
      BY <3>1, <3>6 DEF Sound
    <3>8. other.at <= X.row[i].stamp /\ put.at <= Y.row[i].stamp
      BY <3>1, <3>2, <3>6 DEF Sound
    <3>9. Y.row[i].stamp = X.row[i].stamp
      BY <3>3, <3>4, <3>6, <3>7, <3>8
    <3>10. X.row[i].edit = X.row[i].stamp /\ Y.row[i].edit = Y.row[i].stamp
      BY <3>1, <3>2, <3>6 DEF Sound
    <3> QED  BY <3>6, <3>9, <3>10 DEF X, Y
  <2> DEFINE a == Min(Device)
  <2>5. a \in Device /\ \A x \in Device : a <= x /\ x \in Nat
    <3>1. Device \in SUBSET Nat /\ Device # {}
      BY FleetAssumption
    <3> QED  BY <3>1, MinOfNumbers
  <2> HIDE DEF a
  <2>6. ASSUME NEW x \in Device, NEW i \in Item, Live(doc[x], i), Peers(x) # {}
        PROVE  \E p \in Peers(x) :
                 /\ First(seen[x], i, p)
                 /\ doc[x].row[i].refs = {g \in doc[p].row[i].refs : Live(doc[x], g)}
                 /\ {u \in doc[x].row[i].entries : u.id \in Ids(doc[p].row[i].entries)}
                      = doc[p].row[i].entries
                 /\ \A q \in Peers(x) :
                      Ids(doc[q].row[i].entries) \subseteq Ids(doc[x].row[i].entries)
    <3>1. PICK q \in Peers(x) : TRUE
      BY <2>6
    <3>2. Live(seen[x][q], i) /\ seen[x][q].row[i].stamp = doc[x].row[i].stamp
      BY <2>2, <2>4, <2>6
    <3>3. doc[x].row[i].stamp \in Nat
      BY <2>1, <2>6, RowsOfDocuments
    <3>4. ~(seen[x][q].row[i].stamp < doc[x].row[i].stamp)
      BY <3>2, <3>3
    <3>5. \A p \in Peers(x) : Live(seen[x][p], i) /\ seen[x][p] = doc[p]
      BY <2>2, <2>4, <2>6
    <3>6. \/ \A p \in Peers(x) :
               Live(seen[x][p], i) => seen[x][p].row[i].stamp < doc[x].row[i].stamp
          \/ \E p \in Peers(x) :
               /\ First(seen[x], i, p)
               /\ doc[x].row[i].refs = {g \in seen[x][p].row[i].refs : Live(doc[x], g)}
               /\ {u \in doc[x].row[i].entries : u.id \in Ids(seen[x][p].row[i].entries)}
                    = seen[x][p].row[i].entries
               /\ \A r \in Peers(x) : Live(seen[x][r], i) =>
                    Ids(seen[x][r].row[i].entries) \subseteq Ids(doc[x].row[i].entries)
      <4>1. AsMerged(doc[x], seen[x]) /\ DOMAIN seen[x] = Peers(x)
        BY <2>1, <2>2
      <4> QED  BY <2>6, <4>1 DEF AsMerged
    <3>7. PICK p \in Peers(x) :
               /\ First(seen[x], i, p)
               /\ doc[x].row[i].refs = {g \in seen[x][p].row[i].refs : Live(doc[x], g)}
               /\ {u \in doc[x].row[i].entries : u.id \in Ids(seen[x][p].row[i].entries)}
                    = seen[x][p].row[i].entries
               /\ \A r \in Peers(x) : Live(seen[x][r], i) =>
                    Ids(seen[x][r].row[i].entries) \subseteq Ids(doc[x].row[i].entries)
      BY <3>2, <3>4, <3>6
    <3>8. \A r \in Peers(x) : Ids(doc[r].row[i].entries) \subseteq Ids(doc[x].row[i].entries)
      BY <3>5, <3>7
    <3> QED  BY <3>5, <3>7, <3>8
  <2>7. ASSUME NEW x \in Device, x # a, NEW i \in Item, Live(doc[x], i)
        PROVE  /\ doc[x].row[i].refs = doc[a].row[i].refs
               /\ doc[x].row[i].entries = doc[a].row[i].entries
    <3>1. a \in Peers(x) /\ x \in Peers(a)
      BY <2>5, <2>7 DEF Peers
    <3>2. PICK p \in Peers(x) :
                 /\ First(seen[x], i, p)
                 /\ doc[x].row[i].refs = {g \in doc[p].row[i].refs : Live(doc[x], g)}
                 /\ {u \in doc[x].row[i].entries : u.id \in Ids(doc[p].row[i].entries)}
                      = doc[p].row[i].entries
                 /\ \A q \in Peers(x) :
                      Ids(doc[q].row[i].entries) \subseteq Ids(doc[x].row[i].entries)
      BY <2>6, <2>7, <3>1
    <3>3. p = a
      <4>4. p \in Device /\ Live(doc[p], i) /\ Live(doc[a], i) /\ seen[x][p] = doc[p]
            /\ seen[x][a] = doc[a]
        BY <2>2, <2>4, <2>5, <2>7, <3>1
      <4>5. doc[a].row[i].stamp \in Nat
        BY <2>1, <2>5, <4>4, RowsOfDocuments
      <4>6. doc[a].row[i].stamp = doc[p].row[i].stamp
        BY <2>4, <2>5, <4>4
      <4>1. p \in Device /\ Live(doc[p], i) /\ Live(doc[a], i)
            /\ seen[x][a].row[i].stamp = seen[x][p].row[i].stamp
            /\ seen[x][a].row[i].stamp \in Nat /\ Live(seen[x][a], i)
        BY <4>4, <4>5, <4>6
      <4>2. ~(seen[x][a].row[i].stamp < seen[x][p].row[i].stamp)
        BY <4>1
      <4>3. ~(a < p)
        BY <2>2, <3>1, <3>2, <4>1, <4>2 DEF First
      <4> QED  BY <2>5, <4>1, <4>3
    <3>4. Live(doc[a], i)
      BY <2>4, <2>5, <2>7
    <3>5. \A g \in doc[a].row[i].refs : g \in Item /\ Live(doc[x], g)
      <4>1. \A g \in doc[a].row[i].refs : g \in Item /\ Live(doc[a], g)
        BY <2>1, <2>5, <3>4, RowsOfDocuments DEF Sane, RefsHang, Item
      <4> QED  BY <2>4, <2>5, <4>1
    <3>6. Ids(doc[x].row[i].entries) \subseteq Ids(doc[a].row[i].entries)
      BY <2>5, <2>6, <3>1, <3>4
    <3>7. \A u \in doc[x].row[i].entries : u.id \in Ids(doc[a].row[i].entries)
      BY <3>6 DEF Ids
    <3> QED  BY <3>2, <3>3, <3>5, <3>7
  <2>8. ASSUME NEW i \in Item, Live(doc[d], i)
        PROVE  /\ Live(doc[e], i) /\ doc[d].row[i].edit = doc[e].row[i].edit
               /\ doc[d].row[i].refs = doc[e].row[i].refs
               /\ doc[d].row[i].entries = doc[e].row[i].entries
    BY <2>4, <2>7, <2>8
  <2>9. ASSUME NEW i \in Item, ~Live(doc[d], i) PROVE ~Live(doc[e], i)
    BY <2>4, <2>9
  <2> DEFINE shown(x) == [i \in Item |-> IF Live(doc[x], i)
                            THEN [edit |-> doc[x].row[i].edit, refs |-> doc[x].row[i].refs,
                                  entries |-> doc[x].row[i].entries]
                            ELSE Absent]
  <2>10. \A i \in Item : shown(d)[i] = shown(e)[i]
    BY <2>8, <2>9
  <2>11. shown(d) = shown(e)
    BY <2>10
  <2> QED  BY <2>11 DEF Visible
<1>2. Init => Inv
  BY FleetStarts
<1>3. Inv /\ [Next]_vars => Inv'
  BY NextSane, NextSound, NextMerged
<1> QED  BY <1>1, <1>2, <1>3, PTL DEF Spec

-----------------------------------------------------------------------------
(* The loop of merge_documents *)

\* What Merge says of the rows of i, before tombstones and references.
Taken(docs, i) ==
    IF Leads(docs, i) = {} THEN Absent
    ELSE [docs[Max(Leads(docs, i))].row[i] EXCEPT !.entries = AllEntries(docs, i)]

\* Taken is a row, with the leading row's stamp and everyone's entries.
LEMMA TakenRow ==
    ASSUME NEW docs \in Seq(Document), NEW i \in Item, Leads(docs, i) # {}
    PROVE  LET L == Max(Leads(docs, i))
           IN  /\ L \in Leads(docs, i) /\ L \in DOMAIN docs /\ Live(docs[L], i)
               /\ docs[L].row[i] \in Row
               /\ Taken(docs, i) = [docs[L].row[i] EXCEPT !.entries = AllEntries(docs, i)]
               /\ Taken(docs, i) \in Row /\ Taken(docs, i) # Absent
               /\ Taken(docs, i).stamp = docs[L].row[i].stamp
               /\ Taken(docs, i).stamp \in Nat
               /\ Taken(docs, i).entries = AllEntries(docs, i)
<1> DEFINE L == Max(Leads(docs, i))
<1>1. L \in Leads(docs, i) /\ L \in DOMAIN docs /\ Live(docs[L], i)
  BY NoLeader, Leader
<1>2. docs[L].row[i] \in Row /\ docs[L].row[i].stamp \in Nat
  BY <1>1, Positions, RowsOfDocuments
<1>3. AllEntries(docs, i) \in SUBSET Entry
  BY MergedEntries
<1>4. Taken(docs, i) = [docs[L].row[i] EXCEPT !.entries = AllEntries(docs, i)]
  BY DEF Taken
<1> HIDE DEF L
<1>5. Taken(docs, i) \in Row /\ Taken(docs, i).stamp = docs[L].row[i].stamp
      /\ Taken(docs, i).entries = AllEntries(docs, i)
  BY <1>2, <1>3, <1>4 DEF Row
<1>6. Taken(docs, i) # Absent
  BY <1>5, RowAssumption
<1> QED  BY <1>1, <1>2, <1>4, <1>5, <1>6 DEF L

HasCopy(docs, i, id) ==
    {n \in DOMAIN docs : Live(docs[n], i) /\ id \in Ids(docs[n].row[i].entries)}

\* One more document at the end leads if its row is newer than the leading one.
LEMMA OneMoreLeads ==
    ASSUME NEW docs \in Seq(Document), NEW x \in Document, NEW i \in Item
    PROVE  LET all == Append(docs, x)
               N   == Len(docs)
           IN  /\ all \in Seq(Document) /\ N \in Nat
               /\ DOMAIN docs = 1..N /\ DOMAIN all = 1..(N + 1)
               /\ all[N + 1] = x /\ \A n \in 1..N : all[n] = docs[n]
               /\ \A n \in Leads(all, i) : n \in Leads(docs, i) \/ n = N + 1
               /\ Leads(docs, i) \subseteq Leads(all, i) /\ N + 1 \notin Leads(docs, i)
               /\ N + 1 \in Leads(all, i) <=>
                    /\ Live(x, i)
                    /\ Leads(docs, i) # {} => Taken(docs, i).stamp < x.row[i].stamp
<1> DEFINE all == Append(docs, x)
           N == Len(docs)
<1>1. /\ all \in Seq(Document) /\ N \in Nat
      /\ DOMAIN docs = 1..N /\ DOMAIN all = 1..(N + 1)
      /\ all[N + 1] = x /\ \A n \in 1..N : all[n] = docs[n]
  OBVIOUS
<1> HIDE DEF all, N
<1>2. ASSUME NEW n \in 1..N PROVE n \in Leads(all, i) <=> n \in Leads(docs, i)
  <2>1. \A m \in 1..(n - 1) : m \in 1..N /\ all[m] = docs[m]
    BY <1>1
  <2> QED  BY <1>1, <2>1 DEF Leads
<1>3. Leads(docs, i) \subseteq 1..N /\ Leads(all, i) \subseteq 1..(N + 1)
  BY <1>1 DEF Leads
<1>4. /\ \A n \in Leads(all, i) : n \in Leads(docs, i) \/ n = N + 1
      /\ Leads(docs, i) \subseteq Leads(all, i) /\ N + 1 \notin Leads(docs, i)
  BY <1>1, <1>2, <1>3
<1>5. N + 1 \in Leads(all, i) <=>
        /\ Live(x, i)
        /\ \A m \in 1..N : Live(docs[m], i) => docs[m].row[i].stamp < x.row[i].stamp
  <2>1. 1..((N + 1) - 1) = 1..N /\ N + 1 \in 1..(N + 1)
    BY <1>1
  <2> QED  BY <1>1, <2>1 DEF Leads
<1>6. CASE Leads(docs, i) = {}
  <2>1. \A m \in 1..N : ~Live(docs[m], i)
    BY <1>1, <1>6, NoLeader
  <2> QED  BY <1>1, <1>4, <1>5, <1>6, <2>1 DEF all, N
<1>7. CASE Leads(docs, i) # {}
  <2> DEFINE L == Max(Leads(docs, i))
  <2>1. L \in 1..N /\ Live(docs[L], i) /\ Taken(docs, i).stamp = docs[L].row[i].stamp
    BY <1>1, <1>7, TakenRow
  <2>2. \A m \in 1..N : Live(docs[m], i) => /\ docs[m].row[i].stamp <= docs[L].row[i].stamp
                                            /\ docs[m].row[i].stamp \in Nat
    BY <1>1, <2>1, Leader, Positions, RowsOfDocuments
  <2> HIDE DEF L
  <2>3. Live(x, i) => x.row[i].stamp \in Nat
    BY RowsOfDocuments
  <2>4. Live(x, i) =>
          ((\A m \in 1..N : Live(docs[m], i) => docs[m].row[i].stamp < x.row[i].stamp)
             <=> Taken(docs, i).stamp < x.row[i].stamp)
    <3>1. SUFFICES ASSUME Live(x, i), Taken(docs, i).stamp < x.row[i].stamp,
                          NEW m \in 1..N, Live(docs[m], i)
                   PROVE  docs[m].row[i].stamp < x.row[i].stamp
      BY <2>1
    <3> QED  BY <2>1, <2>2, <2>3, <3>1
  <2> QED  BY <1>1, <1>4, <1>5, <1>7, <2>4 DEF all, N
<1> QED  BY <1>6, <1>7

\* The bearers after one more document.
LEMMA OneMoreBearer ==
    ASSUME NEW docs \in Seq(Document), NEW x \in Document, NEW i \in Item, NEW id
    PROVE  LET all == Append(docs, x)
               N   == Len(docs)
               inx == Live(x, i) /\ id \in Ids(x.row[i].entries)
           IN  /\ inx /\ N + 1 \in Leads(all, i) => Bearer(all, i, id) = N + 1
               /\ inx /\ HasCopy(docs, i, id) = {} => Bearer(all, i, id) = N + 1
               /\ HasCopy(docs, i, id) # {} /\ (inx => N + 1 \notin Leads(all, i)) =>
                    Bearer(all, i, id) = Bearer(docs, i, id)
<1> DEFINE all == Append(docs, x)
           N == Len(docs)
           inx == Live(x, i) /\ id \in Ids(x.row[i].entries)
           H == HasCopy(docs, i, id)
           HA == HasCopy(all, i, id)
           lead == H \cap Leads(docs, i)
           leadA == HA \cap Leads(all, i)
<1>1. /\ all \in Seq(Document) /\ N \in Nat
      /\ DOMAIN docs = 1..N /\ DOMAIN all = 1..(N + 1)
      /\ all[N + 1] = x /\ \A n \in 1..N : all[n] = docs[n]
      /\ \A n \in Leads(all, i) : n \in Leads(docs, i) \/ n = N + 1
      /\ Leads(docs, i) \subseteq Leads(all, i) /\ N + 1 \notin Leads(docs, i)
  BY OneMoreLeads
<1>2. /\ Bearer(docs, i, id) = IF lead = {} THEN Min(H) ELSE Max(lead)
      /\ Bearer(all, i, id) = IF leadA = {} THEN Min(HA) ELSE Max(leadA)
  BY DEF Bearer, HasCopy
<1> HIDE DEF all, N
<1>3. H \subseteq 1..N /\ HA \subseteq 1..(N + 1)
  BY <1>1 DEF HasCopy
<1>4. HA = IF inx THEN H \cup {N + 1} ELSE H
  <2>1. \A n \in 1..(N + 1) : n \in 1..N \/ n = N + 1
    BY <1>1
  <2>2. \A n \in 1..N : n # N + 1 /\ n \in 1..(N + 1) /\ (n \in HA <=> n \in H)
    BY <1>1 DEF HasCopy
  <2>3. N + 1 \in HA <=> inx
    <3>1. N + 1 \in 1..(N + 1)
      BY <1>1
    <3> QED  BY <1>1, <3>1 DEF HasCopy
  <2>4. ASSUME NEW n PROVE n \in HA <=> (n \in H \/ (inx /\ n = N + 1))
    BY <1>3, <2>1, <2>2, <2>3
  <2> HIDE DEF HA, H, inx
  <2> QED  BY <2>4
<1> HIDE DEF H, HA, inx
<1>5. (\A n \in H : n \in Nat /\ n < N + 1) /\ H \in SUBSET Nat /\ HA \in SUBSET Nat
      /\ N + 1 \in Nat /\ \A n \in HA : n <= N + 1
  BY <1>1, <1>3
<1>6. inx /\ N + 1 \in Leads(all, i) => Bearer(all, i, id) = N + 1
  <2>1. SUFFICES ASSUME inx, N + 1 \in Leads(all, i) PROVE Bearer(all, i, id) = N + 1
    OBVIOUS
  <2>2. N + 1 \in leadA /\ leadA \in SUBSET Nat /\ \A n \in leadA : n <= N + 1
    BY <1>4, <1>5, <2>1
  <2> HIDE DEF leadA
  <2>3. Max(leadA) = N + 1
    BY <2>2, MaxIs
  <2> QED  BY <1>2, <2>2, <2>3
<1>7. inx /\ H = {} => Bearer(all, i, id) = N + 1
  <2>1. SUFFICES ASSUME inx, H = {}, N + 1 \notin Leads(all, i) PROVE Bearer(all, i, id) = N + 1
    BY <1>6
  <2>2. HA = {N + 1} /\ leadA = {}
    BY <1>4, <2>1
  <2>3. Min(HA) = N + 1
    BY <1>5, <2>2, MinIs
  <2> QED  BY <1>2, <2>2, <2>3
<1>8. H # {} /\ (inx => N + 1 \notin Leads(all, i)) => Bearer(all, i, id) = Bearer(docs, i, id)
  <2>1. SUFFICES ASSUME H # {}, inx => N + 1 \notin Leads(all, i)
                 PROVE  Bearer(all, i, id) = Bearer(docs, i, id)
    OBVIOUS
  <2>2. leadA = lead
    BY <1>1, <1>4, <1>5, <2>1
  <2>3. Min(HA) = Min(H)
    <3>1. Min(H) \in H /\ \A n \in H : Min(H) <= n
      BY <1>5, <2>1, MinOfNumbers
    <3>2. Min(H) \in HA /\ \A n \in HA : Min(H) <= n
      BY <1>4, <1>5, <3>1
    <3> QED  BY <1>5, <3>2, MinIs
  <2> HIDE DEF lead, leadA
  <2> QED  BY <1>2, <2>2, <2>3
<1> QED  BY <1>6, <1>7, <1>8 DEF all, N, H, inx

\* A turn of the loop takes one more document in.
LEMMA OneMoreTaken ==
    ASSUME NEW docs \in Seq(Document), NEW x \in Document, NEW i \in Item
    PROVE  Taken(Append(docs, x), i) = TakeIn(Taken(docs, i), x.row[i])
<1> DEFINE all == Append(docs, x)
           N == Len(docs)
           acc == Taken(docs, i)
           row == x.row[i]
<1>1. /\ all \in Seq(Document) /\ N \in Nat
      /\ DOMAIN docs = 1..N /\ DOMAIN all = 1..(N + 1)
      /\ all[N + 1] = x /\ \A n \in 1..N : all[n] = docs[n]
      /\ \A n \in Leads(all, i) : n \in Leads(docs, i) \/ n = N + 1
      /\ Leads(docs, i) \subseteq Leads(all, i) /\ N + 1 \notin Leads(docs, i)
      /\ N + 1 \in Leads(all, i) <=>
           (Live(x, i) /\ (Leads(docs, i) # {} => acc.stamp < row.stamp))
  BY OneMoreLeads
<1>2. \A e : e \in AllEntries(docs, i) <=>
        \E n \in 1..N : /\ Live(docs[n], i) /\ e \in docs[n].row[i].entries
                        /\ Bearer(docs, i, e.id) = n
  BY <1>1, MergedEntries
<1>3. \A e : e \in AllEntries(all, i) <=>
        \E n \in 1..(N + 1) : /\ Live(all[n], i) /\ e \in all[n].row[i].entries
                              /\ Bearer(all, i, e.id) = n
  <2> HIDE DEF all, N
  <2> QED  BY <1>1, MergedEntries
<1>4. \A id : LET inx == Live(x, i) /\ id \in Ids(row.entries)
              IN  /\ inx /\ N + 1 \in Leads(all, i) => Bearer(all, i, id) = N + 1
                  /\ inx /\ HasCopy(docs, i, id) = {} => Bearer(all, i, id) = N + 1
                  /\ HasCopy(docs, i, id) # {} /\ (inx => N + 1 \notin Leads(all, i)) =>
                       Bearer(all, i, id) = Bearer(docs, i, id)
  BY OneMoreBearer
<1>5. \A id : HasCopy(docs, i, id) # {} <=> id \in Ids(AllEntries(docs, i))
  <2> TAKE id
  <2>1. ASSUME HasCopy(docs, i, id) # {} PROVE id \in Ids(AllEntries(docs, i))
    <3>1. PICK n \in DOMAIN docs : Live(docs[n], i) /\ id \in Ids(docs[n].row[i].entries)
      BY <2>1 DEF HasCopy
    <3> QED  BY <3>1, MergedEntries
  <2>2. ASSUME id \in Ids(AllEntries(docs, i)) PROVE HasCopy(docs, i, id) # {}
    <3>1. PICK e \in AllEntries(docs, i) : e.id = id
      BY <2>2 DEF Ids
    <3>2. PICK n \in 1..N : Live(docs[n], i) /\ e \in docs[n].row[i].entries
      BY <1>2
    <3>3. n \in HasCopy(docs, i, id)
      BY <1>1, <3>1, <3>2 DEF HasCopy, Ids
    <3> QED  BY <3>3
  <2> QED  BY <2>1, <2>2
<1>6. \A n \in 1..N : \A e : Live(docs[n], i) /\ e \in docs[n].row[i].entries =>
                           HasCopy(docs, i, e.id) # {}
  BY <1>1 DEF HasCopy, Ids
<1>7. Live(x, i) => \A e \in row.entries : e.id \in Ids(row.entries)
  BY DEF Ids
<1>8. \A e : e \in AllEntries(docs, i) => e.id \in Ids(AllEntries(docs, i))
  BY DEF Ids
<1>9. N + 1 \in 1..(N + 1) /\ \A n \in 1..(N + 1) : n \in 1..N \/ n = N + 1
  BY <1>1
<1>10. \A n \in 1..N : n \in 1..(N + 1) /\ n # N + 1
  BY <1>1
<1>18. Live(x, i) => row \in Row /\ row # Absent /\ row.stamp \in Nat
  BY RowsOfDocuments DEF Live
<1>19. ~Live(x, i) => row = Absent
  BY DEF Live
<1> HIDE DEF all, N, row
\* The entries that a copy in x does not touch.
<1>11. ASSUME NEW e, ~(Live(x, i) /\ e.id \in Ids(row.entries))
       PROVE  e \in AllEntries(all, i) <=> e \in AllEntries(docs, i)
  <2>1. ASSUME e \in AllEntries(all, i) PROVE e \in AllEntries(docs, i)
    <3>1. PICK n \in 1..(N + 1) : /\ Live(all[n], i) /\ e \in all[n].row[i].entries
                                  /\ Bearer(all, i, e.id) = n
      BY <1>3, <2>1
    <3>2. n # N + 1
      BY <1>1, <1>7, <1>11, <3>1 DEF row
    <3>3. n \in 1..N /\ Live(docs[n], i) /\ e \in docs[n].row[i].entries
      BY <1>1, <1>9, <3>1, <3>2
    <3>4. Bearer(all, i, e.id) = Bearer(docs, i, e.id)
      BY <1>4, <1>6, <1>11, <3>3
    <3> QED  BY <1>2, <3>1, <3>3, <3>4
  <2>2. ASSUME e \in AllEntries(docs, i) PROVE e \in AllEntries(all, i)
    <3>1. PICK n \in 1..N : /\ Live(docs[n], i) /\ e \in docs[n].row[i].entries
                            /\ Bearer(docs, i, e.id) = n
      BY <1>2, <2>2
    <3>2. Bearer(all, i, e.id) = Bearer(docs, i, e.id)
      BY <1>4, <1>6, <1>11, <3>1
    <3> QED  BY <1>1, <1>3, <1>10, <3>1, <3>2
  <2> QED  BY <2>1, <2>2
<1>12. CASE ~Live(x, i)
  <2>1. AllEntries(all, i) = AllEntries(docs, i)
    BY <1>11, <1>12
  <2>2. Leads(all, i) = Leads(docs, i)
    BY <1>1, <1>12
  <2>3. Leads(docs, i) # {} => all[Max(Leads(docs, i))] = docs[Max(Leads(docs, i))]
    BY <1>1, TakenRow
  <2>4. Taken(all, i) = acc
    BY <2>1, <2>2, <2>3 DEF Taken
  <2> QED  BY <1>12, <1>19, <2>4 DEF TakeIn, all, row
<1>13. CASE Live(x, i) /\ N + 1 \in Leads(all, i)
  <2>1. Max(Leads(all, i)) = N + 1
    <3>1. Leads(all, i) \in SUBSET Nat /\ \A n \in Leads(all, i) : n <= N + 1
      <4>1. Leads(all, i) \subseteq 1..(N + 1)
        BY <1>1 DEF Leads
      <4> QED  BY <1>1, <4>1
    <3> QED  BY <1>13, <3>1, MaxIs
  <2>2. Taken(all, i) = [row EXCEPT !.entries = AllEntries(all, i)]
    BY <1>1, <1>13, <2>1 DEF Taken, row
  <2>3. ASSUME NEW e, e.id \in Ids(row.entries)
        PROVE  e \in AllEntries(all, i) <=> e \in row.entries
    <3>1. Bearer(all, i, e.id) = N + 1
      BY <1>4, <1>13, <2>3
    <3>2. all[N + 1].row[i] = row
      BY <1>1 DEF row
    <3> QED  BY <1>1, <1>3, <1>9, <1>13, <3>1, <3>2
  <2>4. CASE Leads(docs, i) = {}
    <3>1. AllEntries(docs, i) = {}
      <4>1. \A n \in 1..N : ~Live(docs[n], i)
        BY <1>1, <2>4, NoLeader
      <4> QED  BY <1>2, <4>1
    <3>2. AllEntries(all, i) = row.entries
      <4>1. ASSUME NEW e PROVE e \in AllEntries(all, i) <=> e \in row.entries
        <5>1. CASE e.id \in Ids(row.entries)
          BY <2>3, <5>1
        <5>2. CASE e.id \notin Ids(row.entries)
          BY <1>7, <1>11, <1>13, <3>1, <5>2
        <5> QED  BY <5>1, <5>2
      <4> QED  BY <4>1
    <3>3. Taken(all, i) = row
      BY <1>13, <1>18, <2>2, <3>2 DEF Row
    <3>4. acc = Absent
      BY <2>4 DEF Taken
    <3> QED  BY <1>13, <1>18, <3>3, <3>4 DEF TakeIn, all, row
  <2>5. CASE Leads(docs, i) # {}
    <3>1. acc \in Row /\ acc # Absent /\ acc.stamp \in Nat /\ acc.entries = AllEntries(docs, i)
      BY <2>5, TakenRow
    <3>2. row.stamp > acc.stamp
      BY <1>1, <1>13, <1>18, <2>5, <3>1
    <3>3. TakeIn(acc, row) = Union(row, acc)
      BY <1>13, <1>18, <3>1, <3>2 DEF TakeIn
    <3>4. AllEntries(all, i) = row.entries \cup {e \in acc.entries : e.id \notin Ids(row.entries)}
      <4>1. ASSUME NEW e
            PROVE  e \in AllEntries(all, i) <=>
                     e \in row.entries \/ (e \in acc.entries /\ e.id \notin Ids(row.entries))
        <5>1. CASE e.id \in Ids(row.entries)
          BY <2>3, <5>1
        <5>2. CASE e.id \notin Ids(row.entries)
          BY <1>7, <1>11, <1>13, <3>1, <5>2
        <5> QED  BY <5>1, <5>2
      <4> QED  BY <4>1
    <3>5. Union(row, acc) =
            [row EXCEPT !.entries =
               row.entries \cup {e \in acc.entries : e.id \notin Ids(row.entries)}]
      BY DEF Union
    <3> QED  BY <2>2, <3>3, <3>4, <3>5 DEF all, row
  <2> QED  BY <2>4, <2>5
<1>14. CASE Live(x, i) /\ N + 1 \notin Leads(all, i)
  <2>1. Leads(docs, i) # {} /\ ~(acc.stamp < row.stamp) /\ Leads(all, i) = Leads(docs, i)
    BY <1>1, <1>14
  <2> DEFINE L == Max(Leads(docs, i))
  <2>2. /\ L \in 1..N /\ acc \in Row /\ acc # Absent /\ acc.stamp \in Nat
        /\ acc.entries = AllEntries(docs, i) /\ docs[L].row[i] \in Row
        /\ acc = [docs[L].row[i] EXCEPT !.entries = AllEntries(docs, i)]
    BY <1>1, <2>1, TakenRow
  <2>3. Taken(all, i) = [docs[L].row[i] EXCEPT !.entries = AllEntries(all, i)]
    BY <1>1, <2>1, <2>2 DEF Taken
  <2> HIDE DEF L
  <2>4. TakeIn(acc, row) = Union(acc, row)
    <3>1. ~(row.stamp > acc.stamp)
      BY <1>14, <1>18, <2>1, <2>2
    <3> QED  BY <1>14, <1>18, <2>2, <3>1 DEF TakeIn
  <2>5. AllEntries(all, i)
          = AllEntries(docs, i) \cup {e \in row.entries : e.id \notin Ids(AllEntries(docs, i))}
    <3>1. ASSUME NEW e
          PROVE  e \in AllEntries(all, i) <=>
                   \/ e \in AllEntries(docs, i)
                   \/ e \in row.entries /\ e.id \notin Ids(AllEntries(docs, i))
      <4>1. CASE e.id \notin Ids(row.entries)
        BY <1>7, <1>11, <1>14, <4>1
      <4>2. CASE e.id \in Ids(row.entries) /\ e.id \in Ids(AllEntries(docs, i))
        <5>1. Bearer(all, i, e.id) = Bearer(docs, i, e.id)
          BY <1>4, <1>5, <1>14, <4>2
        <5>2. PICK u \in AllEntries(docs, i) : u.id = e.id
          BY <4>2 DEF Ids
        <5>3. Bearer(docs, i, e.id) \in 1..N
          BY <1>2, <5>2
        <5>4. e \in AllEntries(all, i) => e \in AllEntries(docs, i)
          <6>1. SUFFICES ASSUME e \in AllEntries(all, i) PROVE e \in AllEntries(docs, i)
            OBVIOUS
          <6>2. PICK n \in 1..(N + 1) : /\ Live(all[n], i) /\ e \in all[n].row[i].entries
                                        /\ Bearer(all, i, e.id) = n
            BY <1>3, <6>1
          <6> QED  BY <1>1, <1>2, <5>1, <5>3, <6>2
        <5>5. e \in AllEntries(docs, i) => e \in AllEntries(all, i)
          <6>1. SUFFICES ASSUME e \in AllEntries(docs, i) PROVE e \in AllEntries(all, i)
            OBVIOUS
          <6>2. PICK n \in 1..N : /\ Live(docs[n], i) /\ e \in docs[n].row[i].entries
                                  /\ Bearer(docs, i, e.id) = n
            BY <1>2, <6>1
          <6> QED  BY <1>1, <1>3, <1>10, <5>1, <6>2
        <5> QED  BY <4>2, <5>4, <5>5
      <4>3. CASE e.id \in Ids(row.entries) /\ e.id \notin Ids(AllEntries(docs, i))
        <5>1. Bearer(all, i, e.id) = N + 1
          BY <1>4, <1>5, <1>14, <4>3
        <5>2. all[N + 1].row[i] = row
          BY <1>1 DEF row
        <5>3. e \notin AllEntries(docs, i)
          BY <1>8, <4>3
        <5> QED  BY <1>1, <1>3, <1>9, <1>14, <4>3, <5>1, <5>2, <5>3
      <4> QED  BY <4>1, <4>2, <4>3
    <3> QED  BY <3>1
  <2>6. Union(acc, row) =
          [acc EXCEPT !.entries = acc.entries \cup {e \in row.entries : e.id \notin Ids(acc.entries)}]
    BY DEF Union
  <2>7. Union(acc, row) = [docs[L].row[i] EXCEPT !.entries = AllEntries(all, i)]
    <3> HIDE DEF acc
    <3> QED  BY <2>2, <2>5, <2>6 DEF Row
  <2> QED  BY <2>3, <2>4, <2>7 DEF all, row
<1> QED  BY <1>12, <1>13, <1>14

\* The accumulator of the loop, turn by turn.
Turns(docs, i) ==
    CHOOSE acc : acc = [n \in 0..Len(docs) |->
        IF n = 0 THEN Absent ELSE TakeIn(acc[n - 1], docs[n].row[i])]

\* A first part of a sequence and its next element.
LEMMA OneMoreOf ==
    ASSUME NEW docs \in Seq(Document), NEW n \in 1..Len(docs)
    PROVE  /\ SubSeq(docs, 1, n - 1) \in Seq(Document) /\ docs[n] \in Document
           /\ SubSeq(docs, 1, n) = Append(SubSeq(docs, 1, n - 1), docs[n])
<1>1. SubSeq(docs, 1, n - 1) \in Seq(Document) /\ docs[n] \in Document
  OBVIOUS
<1> DEFINE a == SubSeq(docs, 1, n)
           b == SubSeq(docs, 1, n - 1)
           c == Append(b, docs[n])
<1>2. n \in Nat /\ a \in Seq(Document) /\ Len(a) = n /\ \A m \in 1..n : a[m] = docs[m]
  OBVIOUS
<1>3. b \in Seq(Document) /\ Len(b) = n - 1 /\ \A m \in 1..(n - 1) : b[m] = docs[m]
  OBVIOUS
<1> HIDE DEF b
<1>4. c \in Seq(Document) /\ Len(c) = n /\ c[n] = docs[n] /\ \A m \in 1..(n - 1) : c[m] = docs[m]
  BY <1>1, <1>2, <1>3
<1> HIDE DEF a, c
<1>5. \A m \in 1..n : m \in 1..(n - 1) \/ m = n
  BY <1>2
<1>6. a = c
  BY <1>2, <1>4, <1>5
<1> QED  BY <1>1, <1>6 DEF a, b, c

\* The loop leaves what Merge says of the rows.
LEMMA LoopTakes ==
    ASSUME NEW docs \in Seq(Document), NEW i \in Item
    PROVE  Loop(docs, i) = Taken(docs, i)
<1> DEFINE N == Len(docs)
           G == [n \in 0..N |-> Taken(SubSeq(docs, 1, n), i)]
           F == Turns(docs, i)
<1>1. N \in Nat /\ 0 \in 0..N /\ N \in 0..N
  OBVIOUS
<1>2. SubSeq(docs, 1, 0) = <<>> /\ SubSeq(docs, 1, N) = docs
  OBVIOUS
<1>3. Taken(<<>>, i) = Absent
  BY DEF Taken, Leads
<1>4. ASSUME NEW n \in 0..N, n # 0
      PROVE  G[n] = TakeIn(G[n - 1], docs[n].row[i])
  <2>1. n \in 1..N /\ n - 1 \in 0..N
    BY <1>1, <1>4
  <2>2. /\ SubSeq(docs, 1, n - 1) \in Seq(Document) /\ docs[n] \in Document
        /\ SubSeq(docs, 1, n) = Append(SubSeq(docs, 1, n - 1), docs[n])
    BY <2>1, OneMoreOf
  <2>3. Taken(SubSeq(docs, 1, n), i) = TakeIn(Taken(SubSeq(docs, 1, n - 1), i), docs[n].row[i])
    BY <2>2, OneMoreTaken
  <2> QED  BY <2>1, <2>3
<1>5. G[0] = Absent
  BY <1>1, <1>2, <1>3
<1>6. G = [n \in 0..N |-> IF n = 0 THEN Absent ELSE TakeIn(G[n - 1], docs[n].row[i])]
  <2>1. \A n \in 0..N : G[n] = IF n = 0 THEN Absent ELSE TakeIn(G[n - 1], docs[n].row[i])
    BY <1>4, <1>5
  <2> QED  BY <2>1
<1>7. G[N] = Taken(docs, i)
  BY <1>1, <1>2
<1> HIDE DEF G
<1>8. F = [n \in 0..N |-> IF n = 0 THEN Absent ELSE TakeIn(F[n - 1], docs[n].row[i])]
  BY <1>6, Zenon DEF Turns
<1> HIDE DEF F, N
<1>9. \A n \in 0..N : F[n] = G[n]
  <2>1. SUFFICES ASSUME NEW k \in 0..N, F[k] # G[k] PROVE FALSE
    OBVIOUS
  <2> DEFINE S == {n \in 0..N : F[n] # G[n]}
  <2>2. S \in SUBSET Nat /\ S # {} /\ \A n \in S : n \in 0..N /\ F[n] # G[n]
    BY <1>1, <2>1
  <2>3. \A n \in 0..N : F[n] # G[n] => n \in S
    OBVIOUS
  <2> HIDE DEF S
  <2>4. PICK m \in S : \A n \in S : m <= n
    BY <2>2, MinOfNumbers
  <2>5. m # 0
    BY <1>1, <1>5, <1>8, <2>2
  <2>6. m - 1 \in 0..N /\ m \in 0..N /\ m \in Nat /\ ~(m <= m - 1)
    BY <1>1, <2>2, <2>5
  <2>7. F[m - 1] = G[m - 1]
    BY <2>3, <2>4, <2>6
  <2>8. F[m] = TakeIn(F[m - 1], docs[m].row[i])
    BY <1>8, <2>5, <2>6
  <2>9. G[m] = TakeIn(G[m - 1], docs[m].row[i])
    BY <1>6, <2>5, <2>6
  <2> QED  BY <2>2, <2>7, <2>8, <2>9
<1>10. Loop(docs, i) = F[N]
  BY DEF Loop, Turns, F, N
<1> QED  BY <1>1, <1>7, <1>9, <1>10

\* What Merge says of rows and time entries, without an order of evaluation, is what the
\* loop of merge_documents leaves in its accumulator, in every merge that any number of
\* devices may make (model.rs, merge_documents).
THEOREM MergeLoops == Spec => []MergeIsTheLoop
<1>1. FleetSane => MergeIsTheLoop
  <2> SUFFICES ASSUME FleetSane, NEW d \in Device, NEW i \in Item
               PROVE  LET docs == Append(InNameOrder(view[d]), doc[d])
                      IN  IF Leads(docs, i) = {} THEN Loop(docs, i) = Absent
                          ELSE Loop(docs, i) = [docs[Max(Leads(docs, i))].row[i] EXCEPT
                                                  !.entries = AllEntries(docs, i)]
    BY DEF MergeIsTheLoop
  <2> DEFINE docs == Append(InNameOrder(view[d]), doc[d])
  <2>1. doc[d] \in Document /\ view[d] \in [Peers(d) -> Document]
    BY DEF FleetSane, Replicas
  <2>2. docs \in Seq(Document)
    BY <2>1, AssembledDocuments DEF Assembled
  <2> HIDE DEF docs
  <2>3. Loop(docs, i) = Taken(docs, i)
    BY <2>2, LoopTakes
  <2> QED  BY <2>3 DEF Taken, docs
<1> QED  BY <1>1, FleetStarts, NextSane, PTL DEF Spec
=============================================================================
