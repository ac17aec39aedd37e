--------------------------- MODULE DocumentsProofs ---------------------------
(***************************************************************************)
(* What merging and writing documents preserve, for every set of entities  *)
(* and every bound on stamps: the facts the proofs about the store cite.   *)
(***************************************************************************)
EXTENDS Documents, WellFoundedInduction, TLAPS

-----------------------------------------------------------------------------
(* Covering and absorbing *)

LEMMA CoversReflexive == \A d : Covers(d, d)
BY DEF Covers

LEMMA CoversTransitive ==
    ASSUME NEW c, NEW d, NEW e, Covers(c, d), Covers(d, e)
    PROVE  Covers(c, e)
BY DEF Covers

\* Absorbing is the finer of the two.
LEMMA AbsorbsCovers ==
    ASSUME NEW d \in Document, NEW e \in Document, Absorbs(d, e)
    PROVE  Covers(d, e)
<1> SUFFICES ASSUME NEW i \in Id, NEW s \in Stamp, Knows(e, i, s)
             PROVE  Knows(d, i, s)
  BY DEF Covers
<1>1. s \in Nat /\ s # 0 /\ d.rows[i] \in Nat /\ e.rows[i] \in Nat
      /\ (\A t \in d.tombs : t.at \in Nat) /\ \A t \in e.tombs : t.at \in Nat
  BY MaxStampAssumption DEF Document, Tombstone, Stamp
<1>2. CASE s <= e.rows[i]
  <2>1. Knows(d, i, e.rows[i])
    BY DEF Absorbs
  <2> QED  BY <1>1, <1>2, <2>1 DEF Knows
<1>3. CASE \E u \in e.tombs : u.id = i /\ s <= u.at
  <2>1. PICK u \in e.tombs : u.id = i /\ s <= u.at
    BY <1>3
  <2>2. PICK t \in d.tombs : t.id = u.id /\ u.at <= t.at
    BY DEF Absorbs
  <2> QED  BY <1>1, <2>1, <2>2 DEF Knows
<1> QED  BY <1>1, <1>2, <1>3 DEF Knows

LEMMA AbsorbsReflexive ==
    ASSUME NEW d \in Document
    PROVE  Absorbs(d, d)
BY MaxStampAssumption DEF Absorbs, Knows, Document, Tombstone, Stamp

LEMMA AbsorbsTransitive ==
    ASSUME NEW c \in Document, NEW d \in Document, NEW e \in Document,
           Absorbs(c, d), Absorbs(d, e)
    PROVE  Absorbs(c, e)
<1>1. \A x \in {c, d, e} : (\A i \in Id : x.rows[i] \in Stamp \cup {0})
                           /\ \A t \in x.tombs : t.at \in Nat
  BY MaxStampAssumption DEF Document, Tombstone, Stamp
<1>2. ASSUME NEW i \in Id PROVE Knows(c, i, e.rows[i])
  <2>1. Knows(d, i, e.rows[i])
    BY DEF Absorbs
  <2>2. Covers(c, d)
    BY AbsorbsCovers
  <2>3. e.rows[i] \in Stamp \/ e.rows[i] = 0
    BY <1>1
  <2> QED  BY <2>1, <2>2, <2>3 DEF Covers, Knows
<1>3. ASSUME NEW u \in e.tombs PROVE \E t \in c.tombs : t.id = u.id /\ u.at <= t.at
  <2>1. PICK v \in d.tombs : v.id = u.id /\ u.at <= v.at
    BY DEF Absorbs
  <2>2. PICK t \in c.tombs : t.id = v.id /\ v.at <= t.at
    BY DEF Absorbs
  <2> QED  BY <1>1, <2>1, <2>2
<1> QED  BY <1>2, <1>3 DEF Absorbs

-----------------------------------------------------------------------------
(* Merging *)

\* Every non-empty set of stamps (0 included) has a greatest element, and Max is it.
LEMMA MaxOfStamps ==
    ASSUME NEW S \in SUBSET (Stamp \cup {0}), S # {}
    PROVE  Max(S) \in S /\ \A y \in S : y <= Max(S)
<1> DEFINE Above == {n \in Nat : \A y \in S : y <= n}
<1>1. MaxStamp \in Above
  BY MaxStampAssumption DEF Stamp
<1>2. PICK m \in Above : \A n \in Above : ~(<<n, m>> \in OpToRel(<, Nat))
  <2>1. Above \subseteq Nat /\ Above # {}
    BY <1>1
  <2> QED  BY <2>1, NatLessThanWellFounded, WFMin, Zenon
<1>3. \A n \in Above : m <= n
  <2>1. SUFFICES ASSUME NEW n \in Above, n < m PROVE FALSE
    BY MaxStampAssumption
  <2>2. <<n, m>> \in {ss \in Nat \X Nat : ss[1] < ss[2]}
    BY <2>1
  <2> QED  BY <2>2, <1>2, Zenon DEF OpToRel
<1>4. m \in S
  <2>1. SUFFICES ASSUME m \notin S PROVE FALSE
    OBVIOUS
  <2>2. PICK y \in S : TRUE
    OBVIOUS
  <2>3. y \in Nat /\ y < m
    BY <2>1, <2>2, MaxStampAssumption DEF Stamp
  <2>4. m - 1 \in Above
    BY <2>1, <2>3, MaxStampAssumption DEF Stamp
  <2> QED  BY <2>4, <1>3
<1>5. \A y \in S : m >= y
  BY MaxStampAssumption DEF Stamp
<1>6. Max(S) \in S /\ \A y \in S : Max(S) >= y
  BY <1>4, <1>5, Zenon DEF Max
<1> QED  BY <1>6, MaxStampAssumption DEF Stamp

\* The newest row of an entity is one of the rows of the replicas, and none is newer.
LEMMA NewestRowIsNewest ==
    ASSUME NEW docs \in SUBSET Document, docs # {}, NEW i \in Id
    PROVE  /\ NewestRow(docs, i) \in Stamp \cup {0}
           /\ \E d \in docs : NewestRow(docs, i) = d.rows[i]
           /\ \A d \in docs : d.rows[i] <= NewestRow(docs, i)
<1>1. RowStamps(docs, i) \in SUBSET (Stamp \cup {0}) /\ RowStamps(docs, i) # {}
  BY DEF RowStamps, Document
<1>2. /\ Max(RowStamps(docs, i)) \in RowStamps(docs, i)
      /\ \A y \in RowStamps(docs, i) : y <= Max(RowStamps(docs, i))
  BY <1>1, MaxOfStamps
<1> QED  BY <1>1, <1>2 DEF NewestRow, RowStamps

\* The latest tombstone of an entity is 0 or one of the replicas', and none is later.
LEMMA LatestTombIsLatest ==
    ASSUME NEW docs \in SUBSET Document, NEW i \in Id
    PROVE  /\ LatestTomb(docs, i) \in Stamp \cup {0}
           /\ \/ LatestTomb(docs, i) = 0
              \/ \E d \in docs : \E t \in d.tombs : t.id = i /\ t.at = LatestTomb(docs, i)
           /\ \A d \in docs : \A t \in d.tombs : t.id = i => t.at <= LatestTomb(docs, i)
<1> DEFINE S == {t.at : t \in TombsOf(docs, i)} \cup {0}
<1>1. S \in SUBSET (Stamp \cup {0}) /\ S # {}
  BY DEF TombsOf, Document, Tombstone
<1>2. Max(S) \in S /\ \A y \in S : y <= Max(S)
  BY <1>1, MaxOfStamps
<1>3. LatestTomb(docs, i) = Max(S)
  BY DEF LatestTomb
<1> HIDE DEF S
<1>4. Max(S) = 0 \/ \E t \in TombsOf(docs, i) : t.at = Max(S)
  BY <1>2 DEF S
<1>5. \A t \in TombsOf(docs, i) : t.at \in S
  BY DEF S
<1> QED  BY <1>1, <1>2, <1>3, <1>4, <1>5 DEF TombsOf

\* Merging documents gives a document.
LEMMA MergeType ==
    ASSUME NEW docs \in SUBSET Document, docs # {}
    PROVE  Merge(docs) \in Document
<1>1. \A i \in Id : NewestRow(docs, i) \in Stamp \cup {0}
  BY NewestRowIsNewest
<1>2. UNION {d.tombs : d \in docs} \in SUBSET Tombstone
  BY DEF Document
<1> QED  BY <1>1, <1>2 DEF Merge, Document

\* A merge absorbs every document merged, and rows in it are newer than its tombstones.
LEMMA MergeAbsorbs ==
    ASSUME NEW docs \in SUBSET Document, NEW d \in docs
    PROVE  Absorbs(Merge(docs), d) /\ RowsOutliveTombs(Merge(docs))
<1> DEFINE L(i) == LatestTomb(docs, i)
           N(i) == NewestRow(docs, i)
           m == Merge(docs)
<1>1. ASSUME NEW i \in Id
      PROVE  /\ L(i) \in Nat /\ N(i) \in Nat /\ d.rows[i] \in Nat /\ d.rows[i] <= N(i)
             /\ m.rows[i] = IF L(i) < N(i) THEN N(i) ELSE 0
             /\ L(i) # 0 => \E t \in m.tombs : t.id = i /\ t.at = L(i)
             /\ \A t \in d.tombs : t.id = i => t.at \in Nat \ {0} /\ t.at <= L(i)
             /\ \A t \in m.tombs : t.id = i => t.at = L(i)
  <2>1. docs # {}
    OBVIOUS
  <2>2. L(i) \in Stamp \cup {0} /\ N(i) \in Stamp \cup {0} /\ d.rows[i] <= N(i)
    BY <2>1, NewestRowIsNewest, LatestTombIsLatest
  <2>3. d.rows[i] \in Stamp \cup {0} /\ \A t \in d.tombs : t.at \in Stamp
    BY DEF Document, Tombstone
  <2>4. L(i) # 0 => \E t \in m.tombs : t.id = i /\ t.at = L(i)
    <3>1. SUFFICES ASSUME L(i) # 0 PROVE \E t \in m.tombs : t.id = i /\ t.at = L(i)
      OBVIOUS
    <3>2. PICK e \in docs : \E t \in e.tombs : t.id = i /\ t.at = L(i)
      BY <3>1, LatestTombIsLatest
    <3> QED  BY <3>2 DEF Merge
  <2>5. m.rows[i] = IF L(i) < N(i) THEN N(i) ELSE 0
    BY DEF Merge
  <2>6. \A t \in m.tombs : t.id = i => t.at = L(i)
    BY DEF Merge
  <2>7. \A t \in d.tombs : t.id = i => t.at <= L(i)
    BY LatestTombIsLatest
  <2> HIDE DEF L, N, m
  <2> QED  BY <2>2, <2>3, <2>4, <2>5, <2>6, <2>7, MaxStampAssumption DEF Stamp
<1>2. \A t \in d.tombs : t.id \in Id
  BY DEF Document, Tombstone
<1> HIDE DEF L, N, m
<1>3. ASSUME NEW i \in Id PROVE Knows(m, i, d.rows[i])
  <2>1. CASE L(i) < N(i)
    BY <1>1, <2>1 DEF Knows
  <2>2. CASE ~(L(i) < N(i)) /\ d.rows[i] # 0
    BY <1>1, <2>2 DEF Knows
  <2> QED  BY <2>1, <2>2 DEF Knows
<1>4. ASSUME NEW u \in d.tombs PROVE \E t \in m.tombs : t.id = u.id /\ u.at <= t.at
  BY <1>1, <1>2
<1>5. RowsOutliveTombs(m)
  BY <1>1 DEF RowsOutliveTombs, Live
<1> QED  BY <1>3, <1>4, <1>5 DEF Absorbs, m

\* It loses nothing: it covers every document merged.
LEMMA MergeCovers ==
    ASSUME NEW docs \in SUBSET Document, NEW d \in docs
    PROVE  Covers(Merge(docs), d)
BY MergeAbsorbs, MergeType, AbsorbsCovers

\* It keeps one tombstone of each id, so that every row of it can be written.
LEMMA MergeIsWritable ==
    ASSUME NEW docs \in SUBSET Document
    PROVE  Writable(Merge(docs))
<1> SUFFICES ASSUME NEW t \in Merge(docs).tombs, NEW u \in Merge(docs).tombs, t.id = u.id
             PROVE  t = u
  BY DEF Writable
<1>1. t.at = u.at
  BY DEF Merge
<1>2. t \in Tombstone /\ u \in Tombstone
  BY DEF Merge, Document
<1> QED  BY <1>1, <1>2 DEF Tombstone

\* It makes nothing up: its edits are as old as those of the documents merged.
LEMMA MergeIsNoneAfter ==
    ASSUME NEW docs \in SUBSET Document, docs # {},
           NEW n \in Nat, \A d \in docs : NoneAfter(d, n)
    PROVE  NoneAfter(Merge(docs), n)
<1>1. ASSUME NEW i \in Id PROVE Merge(docs).rows[i] <= n
  <2>1. PICK d \in docs : NewestRow(docs, i) = d.rows[i]
    BY NewestRowIsNewest
  <2>2. NewestRow(docs, i) <= n
    BY <2>1 DEF NoneAfter
  <2> QED  BY <2>2 DEF Merge
<1>2. ASSUME NEW t \in Merge(docs).tombs PROVE t.at <= n
  BY DEF Merge, NoneAfter
<1> QED  BY <1>1, <1>2 DEF NoneAfter

\* A document that absorbs the others is the merge of them: merging again changes nothing.
LEMMA AbsorbedMergeIsSame ==
    ASSUME NEW docs \in SUBSET Document, NEW d \in docs,
           \A e \in docs : Absorbs(d, e), RowsOutliveTombs(d), Writable(d)
    PROVE  Merge(docs) = d
<1> DEFINE L(i) == LatestTomb(docs, i)
           N(i) == NewestRow(docs, i)
<1>1. docs # {} /\ \A e \in docs : \A t \in e.tombs : t \in Tombstone /\ t.id \in Id /\ t.at \in Nat \ {0}
  BY MaxStampAssumption DEF Document, Tombstone, Stamp
<1>2. ASSUME NEW i \in Id
      PROVE  /\ L(i) \in Nat /\ N(i) \in Nat /\ d.rows[i] \in Nat
             /\ d.rows[i] <= N(i)
             /\ \A t \in d.tombs : t.id = i => t.at <= L(i)
             /\ L(i) = 0 \/ \E t \in d.tombs : t.id = i /\ t.at = L(i)
             /\ Knows(d, i, N(i))
  <2>1. L(i) \in Stamp \cup {0} /\ N(i) \in Stamp \cup {0} /\ d.rows[i] \in Stamp \cup {0}
    BY <1>1, NewestRowIsNewest, LatestTombIsLatest DEF Document
  <2>2. d.rows[i] <= N(i)
    BY <1>1, NewestRowIsNewest
  <2>3. \A e \in docs : \A t \in e.tombs : t.id = i => t.at <= L(i)
    BY LatestTombIsLatest
  <2>4. Knows(d, i, N(i))
    <3>1. PICK e \in docs : N(i) = e.rows[i]
      BY <1>1, NewestRowIsNewest
    <3> QED  BY <3>1 DEF Absorbs
  <2>5. L(i) \in Nat /\ N(i) \in Nat /\ d.rows[i] \in Nat
    <3> HIDE DEF L, N
    <3> QED  BY <2>1, MaxStampAssumption DEF Stamp
  <2>6. L(i) = 0 \/ \E t \in d.tombs : t.id = i /\ t.at = L(i)
    <3>1. SUFFICES ASSUME L(i) # 0 PROVE \E t \in d.tombs : t.id = i /\ t.at = L(i)
      OBVIOUS
    <3>2. PICK e \in docs : \E t \in e.tombs : t.id = i /\ t.at = L(i)
      BY <3>1, LatestTombIsLatest
    <3>3. PICK u \in e.tombs : u.id = i /\ u.at = L(i)
      BY <3>2
    <3>4. PICK t \in d.tombs : t.id = i /\ u.at <= t.at
      BY <3>2, <3>3 DEF Absorbs
    <3>5. t.at <= L(i) /\ t.at \in Nat
      BY <3>4, <2>3, <1>1
    <3> HIDE DEF L
    <3> QED  BY <3>3, <3>4, <3>5, <2>5
  <2> QED  BY <2>2, <2>3, <2>4, <2>5, <2>6
<1>3. Merge(docs) = [rows |-> [i \in Id |-> IF L(i) < N(i) THEN N(i) ELSE 0],
                     tombs |-> {t \in UNION {e.tombs : e \in docs} : t.at = L(t.id)}]
  BY DEF Merge
<1> HIDE DEF L, N
<1>4. ASSUME NEW i \in Id PROVE (IF L(i) < N(i) THEN N(i) ELSE 0) = d.rows[i]
  <2>1. CASE d.rows[i] # 0
    <3>1. \A t \in d.tombs : t.id = i => t.at < d.rows[i]
      BY <2>1 DEF RowsOutliveTombs, Live
    <3>2. L(i) < d.rows[i]
      BY <1>2, <2>1, <3>1
    <3>3. N(i) <= d.rows[i]
      <4>1. \A t \in d.tombs : t.id = i => t.at \in Nat /\ t.at < d.rows[i]
        BY <3>1, <1>1
      <4> QED  BY <1>2, <4>1, <2>1 DEF Knows
    <3> QED  BY <1>2, <3>2, <3>3
  <2>2. CASE d.rows[i] = 0
    <3>1. N(i) <= L(i)
      BY <1>1, <1>2, <2>2 DEF Knows
    <3> QED  BY <1>2, <2>2, <3>1
  <2> QED  BY <2>1, <2>2
<1>5. {t \in UNION {e.tombs : e \in docs} : t.at = L(t.id)} = d.tombs
  <2>1. ASSUME NEW e \in docs, NEW t \in e.tombs, t.at = L(t.id) PROVE t \in d.tombs
    <3>1. t \in Tombstone /\ t.id \in Id /\ t.at # 0
      BY <1>1
    <3>2. PICK u \in d.tombs : u.id = t.id /\ u.at = L(t.id)
      BY <1>2, <2>1, <3>1
    <3>3. u \in Tombstone
      BY <1>1
    <3>4. u = t
      BY <2>1, <3>1, <3>2, <3>3 DEF Tombstone
    <3> QED  BY <3>4
  <2>2. ASSUME NEW t \in d.tombs PROVE t.at = L(t.id)
    <3>1. t.id \in Id /\ t.at \in Nat \ {0} /\ t.at <= L(t.id)
      BY <1>1, <1>2
    <3>2. PICK u \in d.tombs : u.id = t.id /\ u.at = L(t.id)
      BY <1>2, <3>1
    <3> QED  BY <3>2 DEF Writable
  <2>3. d.tombs \subseteq UNION {e.tombs : e \in docs}
    OBVIOUS
  <2> QED  BY <2>1, <2>2, <2>3
<1>6. d = [rows |-> d.rows, tombs |-> d.tombs] /\ d.rows \in [Id -> Stamp \cup {0}]
  BY DEF Document
<1>7. [i \in Id |-> IF L(i) < N(i) THEN N(i) ELSE 0] = d.rows
  BY <1>4, <1>6
<1> QED  BY <1>3, <1>5, <1>6, <1>7

-----------------------------------------------------------------------------
(* One edit *)

\* The documents a write closure makes are documents.
LEMMA ChangeType ==
    ASSUME NEW d \in Document, NEW i \in Id, NEW s \in Stamp
    PROVE  WithRow(d, i, s) \in Document /\ WithoutRow(d, i, s) \in Document
<1>1. /\ d.rows \in [Id -> Stamp \cup {0}] /\ d.tombs \in SUBSET Tombstone
      /\ d = [rows |-> d.rows, tombs |-> d.tombs]
  BY DEF Document
<1>2. WithRow(d, i, s) = [rows |-> [d.rows EXCEPT ![i] = s], tombs |-> d.tombs]
  BY <1>1 DEF WithRow
<1>3. [id |-> i, at |-> s] \in Tombstone
  BY DEF Tombstone
<1> QED  BY <1>1, <1>2, <1>3 DEF WithoutRow, Document

\* ... as young as the edit.
LEMMA ChangeIsNoneAfter ==
    ASSUME NEW d \in Document, NEW i \in Id, NEW s \in Stamp, NEW n \in Nat,
           NoneAfter(d, n), n <= s
    PROVE  NoneAfter(WithRow(d, i, s), s) /\ NoneAfter(WithoutRow(d, i, s), s)
<1> s \in Nat
  BY MaxStampAssumption DEF Stamp
<1>1. d.rows \in [Id -> Nat] /\ \A t \in d.tombs : t.at \in Nat
  BY MaxStampAssumption DEF Document, Tombstone, Stamp
<1>2. \A j \in Id : d.rows[j] <= s
  BY <1>1 DEF NoneAfter
<1>3. \A t \in d.tombs : t.at <= s
  BY <1>1 DEF NoneAfter
<1>4. NoneAfter(WithRow(d, i, s), s)
  <2>1. WithRow(d, i, s).rows = [d.rows EXCEPT ![i] = s] /\ WithRow(d, i, s).tombs = d.tombs
    BY DEF WithRow, Document
  <2> QED  BY <2>1, <1>1, <1>2, <1>3 DEF NoneAfter
<1>5. NoneAfter(WithoutRow(d, i, s), s)
  BY <1>1, <1>2, <1>3 DEF WithoutRow, NoneAfter
<1> QED  BY <1>4, <1>5

\* An edit or a deletion loses nothing that was known.
LEMMA ChangeAbsorbs ==
    ASSUME NEW prev \in Document, NEW next, IsChange(prev, next)
    PROVE  Absorbs(next, prev)
<1>1. PICK i \in Id, s \in Stamp :
           /\ NoneAfter(prev, s - 1)
           /\ \/ next = WithRow(prev, i, s)
              \/ Live(prev, i) /\ next = WithoutRow(prev, i, s)
  BY DEF IsChange
<1>2. /\ s \in Nat /\ prev.rows \in [Id -> Nat] /\ \A t \in prev.tombs : t.at \in Nat
      /\ prev = [rows |-> prev.rows, tombs |-> prev.tombs]
      /\ \A j \in Id : prev.rows[j] < s
  BY <1>1, MaxStampAssumption DEF Document, Tombstone, Stamp, NoneAfter
<1>3. CASE next = WithRow(prev, i, s)
  <2>1. next.tombs = prev.tombs /\ next.rows = [prev.rows EXCEPT ![i] = s]
    BY <1>2, <1>3 DEF WithRow
  <2> QED  BY <1>2, <2>1 DEF Absorbs, Knows
<1>4. CASE next = WithoutRow(prev, i, s)
  <2> DEFINE gone == [id |-> i, at |-> s]
  <2>1. next.tombs = prev.tombs \cup {gone} /\ next.rows = [prev.rows EXCEPT ![i] = 0]
    BY <1>4 DEF WithoutRow
  <2>2. gone \in next.tombs /\ gone.id = i /\ gone.at = s
    BY <2>1
  <2> HIDE DEF gone
  <2>3. \A j \in Id : Knows(next, j, prev.rows[j])
    BY <1>2, <2>1, <2>2 DEF Knows
  <2> QED  BY <1>2, <2>1, <2>3 DEF Absorbs
<1> QED  BY <1>1, <1>3, <1>4

LEMMA ChangeCovers ==
    ASSUME NEW prev \in Document, NEW next \in Document, IsChange(prev, next)
    PROVE  Covers(next, prev)
BY ChangeAbsorbs, AbsorbsCovers

\* It leaves rows newer than the deletions of their entities, no edit with the stamp of a
\* deletion, and knows of something newer than a version it deletes.
LEMMA ChangeKeepsOrder ==
    ASSUME NEW prev \in Document, NEW next, IsChange(prev, next), RowsOutliveTombs(prev)
    PROVE  RowsOutliveTombs(next)
<1>1. PICK i \in Id, s \in Stamp :
           /\ NoneAfter(prev, s - 1)
           /\ \/ next = WithRow(prev, i, s)
              \/ Live(prev, i) /\ next = WithoutRow(prev, i, s)
  BY DEF IsChange
<1>2. /\ s \in Nat /\ prev.rows \in [Id -> Nat] /\ \A t \in prev.tombs : t.at \in Nat
      /\ prev = [rows |-> prev.rows, tombs |-> prev.tombs]
      /\ \A t \in prev.tombs : t.at < s
  BY <1>1, MaxStampAssumption DEF Document, Tombstone, Stamp, NoneAfter
<1>3. CASE next = WithRow(prev, i, s)
  <2>1. next.tombs = prev.tombs /\ next.rows = [prev.rows EXCEPT ![i] = s]
    BY <1>2, <1>3 DEF WithRow
  <2> QED  BY <1>2, <2>1 DEF RowsOutliveTombs, Live
<1>4. CASE next = WithoutRow(prev, i, s)
  <2> DEFINE gone == [id |-> i, at |-> s]
  <2>1. next.tombs = prev.tombs \cup {gone} /\ next.rows = [prev.rows EXCEPT ![i] = 0]
    BY <1>4 DEF WithoutRow
  <2>2. gone.id = i
    OBVIOUS
  <2> HIDE DEF gone
  <2> QED  BY <1>2, <2>1, <2>2 DEF RowsOutliveTombs, Live
<1> QED  BY <1>1, <1>3, <1>4

-----------------------------------------------------------------------------
(* Writing a document over a file *)

\* Whatever a file holds, writing a document over it gives a document.
LEMMA WriteSinceType ==
    ASSUME NEW file \in Document, NEW prev \in Document, NEW next \in Document
    PROVE  WriteSince(file, prev, next) \in Document
BY DEF WriteSince, Patch, Document

\* ... no younger than the two.
LEMMA WriteSinceIsNoneAfter ==
    ASSUME NEW file \in Document, NEW prev \in Document, NEW next \in Document,
           NEW n \in Nat, NoneAfter(file, n), NoneAfter(next, n)
    PROVE  NoneAfter(WriteSince(file, prev, next), n)
<1>1. NoneAfter(Patch(file, prev, next), n)
  BY DEF Patch, NoneAfter
<1> QED  BY <1>1 DEF WriteSince

\* Over the document it was made from, or over itself, it is written exactly.
LEMMA WriteSinceIsExact ==
    ASSUME NEW prev \in Document, NEW next \in Document, NEW file \in {prev, next}
    PROVE  WriteSince(file, prev, next) = next
<1>1. Patch(file, prev, next).rows = next.rows
  BY DEF Patch, Document
<1>2. Patch(file, prev, next).tombs = next.tombs
  <2>1. \A t \in Tombstone :
           t \in Patch(file, prev, next).tombs <=> t \in next.tombs
    BY DEF Patch
  <2>2. Patch(file, prev, next).tombs \subseteq Tombstone
    BY DEF Patch, Document
  <2>3. next.tombs \subseteq Tombstone
    BY DEF Document
  <2> QED  BY <2>1, <2>2, <2>3, Zenon
<1>3. Patch(file, prev, next) \in Document
  BY DEF Patch, Document
<1>4. Patch(file, prev, next) = next
  BY <1>1, <1>2, <1>3 DEF Document
<1> QED  BY <1>4 DEF WriteSince

\* Over a file that holds more than the document it was made from, the file ends up
\* holding all of it.
LEMMA WriteSinceCovers ==
    ASSUME NEW file \in Document, NEW prev \in Document, NEW next \in Document,
           Covers(file, prev), IsChange(prev, next)
    PROVE  Covers(WriteSince(file, prev, next), next)
<1>1. PICK i \in Id, s \in Stamp :
           /\ NoneAfter(prev, s - 1)
           /\ \/ next = WithRow(prev, i, s)
              \/ Live(prev, i) /\ next = WithoutRow(prev, i, s)
  BY DEF IsChange
<1>2. s \in Nat /\ s # 0
  BY MaxStampAssumption DEF Stamp
<1>3. /\ prev.rows \in [Id -> Nat] /\ file.rows \in [Id -> Nat]
      /\ \A t \in prev.tombs : t.at \in Nat
      /\ prev.rows[i] < s
      /\ \A t \in prev.tombs : t.at < s
  BY <1>1, <1>2, MaxStampAssumption DEF Document, Tombstone, Stamp, NoneAfter
<1> DEFINE P == Patch(file, prev, next)
<1>4. ASSUME NEW j \in Id, NEW r \in Stamp, Knows(next, j, r)
      PROVE  Knows(P, j, r)
  <2>1. r \in Nat /\ r # 0
    BY MaxStampAssumption DEF Stamp
  <2>2. CASE next = WithRow(prev, i, s)
    <3>1. /\ next.tombs = prev.tombs
          /\ next.rows = [prev.rows EXCEPT ![i] = s]
      BY <2>2 DEF WithRow, Document
    <3>2. P.tombs = file.tombs
      BY <3>1 DEF Patch
    <3>3. CASE j = i
      <4>1. P.rows[j] = s
        BY <3>1, <3>3, <1>2, <1>3 DEF Patch
      <4>2. r <= s
        BY <3>1, <3>3, <2>1, <1>2, <1>3, <1>4 DEF Knows
      <4> QED  BY <4>1, <4>2 DEF Knows
    <3>4. CASE j # i
      <4>1. P.rows[j] = file.rows[j]
        BY <3>1, <3>4, <1>3 DEF Patch
      <4>2. Knows(prev, j, r)
        BY <3>1, <3>4, <1>3, <1>4 DEF Knows
      <4>3. Knows(file, j, r)
        BY <4>2 DEF Covers
      <4> QED  BY <3>2, <4>1, <4>3 DEF Knows
    <3> QED  BY <3>3, <3>4
  <2>3. CASE Live(prev, i) /\ next = WithoutRow(prev, i, s)
    <3> DEFINE gone == [id |-> i, at |-> s]
    <3>1. /\ next.tombs = prev.tombs \cup {gone}
          /\ next.rows = [prev.rows EXCEPT ![i] = 0]
      BY <2>3 DEF WithoutRow
    <3>2. gone \in next.tombs \ prev.tombs
      BY <3>1, <1>2, <1>3
    <3>3. P.tombs = {t \in file.tombs : t.id # i} \cup {t \in next.tombs : t.id = i}
      <4>1. \A t \in (prev.tombs \ next.tombs) \cup (next.tombs \ prev.tombs) : t = gone
        BY <3>1
      <4>2. {t.id : t \in (prev.tombs \ next.tombs) \cup (next.tombs \ prev.tombs)} = {i}
        BY <4>1, <3>2
      <4> HIDE DEF gone
      <4> QED  BY <4>2 DEF Patch
    <3>4. CASE j = i
      <4>1. gone \in P.tombs /\ gone.id = j /\ gone.at = s
        BY <3>2, <3>3, <3>4
      <4>2. r <= s
        BY <3>1, <3>4, <2>1, <1>2, <1>3, <1>4 DEF Knows
      <4> QED  BY <4>1, <4>2 DEF Knows
    <3>5. CASE j # i
      <4>1. P.rows[j] = file.rows[j]
        BY <3>1, <3>5, <1>3 DEF Patch
      <4>2. Knows(prev, j, r)
        BY <3>1, <3>5, <1>3, <1>4 DEF Knows
      <4>3. Knows(file, j, r)
        BY <4>2 DEF Covers
      <4> QED  BY <3>3, <3>5, <4>1, <4>3 DEF Knows
    <3> QED  BY <3>4, <3>5
  <2> QED  BY <1>1, <2>2, <2>3
<1>5. Covers(P, next)
  BY <1>4 DEF Covers
<1> QED  BY <1>5, CoversReflexive DEF WriteSince

\* A write that goes through leaves a document whose every row can be written.
LEMMA WriteSinceIsWritable ==
    ASSUME NEW file, NEW prev, NEW next, Writable(prev), ~WriteSinceFails(file, prev, next)
    PROVE  Writable(next)
BY DEF WriteSinceFails, DeltaApplies, TombsDeltaApplies, Writable
=============================================================================
