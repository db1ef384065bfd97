---------------------------- MODULE SaTableProofs ----------------------------
(***************************************************************************)
(* Lemmas about the operators of SaTable, for the proofs about the modules *)
(* that hold tables.                                                       *)
(***************************************************************************)
EXTENDS SaTable, FiniteSetTheorems, TLAPS

----------------------------------------------------------------------------
(* Facts about the operators of SaTable *)

\* The all-zero struct is a clean, empty table.
LEMMA InitIsTable ==
  ASSUME NEW E
  PROVE  IsTable(sa_table_init, E) /\ IsClean(sa_table_init)
BY DEF IsTable, IsClean, sa_table_init

\* A successful grow keeps every entry, clears what it adds and ends just
\* past the index.
LEMMA GrowSafe ==
  ASSUME NEW E, NEW tp, IsTable(tp, E), IsClean(tp),
         NEW index \in Nat, index >= tp.st_limit
  PROVE  LET g == sa_table_grow(tp, index)
         IN  /\ IsTable(g, E)
             /\ IsClean(g)
             /\ g.st_limit = index + 1
             /\ \A j \in 0 .. tp.st_limit - 1 : g.st_table[j] = tp.st_table[j]
             /\ \A j \in tp.st_limit .. index : g.st_table[j] = NULL
<1> USE GrowthAssumption DEF IsTable, IsClean, sa_table_grow
<1>1. CASE index >= tp.st_size
  BY <1>1
<1>2. CASE index < tp.st_size
  BY <1>2
<1> QED BY <1>1, <1>2

\* Storing in a visible slot changes what that index looks up and nothing
\* else.
LEMMA StoreSafe ==
  ASSUME NEW E, NEW tp, IsTable(tp, E), IsClean(tp),
         NEW index \in 0 .. tp.st_limit - 1, NEW ep \in E
  PROVE  LET s == [tp EXCEPT !.st_table[index] = ep]
         IN  /\ IsTable(s, E)
             /\ IsClean(s)
             /\ s.st_limit = tp.st_limit
             /\ s.st_table = [tp.st_table EXCEPT ![index] = ep]
<1> DEFINE s == [tp EXCEPT !.st_table[index] = ep]
<1>1. s = [st_size |-> tp.st_size, st_limit |-> tp.st_limit,
           st_table |-> [tp.st_table EXCEPT ![index] = ep]]
  <2>1. PICK n, l, f : tp = [st_size |-> n, st_limit |-> l, st_table |-> f]
    BY DEF IsTable
  <2>2. s = [st_size |-> n, st_limit |-> l,
             st_table |-> [f EXCEPT ![index] = ep]]
    BY <2>1
  <2> QED
    BY <2>1, <2>2
<1>2. /\ s.st_size = tp.st_size
      /\ s.st_limit = tp.st_limit
      /\ s.st_table = [tp.st_table EXCEPT ![index] = ep]
  BY <1>1
<1> HIDE DEF s
<1>3. IsTable(s, E)
  BY <1>1, <1>2 DEF IsTable
<1>4. IsClean(s)
  BY <1>2 DEF IsTable, IsClean
<1> QED
  BY <1>2, <1>3, <1>4 DEF s

\* What an insert does, seen through sa_table_lookup: on success exactly the
\* given index changes, on failure nothing does, and only an index past the
\* limit can fail.
LEMMA InsertSafe ==
  ASSUME NEW E, NEW tp, IsTable(tp, E), IsClean(tp),
         NEW index \in Nat, NEW ep \in E, NEW ok \in BOOLEAN
  PROVE  LET res == sa_table_insert(tp, index, ep, ok)
         IN  /\ IsTable(res.tp, E)
             /\ IsClean(res.tp)
             /\ \/ /\ res.rc = -1
                   /\ res.tp = tp
                   /\ index >= tp.st_limit
                \/ /\ res.rc = index
                   /\ res.tp.st_limit =
                        IF index < tp.st_limit THEN tp.st_limit ELSE index + 1
                   /\ \A j \in Nat : sa_table_lookup(res.tp, j) =
                        IF j = index THEN ep ELSE sa_table_lookup(tp, j)
<1> DEFINE res == sa_table_insert(tp, index, ep, ok)
           g   == sa_table_grow(tp, index)
           s   == [tp EXCEPT !.st_table[index] = ep]
           t   == [g EXCEPT !.st_table[index] = ep]
<1>0. tp.st_limit \in Nat
  BY DEF IsTable
<1>1. CASE index < tp.st_limit
  <2>1. res.tp = s /\ res.rc = index
    BY <1>0, <1>1 DEF sa_table_insert
  <2>2. /\ IsTable(s, E)
        /\ IsClean(s)
        /\ s.st_limit = tp.st_limit
        /\ s.st_table = [tp.st_table EXCEPT ![index] = ep]
    BY <1>0, <1>1, StoreSafe
  <2>3. \A j \in Nat : sa_table_lookup(s, j) =
                        IF j = index THEN ep ELSE sa_table_lookup(tp, j)
    <3> HIDE DEF s
    <3> QED BY <1>0, <1>1, <2>2 DEF IsTable, sa_table_lookup
  <2> HIDE DEF s, res
  <2>4. QED
    BY <1>1, <2>1, <2>2, <2>3 DEF res
<1>2. CASE index >= tp.st_limit /\ GrowFails(tp, index, ok)
  <2>1. res.tp = tp /\ res.rc = -1
    BY <1>2 DEF sa_table_insert
  <2> HIDE DEF res
  <2>2. QED
    BY <1>2, <2>1 DEF res
<1>3. CASE index >= tp.st_limit /\ ~GrowFails(tp, index, ok)
  <2>1. res.tp = t /\ res.rc = index
    BY <1>3 DEF sa_table_insert
  <2>2. /\ IsTable(g, E)
        /\ IsClean(g)
        /\ g.st_limit = index + 1
        /\ \A j \in 0 .. tp.st_limit - 1 : g.st_table[j] = tp.st_table[j]
        /\ \A j \in tp.st_limit .. index : g.st_table[j] = NULL
    BY <1>3, GrowSafe
  <2> HIDE DEF g
  <2>3. /\ IsTable(t, E)
        /\ IsClean(t)
        /\ t.st_limit = index + 1
        /\ t.st_table = [g.st_table EXCEPT ![index] = ep]
    BY <2>2, StoreSafe
  <2> HIDE DEF t
  <2>4. \A j \in Nat : sa_table_lookup(t, j) =
                        IF j = index THEN ep ELSE sa_table_lookup(tp, j)
    BY <1>0, <1>3, <2>2, <2>3 DEF IsTable, sa_table_lookup
  <2> HIDE DEF res
  <2>5. QED
    BY <1>0, <1>3, <2>1, <2>3, <2>4 DEF res
<1> QED
  BY <1>0, <1>1, <1>2, <1>3

\* What the accessors see after an insert: the entries of the table are the
\* old ones, less the one that was replaced, and the new one.
LEMMA InsertEntries ==
  ASSUME NEW E, NEW tp, IsTable(tp, E), IsClean(tp),
         NEW index \in Nat, NEW ep \in E, NEW ok \in BOOLEAN
  PROVE  Entries(sa_table_insert(tp, index, ep, ok).tp)
           \subseteq Entries(tp) \cup {ep}
<1> DEFINE res == sa_table_insert(tp, index, ep, ok)
<1>1. /\ IsTable(res.tp, E)
      /\ \/ res.tp = tp
         \/ \A j \in Nat : sa_table_lookup(res.tp, j) =
                             IF j = index THEN ep ELSE sa_table_lookup(tp, j)
  BY InsertSafe
<1> HIDE DEF res
<1> SUFFICES ASSUME NEW e \in Entries(res.tp), res.tp # tp
             PROVE  e \in Entries(tp) \cup {ep}
  BY DEF res
<1>2. PICK i \in UsedSlots(res.tp) : e = res.tp.st_table[i]
  BY DEF Entries
<1>3. i \in Nat /\ sa_table_lookup(res.tp, i) = e /\ e # NULL
  BY <1>1, <1>2 DEF UsedSlots, IsTable, sa_table_lookup
<1>4. CASE i = index
  BY <1>1, <1>3, <1>4
<1>5. CASE i # index
  <2>1. sa_table_lookup(tp, i) = e
    BY <1>1, <1>3, <1>5
  <2>2. i \in UsedSlots(tp) /\ e = tp.st_table[i]
    BY <1>3, <2>1 DEF UsedSlots, IsTable, sa_table_lookup
  <2> QED
    BY <2>2 DEF Entries
<1> QED
  BY <1>4, <1>5

\* A destroyed table has no entries.
LEMMA InitEntries == Entries(sa_table_init) = {}
BY DEF Entries, UsedSlots, sa_table_init

\* The used slots are the indices whose lookup is not null.
LEMMA UsedLookup ==
  ASSUME NEW E, NEW tp, IsTable(tp, E), NEW i
  PROVE  /\ i \in UsedSlots(tp) => /\ i \in Nat
                                  /\ tp.st_table[i] = sa_table_lookup(tp, i)
                                  /\ sa_table_lookup(tp, i) # NULL
         /\ i \in Nat /\ sa_table_lookup(tp, i) # NULL => i \in UsedSlots(tp)
BY DEF IsTable, UsedSlots, sa_table_lookup

\* The entries are what the lookups find.
LEMMA EntriesLookup ==
  ASSUME NEW E, NEW tp, IsTable(tp, E), NEW e
  PROVE  e \in Entries(tp) <=>
           e # NULL /\ \E i \in Nat : sa_table_lookup(tp, i) = e
<1>1. ASSUME e \in Entries(tp)
      PROVE  e # NULL /\ \E i \in Nat : sa_table_lookup(tp, i) = e
  <2>1. PICK i \in UsedSlots(tp) : e = tp.st_table[i]
    BY <1>1 DEF Entries
  <2> QED
    BY <2>1, UsedLookup
<1>2. ASSUME e # NULL, NEW i \in Nat, sa_table_lookup(tp, i) = e
      PROVE  e \in Entries(tp)
  <2>1. i \in UsedSlots(tp) /\ tp.st_table[i] = e
    BY <1>2, UsedLookup
  <2> QED
    BY <2>1 DEF Entries
<1> QED
  BY <1>1, <1>2

\* A lookup finds an entry of the right type, or null.
LEMMA LookupType ==
  ASSUME NEW E, NEW tp, IsTable(tp, E), NEW i \in Nat
  PROVE  sa_table_lookup(tp, i) \in E \cup {NULL}
BY DEF IsTable, sa_table_lookup

\* An insert in a free place adds its entry and keeps the others.
LEMMA InsertFree ==
  ASSUME NEW E, NULL \notin E, NEW tp, IsTable(tp, E), IsClean(tp),
         NEW index \in Nat, NEW ep \in E, NEW ok \in BOOLEAN,
         sa_table_lookup(tp, index) = NULL,
         sa_table_insert(tp, index, ep, ok).rc # -1
  PROVE  Entries(sa_table_insert(tp, index, ep, ok).tp)
           = Entries(tp) \cup {ep}
<1> DEFINE res == sa_table_insert(tp, index, ep, ok)
<1>1. /\ IsTable(res.tp, E)
      /\ \A j \in Nat : sa_table_lookup(res.tp, j) =
                           IF j = index THEN ep ELSE sa_table_lookup(tp, j)
  BY InsertSafe
<1> HIDE DEF res
<1>2. \A e : e \in Entries(res.tp) <=> e \in Entries(tp) \cup {ep}
  <2> TAKE e
  <2>1. e \in Entries(res.tp) <=>
          e # NULL /\ \E i \in Nat : sa_table_lookup(res.tp, i) = e
    BY <1>1, EntriesLookup
  <2>2. e \in Entries(tp) <=>
          e # NULL /\ \E i \in Nat : sa_table_lookup(tp, i) = e
    BY EntriesLookup
  <2> QED
    BY <1>1, <2>1, <2>2
<1> QED
  BY <1>2 DEF res

\* An append that succeeds fills the place past the limit, which is free.
LEMMA AppendSafe ==
  ASSUME NEW E, NULL \notin E, NEW tp, IsTable(tp, E), IsClean(tp),
         NEW ep \in E, NEW ok \in BOOLEAN,
         sa_table_append(tp, ep, ok).rc # -1
  PROVE  LET t == sa_table_append(tp, ep, ok).tp
         IN  /\ IsTable(t, E)
             /\ IsClean(t)
             /\ Entries(t) = Entries(tp) \cup {ep}
             /\ \A j \in Nat : sa_table_lookup(t, j) =
                  IF j = tp.st_limit THEN ep ELSE sa_table_lookup(tp, j)
<1> DEFINE res == sa_table_insert(tp, tp.st_limit, ep, ok)
<1>1. tp.st_limit \in Nat /\ sa_table_lookup(tp, tp.st_limit) = NULL
  BY DEF IsTable, sa_table_lookup
<1>2. res = sa_table_append(tp, ep, ok) /\ res.rc # -1
  BY DEF sa_table_append
<1>3. Entries(res.tp) = Entries(tp) \cup {ep}
  BY <1>1, <1>2, InsertFree
<1>4. /\ IsTable(res.tp, E)
      /\ IsClean(res.tp)
      /\ \A j \in Nat : sa_table_lookup(res.tp, j) =
           IF j = tp.st_limit THEN ep ELSE sa_table_lookup(tp, j)
  BY <1>1, <1>2, InsertSafe
<1> HIDE DEF res
<1> QED
  BY <1>2, <1>3, <1>4

----------------------------------------------------------------------------
(* Enumeration by position *)

\* The used slots of a table are finitely many indices.
LEMMA UsedFinite ==
  ASSUME NEW E, NEW tp, IsTable(tp, E)
  PROVE  /\ UsedSlots(tp) \subseteq Nat
         /\ IsFiniteSet(UsedSlots(tp))
         /\ Cardinality(UsedSlots(tp)) \in Nat
<1>1. tp.st_limit \in Nat
  BY DEF IsTable
<1>2. IsFiniteSet(0 .. tp.st_limit - 1)
  BY <1>1, FS_Interval
<1>3. UsedSlots(tp) \subseteq 0 .. tp.st_limit - 1
  BY DEF UsedSlots
<1> QED
  BY <1>1, <1>2, <1>3, FS_Subset, FS_CardinalityType

\* In a finite set of naturals the number of smaller members is the position
\* of a member: it runs over 0 .. n - 1 and tells the members apart.
LEMMA Positions ==
  ASSUME NEW S \in SUBSET Nat, IsFiniteSet(S)
  PROVE  LET n    == Cardinality(S)
             rank == [i \in S |-> Cardinality({j \in S : j < i})]
         IN  /\ rank \in Surjection(S, 0 .. n - 1)
             /\ rank \in Injection(S, 0 .. n - 1)
<1> DEFINE n    == Cardinality(S)
           below(i) == {j \in S : j < i}
           rank == [i \in S |-> Cardinality(below(i))]
<1>1. n \in Nat
  BY FS_CardinalityType
<1>2. ASSUME NEW i \in S
      PROVE  /\ IsFiniteSet(below(i)) /\ rank[i] = Cardinality(below(i))
             /\ rank[i] \in 0 .. n - 1
  <2>1. below(i) \in SUBSET (S \ {i})
    OBVIOUS
  <2>2. IsFiniteSet(S \ {i}) /\ Cardinality(S \ {i}) = n - 1
    BY FS_RemoveElement
  <2>3. IsFiniteSet(below(i)) /\ Cardinality(below(i)) <= n - 1
    BY <2>1, <2>2, FS_Subset
  <2>4. Cardinality(below(i)) \in Nat
    BY <2>3, FS_CardinalityType
  <2> QED
    BY <1>1, <2>3, <2>4
<1>3. ASSUME NEW i \in S, NEW k \in S, i < k
      PROVE  rank[i] < rank[k]
  <2>1. below(i) \cup {i} \in SUBSET below(k) /\ i \notin below(i)
    <3>1. i \in Nat /\ k \in Nat /\ \A j \in S : j \in Nat
      OBVIOUS
    <3>2. \A j \in S : j < i => j < k
      BY <1>3, <3>1
    <3>3. ~(i < i)
      BY <3>1
    <3> QED
      BY <1>3, <3>2, <3>3
  <2>2. Cardinality(below(i) \cup {i}) = Cardinality(below(i)) + 1
    BY <1>2, <2>1, FS_AddElement
  <2>3. Cardinality(below(i) \cup {i}) <= Cardinality(below(k))
    BY <1>2, <2>1, FS_Subset
  <2>4. rank[i] \in Nat /\ rank[k] \in Nat
        /\ rank[i] = Cardinality(below(i)) /\ rank[k] = Cardinality(below(k))
    BY <1>1, <1>2
  <2> HIDE DEF below, rank
  <2> QED
    BY <2>2, <2>3, <2>4
<1>4. rank \in [S -> 0 .. n - 1]
  <2>1. rank = [i \in S |-> rank[i]]
    OBVIOUS
  <2> HIDE DEF rank, n, below
  <2> QED
    BY <1>2, <2>1
<1>5. \A i, k \in S : rank[i] = rank[k] => i = k
  <2> HIDE DEF rank, n, below
  <2>1. \A i \in S : rank[i] \in Nat
    BY <1>1, <1>2
  <2> QED
    BY <1>3, <2>1
<1> HIDE DEF rank, n, below
<1>6. rank \in Injection(S, 0 .. n - 1)
  BY <1>4, <1>5 DEF Injection, IsInjective
<1>7. IsFiniteSet(0 .. n - 1) /\ Cardinality(0 .. n - 1) = n
  BY <1>1, FS_Interval
<1>8. rank \in Surjection(S, 0 .. n - 1)
  BY <1>6, <1>7, FS_Injection DEF n
<1> QED
  BY <1>6, <1>8 DEF rank, n, below

\* sa_table_lookup_n finds each entry at one position, and null after them.
LEMMA LookupNVisitsAll ==
  ASSUME NEW E, NEW tp, IsTable(tp, E)
  PROVE  LET n == Cardinality(UsedSlots(tp))
         IN  /\ {sa_table_lookup_n(tp, k) : k \in 0 .. n - 1} = Entries(tp)
             /\ sa_table_lookup_n(tp, n) = NULL
<1> DEFINE S    == UsedSlots(tp)
           n    == Cardinality(S)
           rank == [i \in S |-> Cardinality({j \in S : j < i})]
           nth(k) == {i \in S : Cardinality({j \in S : j < i}) = k}
<1>1. S \subseteq Nat /\ IsFiniteSet(S) /\ n \in Nat
  BY UsedFinite
<1>2. rank \in Surjection(S, 0 .. n - 1) /\ rank \in Injection(S, 0 .. n - 1)
  BY <1>1, Positions
<1>3. \A k : sa_table_lookup_n(tp, k) =
               IF nth(k) = {} THEN NULL
               ELSE tp.st_table[CHOOSE i \in nth(k) : TRUE]
  BY Zenon DEF sa_table_lookup_n
<1>4. \A k : nth(k) = {i \in S : rank[i] = k}
  OBVIOUS
<1> HIDE DEF rank, S, n, nth
<1>5. ASSUME NEW i \in S
      PROVE  rank[i] \in 0 .. n - 1 /\ sa_table_lookup_n(tp, rank[i]) = tp.st_table[i]
  <2>1. rank[i] \in 0 .. n - 1
    BY <1>2 DEF Injection
  <2>2. nth(rank[i]) = {i}
    BY <1>2, <1>4 DEF Injection, IsInjective
  <2> QED
    BY <1>3, <2>1, <2>2
<1>6. ASSUME NEW k \in 0 .. n - 1
      PROVE  \E i \in S : rank[i] = k
  BY <1>2 DEF Surjection
<1>7. {sa_table_lookup_n(tp, k) : k \in 0 .. n - 1} = {tp.st_table[i] : i \in S}
  BY <1>5, <1>6
<1>8. sa_table_lookup_n(tp, n) = NULL
  <2>1. n \notin 0 .. n - 1
    BY <1>1
  <2>2. nth(n) = {}
    BY <1>5, <1>4, <2>1
  <2> QED
    BY <1>3, <2>2
<1> QED
  BY <1>7, <1>8 DEF Entries, S, n


============================================================================
