---------------------------- MODULE TableProofs ----------------------------
(***************************************************************************)
(* Theorems about the table of the library, for every growth step, every   *)
(* set of entries and every bound on the indices.                          *)
(***************************************************************************)
EXTENDS TableMachine, SaTableProofs, TLAPS

----------------------------------------------------------------------------
(* The invariant of one table *)

\* A store of an allocated entry keeps the invariant.
LEMMA StorePreservesInv ==
  ASSUME TableInv, NEW index \in 0 .. MaxIndex, NEW e \in live,
         NEW ok \in BOOLEAN, Store(sa_table_insert(tab, index, e, ok))
  PROVE  TableInv'
<1> DEFINE res == sa_table_insert(tab, index, e, ok)
<1>0. /\ IsTable(tab, Entry) /\ IsClean(tab) /\ tab.st_limit <= MaxIndex + 1
      /\ e \in Entry /\ index \in Nat /\ index <= MaxIndex
      /\ Entries(tab) \subseteq live /\ live \subseteq Entry
      /\ tab.st_limit \in Nat
  BY MaxIndexAssumption DEF TableInv, TypeOK, TailIsNull, NoDangling, IsTable
<1>1. tab' = res.tp /\ ret' = res.rc /\ live' = live
  BY DEF Store
<1>2. /\ IsTable(res.tp, Entry) /\ IsClean(res.tp)
      /\ \/ res.rc = -1 /\ res.tp = tab
         \/ /\ res.rc = index
            /\ res.tp.st_limit =
                 IF index < tab.st_limit THEN tab.st_limit ELSE index + 1
  BY <1>0, InsertSafe
<1>3. Entries(res.tp) \subseteq Entries(tab) \cup {e}
  BY <1>0, InsertEntries
<1> HIDE DEF res
<1>4. TypeOK'
  BY <1>0, <1>1, <1>2, MaxIndexAssumption DEF TypeOK
<1>5. TailIsNull'
  BY <1>1, <1>2 DEF TailIsNull
<1>6. NoDangling'
  BY <1>0, <1>1, <1>3 DEF NoDangling
<1> QED
  BY <1>4, <1>5, <1>6 DEF TableInv

\* A table that has just been destroyed satisfies the invariant again.
LEMMA DestroyPreservesInv ==
  ASSUME TableInv, tab' = sa_table_destroy(tab), live' \in SUBSET Entry,
         UNCHANGED ret
  PROVE  TableInv'
<1>1. tab' = sa_table_init
  BY DEF sa_table_destroy
<1>2. tab'.st_limit = 0
  BY <1>1 DEF sa_table_init
<1>3. TypeOK'
  BY <1>1, <1>2, InitIsTable, MaxIndexAssumption DEF TableInv, TypeOK
<1>4. TailIsNull' /\ NoDangling'
  BY <1>1, InitIsTable, InitEntries DEF TailIsNull, NoDangling
<1> QED
  BY <1>3, <1>4 DEF TableInv

\* Every call keeps the table consistent, its tail null and its entries
\* allocated: sa_table_insert, sa_table_append, sa_table_destroy and
\* sa_table_destroy_all in any order, with any realloc failing.
THEOREM TableInvariant == Spec => []TableInv
<1>1. Init => TableInv
  <2> SUFFICES ASSUME Init PROVE TableInv
    OBVIOUS
  <2>1. tab.st_limit = 0
    BY DEF Init, sa_table_init
  <2> QED
    BY <2>1, InitIsTable, InitEntries, MaxIndexAssumption
    DEF Init, TableInv, TypeOK, TailIsNull, NoDangling
<1>2. TableInv /\ [Next]_vars => TableInv'
  <2> SUFFICES ASSUME TableInv, [Next]_vars PROVE TableInv'
    OBVIOUS
  <2>1. ASSUME NEW e \in Entry, Alloc(e) PROVE TableInv'
    BY <2>1 DEF Alloc, TableInv, TypeOK, TailIsNull, NoDangling
  <2>2. ASSUME NEW e \in Entry, Free(e) PROVE TableInv'
    BY <2>2 DEF Free, TableInv, TypeOK, TailIsNull, NoDangling
  <2>3. ASSUME NEW e \in Entry, Append(e) PROVE TableInv'
    <3>1. PICK ok \in BOOLEAN :
            Store(sa_table_insert(tab, tab.st_limit, e, ok))
      BY <2>3 DEF Append, sa_table_append
    <3>2. e \in live /\ tab.st_limit \in 0 .. MaxIndex
      BY <2>3, MaxIndexAssumption DEF Append, TableInv, TypeOK, IsTable
    <3> QED
      BY <3>1, <3>2, StorePreservesInv
  <2>4. ASSUME NEW e \in Entry, NEW index \in 0 .. MaxIndex, Insert(index, e)
        PROVE  TableInv'
    <3>1. PICK ok \in BOOLEAN : Store(sa_table_insert(tab, index, e, ok))
      BY <2>4 DEF Insert
    <3>2. e \in live
      BY <2>4 DEF Insert
    <3> QED
      BY <3>1, <3>2, StorePreservesInv
  <2>5. ASSUME Destroy PROVE TableInv'
    BY <2>5, DestroyPreservesInv DEF Destroy, TableInv, TypeOK
  <2>6. ASSUME DestroyAll PROVE TableInv'
    BY <2>6, DestroyPreservesInv DEF DestroyAll, TableInv, TypeOK
  <2>7. CASE UNCHANGED vars
    BY <2>7 DEF vars, TableInv, TypeOK, TailIsNull, NoDangling
  <2> QED
    BY <2>1, <2>2, <2>3, <2>4, <2>5, <2>6, <2>7 DEF Next
<1> QED
  BY <1>1, <1>2, PTL DEF Spec

\* After any calls the slots past the limit are null.
THEOREM TailTheorem == Spec => []TailIsNull
<1>1. TableInv => TailIsNull
  BY DEF TableInv
<1> QED
  BY <1>1, TableInvariant, PTL

\* The table never holds a freed entry.
THEOREM NoDanglingTheorem == Spec => []NoDangling
<1>1. TableInv => NoDangling
  BY DEF TableInv
<1> QED
  BY <1>1, TableInvariant, PTL

----------------------------------------------------------------------------
(* The table implements the growing map *)

\* A store is a Put of the abstract map, or a failure that changes nothing
\* and that only an index past the limit can meet.
LEMMA StoreRefines ==
  ASSUME TableInv, NEW index \in 0 .. MaxIndex, NEW e \in Entry,
         NEW ok \in BOOLEAN, Store(sa_table_insert(tab, index, e, ok))
  PROVE  IM!Put(index, e) \/ IM!PutFails(index)
<1> DEFINE res == sa_table_insert(tab, index, e, ok)
<1>0. /\ IsTable(tab, Entry) /\ IsClean(tab)
      /\ index \in Nat /\ tab.st_limit \in Nat
  BY MaxIndexAssumption DEF TableInv, TypeOK, TailIsNull, IsTable
<1>1. tab' = res.tp /\ ret' = res.rc
  BY DEF Store
<1>2. \/ res.rc = -1 /\ res.tp = tab /\ index >= tab.st_limit
      \/ /\ res.rc = index
         /\ res.tp.st_limit =
              IF index < tab.st_limit THEN tab.st_limit ELSE index + 1
         /\ \A j \in Nat : sa_table_lookup(res.tp, j) =
              IF j = index THEN e ELSE sa_table_lookup(tab, j)
  BY <1>0, InsertSafe
<1> HIDE DEF res
<1>3. CASE res.rc = -1 /\ res.tp = tab /\ index >= tab.st_limit
  <2>1. tab' = tab /\ ret' = -1
    BY <1>1, <1>3
  <2> QED BY <1>3, <2>1 DEF IM!PutFails
<1>4. CASE /\ res.rc = index
           /\ res.tp.st_limit =
                IF index < tab.st_limit THEN tab.st_limit ELSE index + 1
           /\ \A j \in Nat : sa_table_lookup(res.tp, j) =
                IF j = index THEN e ELSE sa_table_lookup(tab, j)
  <2>1. \A j \in 0 .. MaxIndex : sa_table_lookup(tab', j) =
                IF j = index THEN e ELSE sa_table_lookup(tab, j)
    BY <1>1, <1>4, MaxIndexAssumption
  <2>2. [i \in 0 .. MaxIndex |-> sa_table_lookup(tab', i)] =
        [[i \in 0 .. MaxIndex |-> sa_table_lookup(tab, i)] EXCEPT ![index] = e]
    BY <2>1
  <2>3. /\ tab'.st_limit =
             IF index < tab.st_limit THEN tab.st_limit ELSE index + 1
        /\ ret' = index
    BY <1>1, <1>4
  <2> QED BY <2>2, <2>3 DEF IM!Put, IM!Index
<1> QED
  BY <1>2, <1>3, <1>4

\* An empty table is the empty map.
LEMMA EmptyLookup ==
  \A i \in Nat : sa_table_lookup(sa_table_init, i) = NULL
BY DEF sa_table_lookup, sa_table_init

\* Every behaviour of the table, its failing reallocs included, is one of the
\* abstract map.
THEOREM TableImplementsIndexMap == Spec => ImplementsIndexMap
<1>1. Init => IM!Init
  <2> SUFFICES ASSUME Init PROVE IM!Init
    OBVIOUS
  <2>1. tab = sa_table_init /\ ret = -1 /\ tab.st_limit = 0
    BY DEF Init, sa_table_init
  <2>2. [i \in 0 .. MaxIndex |-> sa_table_lookup(tab, i)]
          = [i \in 0 .. MaxIndex |-> NULL]
    BY <2>1, EmptyLookup, MaxIndexAssumption
  <2> QED BY <2>1, <2>2 DEF IM!Init, IM!Index
<1>2. TableInv /\ [Next]_vars => [IM!Next]_(IM!vars)
  <2> SUFFICES ASSUME TableInv, [Next]_vars PROVE [IM!Next]_(IM!vars)
    OBVIOUS
  <2>0. /\ live \subseteq Entry
        /\ tab.st_limit \in Nat
    BY DEF TableInv, TypeOK, IsTable
  <2>1. ASSUME NEW e \in Entry, Alloc(e) \/ Free(e) PROVE UNCHANGED IM!vars
    BY <2>1 DEF Alloc, Free, IM!vars
  <2>2. ASSUME NEW e \in Entry, Append(e) PROVE IM!Next
    <3>1. PICK ok \in BOOLEAN :
            Store(sa_table_insert(tab, tab.st_limit, e, ok))
      BY <2>2 DEF Append, sa_table_append
    <3>2. tab.st_limit \in 0 .. MaxIndex
      BY <2>0, <2>2, MaxIndexAssumption DEF Append
    <3>3. IM!Put(tab.st_limit, e) \/ IM!PutFails(tab.st_limit)
      BY <3>1, <3>2, StoreRefines
    <3> QED BY <3>2, <3>3 DEF IM!Next, IM!Index
  <2>3. ASSUME NEW e \in Entry, NEW index \in 0 .. MaxIndex, Insert(index, e)
        PROVE  IM!Next
    <3>1. PICK ok \in BOOLEAN : Store(sa_table_insert(tab, index, e, ok))
      BY <2>3 DEF Insert
    <3>2. IM!Put(index, e) \/ IM!PutFails(index)
      BY <3>1, StoreRefines
    <3> QED BY <3>2 DEF IM!Next, IM!Index
  <2>4. ASSUME Destroy \/ DestroyAll PROVE IM!Next
    <3>1. tab' = sa_table_init /\ ret' = ret
      BY <2>4 DEF Destroy, DestroyAll, sa_table_destroy
    <3>2. tab'.st_limit = 0
      BY <3>1 DEF sa_table_init
    <3>3. [i \in 0 .. MaxIndex |-> sa_table_lookup(tab', i)]
            = [i \in 0 .. MaxIndex |-> NULL]
      BY <3>1, EmptyLookup, MaxIndexAssumption
    <3>4. IM!Clear
      BY <3>1, <3>2, <3>3 DEF IM!Clear, IM!Index
    <3> QED BY <3>4 DEF IM!Next
  <2>5. CASE UNCHANGED vars
    BY <2>5 DEF vars, IM!vars
  <2> QED
    BY <2>1, <2>2, <2>3, <2>4, <2>5 DEF Next
<1> QED
  BY <1>1, <1>2, TableInvariant, PTL DEF Spec, ImplementsIndexMap, IM!Spec

\* After any calls, with any realloc failing, the struct describes its array:
\* the limit is within the size and every slot holds an entry or null.
THEOREM TableTypesTheorem == Spec => []TypeOK
<1>1. TableInv => TypeOK
  BY DEF TableInv
<1> QED
  BY <1>1, TableInvariant, PTL


\* Asking for position 0, 1, 2 and so on until null visits every entry of the
\* table once, whatever holes the inserts left.
THEOREM EnumerationTheorem == Spec => []EnumerationComplete
<1>1. TableInv => EnumerationComplete
  BY LookupNVisitsAll DEF TableInv, TypeOK, EnumerationComplete
<1> QED
  BY <1>1, TableInvariant, PTL


============================================================================
