---------------------------- MODULE TableMachine ----------------------------
(***************************************************************************)
(* One table of the library under every legal sequence of calls: entries   *)
(* are allocated by a caller, put in the table by index or at its end with *)
(* a realloc that may fail, and the table is destroyed with or without its *)
(* entries and used again.                                                 *)
(*                                                                         *)
(* The bound MaxIndex caps the indices; it stands for the 32-bit range.    *)
(***************************************************************************)
EXTENDS SaTable

CONSTANTS
  Entry,      \* the objects a caller may put in the table
  MaxIndex    \* largest index a caller uses

ASSUME EntryAssumption == NULL \notin Entry
ASSUME MaxIndexAssumption == MaxIndex \in Nat

VARIABLES
  tab,    \* the struct sa_table
  live,   \* entries that are allocated on the heap
  ret     \* result of the last insert or append

vars == <<tab, live, ret>>

Init ==
  /\ tab = sa_table_init
  /\ live = {}
  /\ ret = -1

----------------------------------------------------------------------------

\* A caller allocates an object (malloc before every insert of the library).
Alloc(e) ==
  /\ e \notin live
  /\ live' = live \cup {e}
  /\ UNCHANGED <<tab, ret>>

\* A caller frees an object that is in no table, as the error paths of
\* sysfs_scan and sysfs_get_rport do.
Free(e) ==
  /\ e \in live \ Entries(tab)
  /\ live' = live \ {e}
  /\ UNCHANGED <<tab, ret>>

\* The caller takes over the result of an insert or an append.
Store(res) ==
  /\ tab' = res.tp
  /\ ret' = res.rc
  /\ UNCHANGED live

\* A caller owns e and has it in no slot: the library inserts each object
\* once in the table that owns it.
Insert(index, e) ==
  /\ e \in live \ Entries(tab)
  /\ \E ok \in BOOLEAN : Store(sa_table_insert(tab, index, e, ok))

Append(e) ==
  /\ tab.st_limit <= MaxIndex
  /\ e \in live \ Entries(tab)
  /\ \E ok \in BOOLEAN : Store(sa_table_append(tab, e, ok))

Destroy ==
  /\ tab' = sa_table_destroy(tab)
  /\ UNCHANGED <<live, ret>>

DestroyAll ==
  /\ live' = live \ FreedByDestroyAll(tab)
  /\ tab' = sa_table_destroy(tab)
  /\ UNCHANGED ret

Next ==
  \/ \E e \in Entry : Alloc(e) \/ Free(e) \/ Append(e)
  \/ \E e \in Entry, index \in 0 .. MaxIndex : Insert(index, e)
  \/ Destroy
  \/ DestroyAll

Spec == Init /\ [][Next]_vars

----------------------------------------------------------------------------
(* Properties *)

\* Types: the struct is consistent with the array it describes.
TypeOK ==
  /\ IsTable(tab, Entry)
  /\ tab.st_limit <= MaxIndex + 1
  /\ live \in SUBSET Entry
  /\ ret \in -1 .. MaxIndex

\* Slots between st_limit and st_size are null, so raising st_limit without a
\* memset, as sa_table_grow does inside the array, uncovers no stale pointer.
TailIsNull == IsClean(tab)

\* The table never points to a freed object: destroy_all frees what it holds
\* and forgets it in the same call.
NoDangling == Entries(tab) \subseteq live

\* sa_table_lookup_n visits every entry once, in index order, and then
\* returns null, however many holes the inserts left.
EnumerationComplete ==
  LET n == Cardinality(UsedSlots(tab))
  IN  /\ {sa_table_lookup_n(tab, k) : k \in 0 .. n - 1} = Entries(tab)
      /\ sa_table_lookup_n(tab, n) = NULL

\* The loop of sa_table_lookup_n, which counts its argument down, finds the
\* entry of that rank over whatever holes there are, and runs off the table for
\* a rank no entry has.
LoopFindsRank ==
  \A n \in 0 .. Cardinality(UsedSlots(tab)) :
    sa_table_lookup_n_loop(tab, n) = sa_table_lookup_n(tab, n)

\* The inductive invariant of the proofs.
TableInv == TypeOK /\ TailIsNull /\ NoDangling

\* The array, its capacity and realloc are invisible: through the accessors
\* the table is the growing map of IndexMap.
IM == INSTANCE IndexMap WITH
        map   <- [i \in 0 .. MaxIndex |-> sa_table_lookup(tab, i)],
        limit <- tab.st_limit

ImplementsIndexMap == IM!Spec

============================================================================
