------------------------------ MODULE SaTable ------------------------------
(***************************************************************************)
(* The integer-indexed pointer table of the library (struct sa_table,      *)
(* utils.h and utils.c), as operators on a record with the three fields of *)
(* the struct.  Every table of the library is one of these: the adapter    *)
(* table, the port table of an adapter, the table of discovered ports and  *)
(* the per-port table of remote ports.                                     *)
(*                                                                         *)
(* st_table is a function on 0 .. st_size-1, the allocated slots; only the *)
(* slots below st_limit are visible through the accessors.  Whether        *)
(* realloc succeeds is the parameter ok.                                   *)
(*                                                                         *)
(* Indices are naturals.  The C code computes them in 32 bits and returns  *)
(* them as int; reaching the width needs an array of 2^31 pointers, so the *)
(* wrap-around is left out.                                                *)
(***************************************************************************)
EXTENDS Integers, FiniteSets

CONSTANTS
  NULL,             \* the null pointer
  sa_table_growth   \* entries to grow by (16 in the code)

ASSUME GrowthAssumption == sa_table_growth \in Nat \ {0}

\* Shape of a table whose non-null entries are members of Entry.
IsTable(tp, Entry) ==
  /\ tp = [st_size |-> tp.st_size, st_limit |-> tp.st_limit,
           st_table |-> tp.st_table]
  /\ tp.st_size \in Nat
  /\ tp.st_limit \in Nat
  /\ tp.st_limit <= tp.st_size
  /\ tp.st_table \in [0 .. tp.st_size - 1 -> Entry \cup {NULL}]

\* The slots past st_limit are null: sa_table_grow relies on it when it only
\* raises st_limit inside the allocated array.
IsClean(tp) ==
  \A i \in 0 .. tp.st_size - 1 : i >= tp.st_limit => tp.st_table[i] = NULL

\* An all-zero struct: a static table, a memset one, or a destroyed one.
sa_table_init ==
  [st_size |-> 0, st_limit |-> 0, st_table |-> [i \in 0 .. -1 |-> NULL]]

----------------------------------------------------------------------------
(* Reading *)

UsedSlots(tp) == {i \in 0 .. tp.st_limit - 1 : tp.st_table[i] # NULL}

Entries(tp) == {tp.st_table[i] : i \in UsedSlots(tp)}

sa_table_lookup(tp, index) ==
  IF index < tp.st_limit THEN tp.st_table[index] ELSE NULL

\* Variants with a plausible slip, for mutation runs.
LookupNCountsHoles(tp, n) == sa_table_lookup(tp, n)

\* The entry with exactly n used slots below it, which is what the loop finds.
sa_table_lookup_n(tp, n) ==
  LET used == UsedSlots(tp)
      nth  == {i \in used : Cardinality({j \in used : j < i}) = n}
  IN  IF nth = {} THEN NULL ELSE tp.st_table[CHOOSE i \in nth : TRUE]

\* Slip: every slot is counted.
CountsEverySlot(tp, n) ==
  LET from[i \in 0 .. tp.st_limit, m \in 0 .. n] ==
        IF i = tp.st_limit THEN NULL
        ELSE IF m = 0 /\ tp.st_table[i] # NULL THEN tp.st_table[i]
        ELSE from[i + 1, IF m = 0 THEN 0 ELSE m - 1]
  IN  from[0, n]

\* Its loop: n counts down at every used slot, and at zero the slot is returned.
sa_table_lookup_n_loop(tp, n) ==
  LET from[i \in 0 .. tp.st_limit, m \in 0 .. n] ==
        IF i = tp.st_limit THEN NULL
        ELSE IF tp.st_table[i] = NULL THEN from[i + 1, m]
        ELSE IF m = 0 THEN tp.st_table[i]
        ELSE from[i + 1, m - 1]
  IN  from[0, n]

\* The first entry the match function accepts; match is the set it accepts.
sa_table_search(tp, match) ==
  LET hits == {i \in UsedSlots(tp) : tp.st_table[i] \in match}
  IN  IF hits = {} THEN NULL
      ELSE tp.st_table[CHOOSE i \in hits : \A j \in hits : i <= j]

----------------------------------------------------------------------------
(* Writing.  A result is the new table and the returned index, or -1. *)

GrowToIndex(tp, index) ==
  [st_size |-> index, st_limit |-> index + 1,
   st_table |-> [i \in 0 .. index - 1 |->
                   IF i < tp.st_size THEN tp.st_table[i] ELSE NULL]]

GrowWithoutLimit(tp, index) ==
  LET new_size == index + sa_table_growth
  IN  IF index >= tp.st_size
      THEN [st_size  |-> new_size,
            st_limit |-> index + 1,
            st_table |-> [i \in 0 .. new_size - 1 |->
                            IF i < tp.st_size THEN tp.st_table[i] ELSE NULL]]
      ELSE tp

\* The table after a successful sa_table_grow: realloc keeps the old slots,
\* memset clears the new ones.
sa_table_grow(tp, index) ==
  LET new_size == index + sa_table_growth
  IN  IF index >= tp.st_size
      THEN [st_size  |-> new_size,
            st_limit |-> index + 1,
            st_table |-> [i \in 0 .. new_size - 1 |->
                            IF i < tp.st_size THEN tp.st_table[i] ELSE NULL]]
      ELSE [tp EXCEPT !.st_limit = index + 1]

\* realloc is called, and may fail, only for an index outside the array.
GrowFails(tp, index, ok) == index >= tp.st_size /\ ~ok

sa_table_insert(tp, index, ep, ok) ==
  LET grown == IF index >= tp.st_limit THEN sa_table_grow(tp, index) ELSE tp
  IN  IF index >= tp.st_limit /\ GrowFails(tp, index, ok)
      THEN [tp |-> tp, rc |-> -1]
      ELSE [tp |-> [grown EXCEPT !.st_table[index] = ep], rc |-> index]

\* Slip: the last entry is taken for the first free slot.
AppendOverLast(tp, ep, ok) ==
  sa_table_insert(tp, IF tp.st_limit = 0 THEN 0 ELSE tp.st_limit - 1, ep, ok)

sa_table_append(tp, ep, ok) == sa_table_insert(tp, tp.st_limit, ep, ok)

DestroyKeepsArray(tp) == [tp EXCEPT !.st_limit = 0]

DestroyKeepsTable(tp) == tp

\* The pointer array is freed and the struct zeroed; the entries are not freed.
sa_table_destroy(tp) == sa_table_init

\* The entries sa_table_destroy_all frees before it destroys the table.
FreedByDestroyAll(tp) == Entries(tp)

============================================================================
