------------------------------ MODULE IndexMap ------------------------------
(***************************************************************************)
(* What a table of the library promises its callers: a map from indices to *)
(* entries that grows on demand.  There is no capacity here, no array and  *)
(* no reallocation.  A call that cannot get memory changes nothing, and a  *)
(* call that stays below the limit cannot fail.                            *)
(***************************************************************************)
EXTENDS Integers

CONSTANTS NULL, Entry, MaxIndex

VARIABLES
  map,     \* the entry at each index, NULL where there is none
  limit,   \* one past the highest index ever filled (st_limit is public)
  ret      \* the result of the last call: an index, or -1

vars == <<map, limit, ret>>

Index == 0 .. MaxIndex

Init ==
  /\ map = [i \in Index |-> NULL]
  /\ limit = 0
  /\ ret = -1

\* Replace or insert the entry of index i.
Put(i, e) ==
  /\ map' = [map EXCEPT ![i] = e]
  /\ limit' = IF i < limit THEN limit ELSE i + 1
  /\ ret' = i

\* No memory: only an index past the limit can need any.
PutFails(i) ==
  /\ i >= limit
  /\ ret' = -1
  /\ UNCHANGED <<map, limit>>

\* The table is destroyed and can be used again.
Clear ==
  /\ map' = [i \in Index |-> NULL]
  /\ limit' = 0
  /\ UNCHANGED ret

Next ==
  \/ \E i \in Index, e \in Entry : Put(i, e)
  \/ \E i \in Index : PutFails(i)
  \/ Clear

Spec == Init /\ [][Next]_vars

============================================================================
