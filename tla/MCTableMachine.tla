--------------------------- MODULE MCTableMachine ---------------------------
(* Small instances of TableMachine for TLC. *)
EXTENDS TableMachine, TLC

Symmetry == Permutations(Entry)

============================================================================
