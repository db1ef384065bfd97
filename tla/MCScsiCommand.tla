---------------------------- MODULE MCScsiCommand ----------------------------
(* A small instance of ScsiCommand for TLC. *)
EXTENDS ScsiCommand

lun(h, c, t, n) == [hba |-> h, chan |-> c, tgt |-> t, lun |-> n]

\* Two LUNs of a target, and the first LUN of another target.
MCLun == {lun(0, 0, 0, 0), lun(0, 0, 0, 1), lun(0, 0, 1, 0)}

\* Both targets were discovered, and a port that had no target.
MCRport == {[tgt |-> 0], [tgt |-> 1], [tgt |-> any]}

Symmetry == Permutations(SgName)

============================================================================
