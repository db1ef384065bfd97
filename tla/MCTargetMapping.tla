--------------------------- MODULE MCTargetMapping ---------------------------
(* A small instance of TargetMapping for TLC. *)
EXTENDS TargetMapping

lun(h, c, t, n) == [hba |-> h, chan |-> c, tgt |-> t, lun |-> n]

\* Two LUNs of the target that was discovered, the numbers of the first again
\* on another channel, and a LUN of another host.
MCLun ==
  {lun(0, 0, 0, 0), lun(0, 0, 0, 1), lun(0, 1, 0, 0), lun(1, 0, 0, 0)}

\* The target was discovered, another that has no LUN, and a port that had no
\* target.
MCRport == {[tgt |-> 0], [tgt |-> 1], [tgt |-> any]}

Symmetry == Permutations(SgName)

============================================================================
