---------------------------- MODULE MCRportCache ----------------------------
(* Small instances of RportCache for TLC. *)
EXTENDS RportCache

\* Two hosts with one port each.
TwoPorts == {[hba |-> 0], [hba |-> 1]}

\* Two remote ports of host 0, one on its second channel with a number that
\* is also used on the first, and one of host 1.
FourRports ==
  {[hba |-> 0, chan |-> 0, num |-> 0], [hba |-> 0, chan |-> 0, num |-> 2],
   [hba |-> 0, chan |-> 1, num |-> 0], [hba |-> 1, chan |-> 0, num |-> 0]}

ThreeRports == FourRports \ {[hba |-> 0, chan |-> 0, num |-> 2]}

\* The remote port of host 1 and the one on the second channel of host 0 are
\* there from the start, and go away when they like; the others come and go.
MCInit == Init /\ \A r \in Rport : r.hba = 1 \/ r.chan = 1 => kern[r] = "present"

MCSpec == MCInit /\ [][Next]_vars /\ Fairness

\* Behaviours in which no attribute is unreadable and memory never runs out
\* while the directory is read.
NoFaultNext ==
  \/ Kernel
  \/ \E p \in Port : Call(p)
  \/ \E r \in Rport : AddEntry(r) \/ (kern[r] = "gone" /\ DropEntry(r))
  \/ CloseDir \/ WalkStep \/ Return

NoFaultSpec == Init /\ [][NoFaultNext]_vars

============================================================================
