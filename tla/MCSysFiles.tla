----------------------------- MODULE MCSysFiles -----------------------------
(* Three uses of files the kernel keeps for a host: statistics (PortStats),  *)
(* the kind of binding (Binding) and lists of speeds (SpeedList).  They      *)
(* share no state, and one of them is at work at a time.                     *)
EXTENDS PortStats, Binding, SpeedList

\* The order of the kernel's own table, and a speed the library does not know.
Kernel == <<"1", "2", "4", "10", "8", "16", "32", "20", "40", "50">>

StatsRest == pc = "idle" /\ counter = [f \in Files |-> IF f \in Unsupported THEN -1 ELSE 0]
BindRest  == bpc = "idle" /\ host /\ file = "wwpn" /\ asked = NULL
SpeedRest == spc = "idle" /\ kp = 0

MCInit == Init /\ BindInit /\ SpeedInit

MCNext ==
  \/ BindRest /\ SpeedRest /\ Next /\ UNCHANGED <<bindVars, speedVars>>
  \/ StatsRest /\ SpeedRest /\ BindNext /\ UNCHANGED <<vars, speedVars>>
  \/ StatsRest /\ BindRest /\ SpeedNext /\ UNCHANGED <<vars, bindVars>>

MCSpec == MCInit /\ [][MCNext]_<<vars, bindVars, speedVars>>

=============================================================================
