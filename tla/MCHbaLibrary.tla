---------------------------- MODULE MCHbaLibrary ----------------------------
(* The library, with the lookups by name in every state of it, for TLC. *)
EXTENDS WwnLookup

TwoHosts == {0, 1}

MCPort == [hba : Host, load : 1 .. MaxLoads]

\* Two VLAN interfaces of one network interface.
SharedInterface == [h \in Host |-> "eth0"]

\* Host 0 has two remote ports on its first channel and one on its second, with
\* a number that is also used on the first; host 1 has one.
FourRports ==
  {[hba |-> 0, chan |-> 0, num |-> 0], [hba |-> 0, chan |-> 0, num |-> 1],
   [hba |-> 0, chan |-> 1, num |-> 0], [hba |-> 1, chan |-> 0, num |-> 0]}

\* Host 0 is there from the start with all it has; host 1 and its remote port
\* come later, or never.
MCLibInit ==
  /\ LibInit
  /\ khost = [h \in Host |-> IF h = 0 THEN "present" ELSE "absent"]
  /\ present = {r \in Rport : r.hba = 0}

\* The bound of the run: of the remote ports, only the one in place 0 ever goes
\* away, and their directory is read in one order, the last one first.
\* MCRportCache has every order and every departure.
Place(r) == 4 * r.hba + 2 * r.chan + r.num

Bounded ==
  /\ \A r \in Rport : kern[r] = "gone" => Place(r) = 0
  /\ \A i, j \in UsedSlots(rports_table) :
       i < j => Place(rports_table.st_table[j]) < Place(rports_table.st_table[i])

MCLibSpec == MCLibInit /\ [][LibNext]_allVars

\* The hosts share a node name, which host 0 uses as its port name too.  The
\* remote ports of host 0 share a name, and the one of host 1 has the name of
\* the port it is reached through.
Nodes == [h \in Host |-> "node"]
Ports == [h \in Host |-> IF h = 0 THEN "node" ELSE "port1"]
RportNames == [r \in Rport |-> IF r.hba = 0 THEN "disk" ELSE "port1"]

============================================================================
