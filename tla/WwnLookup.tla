----------------------------- MODULE WwnLookup -----------------------------
(***************************************************************************)
(* Finding an adapter or a port by its world-wide name (adapt.c), in every *)
(* state the library can be in.  Hosts on one network card share a node    *)
(* name, and a remote port that went and came back with a new number is in *)
(* the cache twice, so a name may fit more than once.                      *)
(*                                                                         *)
(* adapter_get_port_by_wwn serves the SCSI, mapping and FC-4 statistics    *)
(* calls.  adapter_open_by_wwn and adapter_get_port_attr_by_wwn are        *)
(* compiled but left out of the table of entry points (lib.c).             *)
(***************************************************************************)
EXTENDS HbaLibrary

CONSTANTS
  Wwn,        \* world-wide names
  node_wwn,   \* the node name of each host
  port_wwn,   \* the port name of each host
  rport_wwn   \* the port name of each remote port

ASSUME WwnAssumption ==
  /\ node_wwn \in [Host -> Wwn]
  /\ port_wwn \in [Host -> Wwn]
  /\ rport_wwn \in [Rport -> Wwn]

\* Slip: the name of the port is not compared.
AnyPort(handle, wwn) ==
  LET ap == adapter_open_handle(handle)
  IN  [pp |-> IF ap = NULL THEN NULL ELSE ap, count |-> IF ap = NULL THEN 0 ELSE 1]

\* The port of the adapter with this name, and how many there are.
adapter_get_port_by_wwn(handle, wwn) ==
  LET ap == adapter_open_handle(handle)
      found == IF ap = NULL THEN {}
               ELSE {p \in UsedSlots(ad_ports[ap]) :
                       port_wwn[ad_ports[ap].st_table[p].hba] = wwn}
  IN  [pp |-> IF Cardinality(found) = 1
              THEN ad_ports[ap].st_table[CHOOSE p \in found : TRUE] ELSE NULL,
       count |-> Cardinality(found)]

----------------------------------------------------------------------------

at(i) == sa_table_lookup(adapter_table, i)

\* A match is an adapter index and a port index, -1 for the node name.
node_matches(wwn) ==
  {<<i, -1>> : i \in {j \in UsedSlots(adapter_table) : node_wwn[at(j).hba] = wwn}}

\* Slip: an adapter is counted for its node name and again for its port name.
EveryPort(wwn) ==
  UNION {{<<i, p>> : p \in {q \in UsedSlots(ad_ports[at(i)]) :
                              port_wwn[ad_ports[at(i)].st_table[q].hba] = wwn}} :
           i \in UsedSlots(adapter_table)}

\* The ports of an adapter are looked at only if its node name does not fit.
port_matches(wwn) ==
  UNION {{<<i, p>> : p \in {q \in UsedSlots(ad_ports[at(i)]) :
                              port_wwn[ad_ports[at(i)].st_table[q].hba] = wwn}} :
           i \in {j \in UsedSlots(adapter_table) : node_wwn[at(j).hba] # wwn}}

HBA_HANDLE_INVALID == 0

adapter_open_by_wwn(wwn) ==
  LET found == node_matches(wwn) \cup port_matches(wwn)
      count == Cardinality(found)
  IN  [status |-> CASE count = 1 -> "OK"
                    [] count > 1 -> "AMBIGUOUS_WWN"
                    [] count = 0 -> "ILLEGAL_WWN",
       handle |-> IF count = 1
                  THEN ad_index[at((CHOOSE m \in found : TRUE)[1])] + adapter_handle_offset
                  ELSE HBA_HANDLE_INVALID]

----------------------------------------------------------------------------

adapter_wwpn_match(wwn) == {r \in Rport : rport_wwn[r] = wwn}

\* What adapter_get_rport_by_wwn finds in the table get_rport_info has filled.
rport_by_wwn(pp, wwn) == sa_table_search(ap_rports[pp], adapter_wwpn_match(wwn))

\* Slip: a remote port is taken only when no local port fits.
LocalFirst(p, wwn) ==
  IF port_wwn[p.hba] = wwn THEN {p} ELSE {rport_by_wwn(p, wwn)} \ {NULL}

\* What one port adds: itself, and the first of its remote ports that fits.
fitting(p, wwn) ==
  {q \in {p} : port_wwn[q.hba] = wwn} \cup ({rport_by_wwn(p, wwn)} \ {NULL})

\* The remote ports are searched as they are in the cache, which is not filled.
adapter_get_port_attr_by_wwn(handle, wwn) ==
  LET ap == adapter_open_handle(handle)
      found == IF ap = NULL THEN {}
               ELSE UNION {fitting(p, wwn) : p \in Entries(ad_ports[ap])}
      count == Cardinality(found)
  IN  [status |-> CASE count = 1 -> "OK"
                    [] count > 1 -> "AMBIGUOUS_WWN"
                    [] count = 0 -> "ILLEGAL_WWN",
       pp |-> IF count = 1 THEN CHOOSE q \in found : TRUE ELSE NULL]

----------------------------------------------------------------------------
(* Properties *)

carries(a, wwn) == wwn \in {node_wwn[a.hba], port_wwn[a.hba]}

\* A world-wide name opens an adapter exactly when one adapter carries it, as
\* its node name, its port name or both, and the handle leads to that adapter;
\* a name several adapters carry is called ambiguous and opens none.
OpensTheOne ==
  \A wwn \in Wwn :
    LET who == {a \in Adapters : carries(a, wwn)}
        res == adapter_open_by_wwn(wwn)
    IN  /\ res.status = "OK" <=> Cardinality(who) = 1
        /\ res.status = "AMBIGUOUS_WWN" <=> Cardinality(who) > 1
        /\ res.status = "OK" => adapter_open_handle(res.handle) \in who
        /\ res.status # "OK" => adapter_open_handle(res.handle) = NULL

\* The calls that take a handle and a port name never act on another port than
\* the one with that name, on another adapter, or on one that was freed, and
\* they never call a name ambiguous, because an adapter has one port: hosts
\* that share a name do not stand in each other's way.
PortByWwn ==
  \A handle \in Handles, wwn \in Wwn :
    LET res == adapter_get_port_by_wwn(handle, wwn)
    IN  /\ res.count <= 1
        /\ res.pp # NULL =>
             /\ port(res.pp) \in heap
             /\ res.pp \in Entries(ad_ports[adapter_open_handle(handle)])
             /\ port_wwn[res.pp.hba] = wwn
        /\ port_wwn[adapter_open_handle(handle).hba] = wwn => res.pp # NULL

\* The attributes found by port name are those of a port with that name, local
\* or discovered through the adapter.  A name that fits the local port and a
\* discovered one is called ambiguous.  A name that fits several discovered
\* ports and not the local one is not: of those, the one with the lowest number
\* is handed out, and the call says that all is well.
AttrByWwn ==
  \A handle \in Handles, wwn \in Wwn :
    LET ap  == adapter_open_handle(handle)
        res == adapter_get_port_attr_by_wwn(handle, wwn)
        local  == port_wwn[ap.hba] = wwn
        remote == {r \in Entries(ap_rports[ap]) : rport_wwn[r] = wwn}
    IN  /\ res.status = "AMBIGUOUS_WWN" <=> local /\ remote # {}
        /\ res.status = "ILLEGAL_WWN" <=> ~local /\ remote = {}
        /\ res.status = "OK" =>
             IF local THEN res.pp = ap
             ELSE res.pp \in remote /\ \A r \in remote : res.pp.num <= r.num

\* Whenever a call can be made, a lookup by world-wide name yields one that
\* carries the name, and only if one does.  The two that look among adapters
\* and local ports yield the only one or call the name ambiguous; the one that
\* looks among discovered ports too may yield one of several (AttrByWwn).
WwnFindsCarrier ==
  lib = "loaded" /\ pc = "idle" => OpensTheOne /\ PortByWwn /\ AttrByWwn

============================================================================
