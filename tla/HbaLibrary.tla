----------------------------- MODULE HbaLibrary -----------------------------
(***************************************************************************)
(* The life of the library: load, use, free, and load again (lib.c,        *)
(* adapt.c, sysfs_scan of lport.c), around the cache of remote ports of    *)
(* RportCache.                                                             *)
(*                                                                         *)
(* load_library reads the kernel's directory of FC hosts and makes one     *)
(* adapter with one port for every FCoE host; free_library frees them.     *)
(* The remote ports and the table that holds them survive free_library.    *)
(*                                                                         *)
(* An adapter and its port are both named by the record [hba, load]: the   *)
(* host they were made for and the load that made them.  The common HBA-API*)
(* library loads this one before it calls it, frees it once, and           *)
(* serialises the calls.  MaxLoads bounds how often it loads.              *)
(***************************************************************************)
EXTENDS RportCache

CONSTANTS
  Host,       \* kernel host numbers
  MaxLoads,   \* bound on the number of loads
  ifname      \* network interface name of each host; VLANs share one

ASSUME HostAssumption == Host \subseteq Nat /\ MaxLoads \in Nat
ASSUME PortsAreMade == Port = [hba : Host, load : 1 .. MaxLoads]

VARIABLES
  khost,           \* the kernel's view of each FC host
  lib,             \* "unloaded", "scanning" or "loaded"
  loads,           \* number of load_library calls
  hosts_todo,      \* directory entries sysfs_scan has still to see
  adapter_table,   \* the table of adapters
  ad_index,        \* per adapter, its index in the table
  ad_ports,        \* per adapter, its table of ports
  heap,            \* adapters and local ports allocated
  discovered       \* per port, the remote ports counted when it was made, and
                   \* (auxiliary) those of its host that were there

libVars == <<khost, lib, loads, hosts_todo, adapter_table, ad_index, ad_ports,
             heap, discovered>>
allVars == <<vars, libVars>>

hosts == {h \in Host : khost[h] = "present"}

none_counted == [counted |-> {}, there |-> {}]

LibInit ==
  /\ Init
  /\ khost \in [Host -> {"absent", "present"}]
  /\ \A r \in present : r.hba \in hosts
  /\ lib = "unloaded"
  /\ loads = 0
  /\ hosts_todo = {}
  /\ adapter_table = sa_table_init
  /\ ad_index = [p \in Port |-> 0]
  /\ ad_ports = [p \in Port |-> sa_table_init]
  /\ heap = {}
  /\ discovered = [p \in Port |-> none_counted]

----------------------------------------------------------------------------
(* The kernel.  Host numbers, like the numbers of remote ports, are not used *)
(* twice, and a host has remote ports only while it is there.                *)

HostEvent(h, from, to) ==
  /\ khost[h] = from
  /\ khost' = [khost EXCEPT ![h] = to]
  /\ \A r \in present : r.hba # h
  /\ UNCHANGED <<vars, lib, loads, adapter_table, ad_index, ad_ports, heap,
                 discovered>>

\* A host is added.  A directory read in progress may or may not return its
\* entry.
HostAdd(h) ==
  /\ HostEvent(h, "absent", "present")
  /\ \/ lib = "scanning" /\ hosts_todo' = hosts_todo \cup {h}
     \/ UNCHANGED hosts_todo

\* A host goes away for good.  A directory read in progress may still return
\* its entry.
HostRemove(h) ==
  /\ HostEvent(h, "present", "gone")
  /\ hosts_todo' \in {hosts_todo, hosts_todo \ {h}}

RportEvent ==
  /\ \E r \in Rport : (r.hba \in hosts /\ HotPlug(r)) \/ Unplug(r)
  /\ UNCHANGED libVars

----------------------------------------------------------------------------
(* Loading *)

adapter(a) == <<"adapter", a>>
port(a)    == <<"port", a>>

LoadLibrary ==
  /\ lib = "unloaded"
  /\ loads < MaxLoads
  /\ lib' = "scanning"
  /\ loads' = loads + 1
  /\ hosts_todo' \in {hosts, {}}
  /\ UNCHANGED <<vars, khost, adapter_table, ad_index, ad_ports, heap,
                 discovered>>

\* Slip: the remote ports of every host are counted.
CountsEveryHost(h) == present

\* What counting_rports finds in the directory of host h.
counting_rports(h) == {r \in present : r.hba = h}

\* sysfs_scan cannot allocate an adapter: it returns ENOMEM, which ends the
\* directory read with the other hosts unread, and load_library is done.
ScanNoMemory(h) ==
  /\ lib = "scanning"
  /\ h \in hosts_todo
  /\ lib' = "loaded"
  /\ hosts_todo' = {}
  /\ UNCHANGED <<vars, khost, loads, adapter_table, ad_index, ad_ports, heap,
                 discovered>>

\* The error paths of sysfs_scan after the adapter was allocated, and what
\* each of them allocated and freed.
Allocated(failure, a) ==
  IF failure = "no port" THEN {adapter(a)} ELSE {adapter(a), port(a)}

\* Slip: the skip path forgets the port.
SkipLeaksPort(failure, a) ==
  CASE failure = "no port"   -> {adapter(a)}
    [] failure = "skip"      -> {adapter(a)}
    [] failure = "no insert" -> {port(a), adapter(a)}
    [] failure = "no create" -> {port(a), adapter(a)}

FreedBy(failure, a) ==
  CASE failure = "no port"   -> {adapter(a)}
    [] failure = "skip"      -> {port(a), adapter(a)}
    [] failure = "no insert" -> {port(a), adapter(a)}
    [] failure = "no create" -> {port(a), adapter(a)}

\* sysfs_scan gives up one host: no memory for the port, not an FCoE host, no memory for the port table or
\* no memory for the adapter table.  A host that has gone cannot be read.
ScanSkip(h) ==
  /\ lib = "scanning"
  /\ h \in hosts_todo
  /\ hosts_todo' = hosts_todo \ {h}
  /\ LET a == [hba |-> h, load |-> loads]
     IN  \E failure \in {"no port", "skip", "no insert", "no create"} :
           heap' = (heap \cup Allocated(failure, a)) \ FreedBy(failure, a)
  /\ UNCHANGED <<vars, khost, lib, loads, adapter_table, ad_index, ad_ports,
                 discovered>>

\* adapter_create: the adapter learns its index from the append.
adapter_create_index(rc) == rc

\* sysfs_scan makes the port and the adapter and hands the adapter over.
ScanHost(h) ==
  /\ lib = "scanning"
  /\ h \in hosts_todo \cap hosts
  /\ hosts_todo' = hosts_todo \ {h}
  /\ LET a == [hba |-> h, load |-> loads]
     IN  /\ heap' = heap \cup {adapter(a), port(a)}
         /\ discovered' = [discovered EXCEPT
                             ![a] = [counted |-> counting_rports(h),
                                     there |-> {r \in present : r.hba = h}]]
         /\ \E ok \in BOOLEAN :
              LET res == sa_table_insert(sa_table_init, ap_index(a), a, ok)
              IN  /\ res.rc # -1
                  /\ ad_ports' = [ad_ports EXCEPT ![a] = res.tp]
         /\ \E ok \in BOOLEAN :
              LET res == sa_table_append(adapter_table, a, ok)
              IN  /\ res.rc # -1
                  /\ adapter_table' = res.tp
                  /\ ad_index' = [ad_index EXCEPT ![a] =
                                    adapter_create_index(res.rc)]
  /\ UNCHANGED <<vars, khost, lib, loads>>

LoadReturn ==
  /\ lib = "scanning"
  /\ hosts_todo = {}
  /\ lib' = "loaded"
  /\ UNCHANGED <<vars, khost, loads, hosts_todo, adapter_table, ad_index,
                 ad_ports, heap, discovered>>

----------------------------------------------------------------------------
(* Use.  Handles are table indices plus an offset; 0 is no handle. *)

adapter_handle_offset == 256

adapter_get_count == adapter_table.st_limit

\* The subtraction wraps for a handle below the offset, far past the limit.
adapter_open_handle(handle) ==
  IF handle < adapter_handle_offset THEN NULL
  ELSE sa_table_lookup(adapter_table, handle - adapter_handle_offset)

adapter_get_port(handle, p) ==
  LET ap == adapter_open_handle(handle)
  IN  IF ap = NULL THEN NULL ELSE sa_table_lookup(ad_ports[ap], p)

\* adapter_get_name returns HBA_STATUS_OK.
legal_index(index) == sa_table_lookup(adapter_table, index) # NULL

\* The name of a legal index: the interface name with the index appended.
adapter_get_name(index) ==
  <<ifname[sa_table_lookup(adapter_table, index).hba], index>>

first_handle(found) ==
  IF found = {} THEN 0
  ELSE adapter_handle_offset + (CHOOSE i \in found : \A j \in found : i <= j)

\* Slip: only the interface name is compared.
OpenByInterface(name) ==
  first_handle({i \in 0 .. adapter_get_count - 1 :
                  /\ \A j \in 0 .. i : legal_index(j)
                  /\ adapter_get_name(i)[1] = name[1]})

\* The first adapter with this name, found by asking for every name in turn;
\* a hole in the table ends the search.
adapter_open(name) ==
  first_handle({i \in 0 .. adapter_get_count - 1 :
                  /\ \A j \in 0 .. i : legal_index(j)
                  /\ adapter_get_name(i) = name})

Handles == {adapter_handle_offset + i : i \in 0 .. adapter_get_count - 1}

\* HBA_GetDiscoveredPortAttributes and the SCSI calls: they find the port and
\* enter get_rport_info for it.
UseRports ==
  /\ lib = "loaded"
  /\ \E handle \in Handles :
       /\ adapter_get_port(handle, 0) # NULL
       /\ Call(adapter_get_port(handle, 0))
  /\ UNCHANGED libVars

RportStep == Step /\ UNCHANGED libVars

----------------------------------------------------------------------------
(* Freeing *)

\* adapter_destroy frees the ports of the adapter and the adapter.
adapter_destroy(a) ==
  {port(p) : p \in FreedByDestroyAll(ad_ports[a])} \cup {adapter(a)}

\* free_library, between two calls.  It does not touch the remote ports.
FreeLibrary ==
  /\ lib = "loaded"
  /\ pc = "idle"
  /\ lib' = "unloaded"
  /\ LET all == Entries(adapter_table)
     IN  /\ heap' = heap \ UNION {adapter_destroy(a) : a \in all}
         /\ ad_ports' = [a \in Port |-> IF a \in all
                                        THEN sa_table_destroy(ad_ports[a])
                                        ELSE ad_ports[a]]
         /\ discovered' = [a \in Port |-> IF a \in all THEN none_counted
                                          ELSE discovered[a]]
  /\ adapter_table' = sa_table_destroy(adapter_table)
  /\ UNCHANGED <<vars, khost, loads, hosts_todo, ad_index>>

----------------------------------------------------------------------------

Load == \/ LoadLibrary
        \/ \E h \in Host : ScanNoMemory(h) \/ ScanSkip(h) \/ ScanHost(h)
        \/ LoadReturn

LibNext ==
  \/ \E h \in Host : HostAdd(h) \/ HostRemove(h)
  \/ RportEvent
  \/ Load
  \/ UseRports
  \/ RportStep
  \/ FreeLibrary

LibSpec == LibInit /\ [][LibNext]_allVars

----------------------------------------------------------------------------
(* Properties *)

\* Types.
LibTypeOK ==
  /\ khost \in [Host -> {"absent", "present", "gone"}]
  /\ lib \in {"unloaded", "scanning", "loaded"}
  /\ loads \in 0 .. MaxLoads
  /\ hosts_todo \subseteq Host
  /\ IsTable(adapter_table, Port)
  /\ ad_index \in [Port -> Nat]
  /\ DOMAIN ad_ports = Port
  /\ \A a \in Port : IsTable(ad_ports[a], Port)
  /\ heap \subseteq {adapter(a) : a \in Port} \cup {port(a) : a \in Port}
  /\ discovered \in [Port -> [counted : SUBSET Rport, there : SUBSET Rport]]

\* Every adapter and port allocated is one the table of adapters reaches, and
\* it reaches nothing freed, over every failing step of the scan, over
\* free_library and over a second load.
HeapExact ==
  heap = UNION {{adapter(a)} \cup {port(p) : p \in Entries(ad_ports[a])} :
                  a \in Entries(adapter_table)}

\* The name adapter_get_name gives an index opens a handle to the adapter of
\* that index, which knows its own index, even when hosts share an interface.
NameRoundTrip ==
  \A i \in 0 .. adapter_get_count - 1 :
    LET handle == adapter_open(adapter_get_name(i))
        ap     == adapter_open_handle(handle)
    IN  /\ handle = adapter_handle_offset + i
        /\ ap # NULL
        /\ ad_index[ap] = i

\* A handle is an index and an offset and has no generation.  Still, as long as
\* the library is not freed, a handle the caller holds leads to the same
\* adapter, whatever hosts come, go or fail to be scanned.
HandlesKeep ==
  [][\A handle \in Handles :
       lib' # "unloaded" => (adapter_open_handle(handle))' = adapter_open_handle(handle)]_allVars

\* The remote ports that were counted for a port and that its enumeration does
\* not come to: those on another channel of the host, which counting_rports
\* counts and get_rport_info never claims, and those that an adapter of an
\* earlier load claimed, which free_library does not give back.
miscounted(p) ==
  {r \in discovered[p].counted :
     \/ r.chan # ap_index(p)
     \/ ap_adapt[r] # NULL /\ ap_adapt[r].load < p.load}

\* A caller that knows NumberofDiscoveredPorts asks for that many remote ports
\* by position.  If no remote port of the host appeared since the count, and
\* none was dropped by a scan or in an insert, the enumeration yields as many
\* as were counted, less those that are miscounted, and not one more.
CountAccurate ==
  \A p \in served :
    LET seen == {r \in Rport : kern[r] # "absent" /\ r.hba = p.hba}
    IN  seen = discovered[p].there /\ seen \subseteq owed =>
          Cardinality(UsedSlots(ap_rports[p]))
            = Cardinality(discovered[p].counted \ miscounted(p))

\* "Get all discovered ports for a particular port using /sys" (rport.c:173):
\* a port that was answered has every remote port of its host that is owed.
AllDiscoveredAfterReload ==
  \A p \in served : \A r \in owed :
    Matches(r, p) => r \in Entries(ap_rports[p])

----------------------------------------------------------------------------
(* The inductive invariant of the proofs *)

\* The cache as rport.c sees it, whatever is loaded and freed around it.
CacheSpec == Init /\ [][Next]_vars

Adapters == Entries(adapter_table)

\* The table of adapters has no holes, and an adapter knows its index.
AdaptersIndexed ==
  /\ IsClean(adapter_table)
  /\ \A i \in 0 .. adapter_get_count - 1 :
       LET a == sa_table_lookup(adapter_table, i)
       IN  a # NULL /\ ad_index[a] = i

\* Adapters come from the current load and from hosts already seen.
AdaptersOfThisLoad ==
  /\ \A a \in Adapters : /\ a.load = loads
                          /\ a.hba \notin hosts_todo
                          /\ khost[a.hba] # "absent"
  /\ lib = "unloaded" => Adapters = {}
  /\ lib # "scanning" => hosts_todo = {}
  /\ lib # "unloaded" => loads # 0

\* Each adapter has its own port and no other, at the index of the port, and
\* these are all there is.
AdaptersOwnTheHeap ==
  /\ \A a \in Adapters : /\ Entries(ad_ports[a]) = {a}
                          /\ UsedSlots(ad_ports[a]) = {ap_index(a)}
  /\ heap = {adapter(a) : a \in Adapters} \cup {port(a) : a \in Adapters}

LibInv ==
  /\ LibTypeOK
  /\ AdaptersIndexed
  /\ AdaptersOfThisLoad
  /\ AdaptersOwnTheHeap

\* A call is for an adapter of the current load, a remote port is claimed in the
\* load of its owner, and a port that was answered had its remote ports claimed
\* by then: no later load takes one over.
ClaimsOfLoads ==
  /\ cur # NULL => lib = "loaded" /\ cur.load = loads
  /\ \A r \in Rport : ap_adapt[r] # NULL => ap_adapt[r].load <= loads
  /\ \A p \in served, r \in Rport :
       Matches(r, p) /\ ap_adapt[r] # NULL => ap_adapt[r].load <= p.load

\* The count is of the remote ports that were there.
CountsThere == \A p \in Port : discovered[p].counted = discovered[p].there

CountInv == LibInv /\ CacheInv /\ ClaimsOfLoads /\ CountsThere

============================================================================
