----------------------------- MODULE LibProofs -----------------------------
(***************************************************************************)
(* Theorems about loading, using and freeing the library, for every set of *)
(* hosts and of remote ports, every number of loads and every failing      *)
(* allocation.                                                             *)
(***************************************************************************)
EXTENDS WwnLookup, RportProofs, TLAPS

\* The library starts with nothing allocated.
LEMMA LibInitInv == LibInit => LibInv
<1> SUFFICES ASSUME LibInit PROVE LibInv
  OBVIOUS
<1>1. \A E : IsTable(sa_table_init, E) /\ IsClean(sa_table_init)
  BY InitIsTable
<1>2. Entries(sa_table_init) = {} /\ adapter_table = sa_table_init
      /\ adapter_get_count = 0
  BY InitEntries DEF LibInit, adapter_get_count, sa_table_init
<1>3. LibTypeOK
  BY <1>1, HostAssumption DEF LibInit, LibTypeOK, none_counted
<1>4. AdaptersIndexed
  BY <1>1, <1>2 DEF AdaptersIndexed
<1>5. AdaptersOfThisLoad /\ AdaptersOwnTheHeap
  BY <1>2 DEF LibInit, AdaptersOfThisLoad, AdaptersOwnTheHeap, Adapters
<1> QED
  BY <1>3, <1>4, <1>5 DEF LibInv

\* What the invariant says depends on these variables and on no other.
LEMMA LibUnchanged ==
  ASSUME LibInv, UNCHANGED libVars
  PROVE  LibInv'
BY DEF LibInv, LibTypeOK, AdaptersIndexed, AdaptersOfThisLoad,
       AdaptersOwnTheHeap, Adapters, adapter_get_count, libVars

\* The adapters reached by the table are adapters.
LEMMA AdaptersType ==
  ASSUME LibInv
  PROVE  /\ IsTable(adapter_table, Port) /\ NULL \notin Port
         /\ Adapters \subseteq Port
         /\ \A a \in Adapters : \E i \in Nat : sa_table_lookup(adapter_table, i) = a
<1>1. IsTable(adapter_table, Port) /\ NULL \notin Port
  BY PortAssumption DEF LibInv, LibTypeOK
<1>2. ASSUME NEW a \in Adapters
      PROVE  a \in Port /\ \E i \in Nat : sa_table_lookup(adapter_table, i) = a
  <2>1. a # NULL /\ \E i \in Nat : sa_table_lookup(adapter_table, i) = a
    BY <1>1, <1>2, EntriesLookup DEF Adapters
  <2> QED
    BY <1>1, <2>1, LookupType
<1> QED
  BY <1>1, <1>2

\* Steps that touch neither the adapters nor the heap.
LEMMA QuietPreserves ==
  ASSUME LibInv,
         \/ \E h \in Host : HostAdd(h) \/ HostRemove(h)
         \/ LoadLibrary \/ LoadReturn
         \/ \E h \in Host : ScanNoMemory(h)
  PROVE  LibInv'
<1>1. UNCHANGED <<adapter_table, ad_index, ad_ports, heap, discovered>>
  BY DEF HostAdd, HostRemove, HostEvent, LoadLibrary, LoadReturn, ScanNoMemory
<1>2. AdaptersIndexed' /\ AdaptersOwnTheHeap'
  BY <1>1 DEF LibInv, AdaptersIndexed, AdaptersOwnTheHeap, Adapters,
              adapter_get_count
<1>3. /\ khost' \in [Host -> {"absent", "present", "gone"}]
      /\ lib' \in {"unloaded", "scanning", "loaded"}
      /\ loads' \in 0 .. MaxLoads
      /\ hosts_todo' \subseteq Host
  <2>1. ASSUME NEW h \in Host, HostAdd(h) \/ HostRemove(h)
        PROVE  /\ khost' \in [Host -> {"absent", "present", "gone"}]
               /\ UNCHANGED <<lib, loads>>
               /\ hosts_todo' \subseteq Host
    BY <2>1 DEF LibInv, LibTypeOK, HostAdd, HostRemove, HostEvent
  <2>2. CASE LoadLibrary
    BY <2>2, HostAssumption DEF LibInv, LibTypeOK, LoadLibrary, hosts
  <2>3. CASE LoadReturn \/ \E h \in Host : ScanNoMemory(h)
    BY <2>3 DEF LibInv, LibTypeOK, LoadReturn, ScanNoMemory
  <2> QED
    BY <2>1, <2>2, <2>3 DEF LibInv, LibTypeOK
<1>4. LibTypeOK'
  BY <1>1, <1>3 DEF LibInv, LibTypeOK
<1>5. AdaptersOfThisLoad'
  <2>1. loads \in Nat /\ Adapters' = Adapters
    BY <1>1, HostAssumption DEF LibInv, LibTypeOK, Adapters
  <2>2. \A a \in Adapters : a.hba \in Host
    BY AdaptersType, PortsAreMade
  <2>3. ASSUME NEW h \in Host, HostAdd(h) \/ HostRemove(h)
        PROVE  AdaptersOfThisLoad'
    <3>1. UNCHANGED <<lib, loads>> /\ \A g \in Host : g # h => khost'[g] = khost[g]
      BY <2>3 DEF LibInv, LibTypeOK, HostAdd, HostRemove, HostEvent
    <3>2. CASE HostAdd(h)
      <4>1. \A a \in Adapters : a.hba # h
        BY <3>2 DEF HostAdd, HostEvent, LibInv, AdaptersOfThisLoad
      <4>2. /\ hosts_todo' \subseteq hosts_todo \cup {h}
            /\ lib # "scanning" => hosts_todo' = hosts_todo
        BY <3>2 DEF HostAdd
      <4> QED
        BY <2>1, <2>2, <3>1, <4>1, <4>2 DEF LibInv, AdaptersOfThisLoad
    <3>3. CASE HostRemove(h)
      <4>1. khost'[h] = "gone" /\ hosts_todo' \subseteq hosts_todo
        BY <3>3 DEF HostRemove, HostEvent, LibInv, LibTypeOK
      <4> QED
        BY <2>1, <2>2, <3>1, <4>1 DEF LibInv, AdaptersOfThisLoad
    <3> QED
      BY <2>3, <3>2, <3>3
  <2>4. CASE LoadLibrary
    BY <2>1, <2>4 DEF LoadLibrary, LibInv, AdaptersOfThisLoad
  <2>5. CASE LoadReturn
    BY <2>1, <2>5 DEF LoadReturn, LibInv, AdaptersOfThisLoad
  <2>6. CASE \E h \in Host : ScanNoMemory(h)
    BY <2>1, <2>6 DEF ScanNoMemory, LibInv, AdaptersOfThisLoad
  <2> QED
    BY <2>3, <2>4, <2>5, <2>6
<1> QED
  BY <1>2, <1>4, <1>5 DEF LibInv

\* The error paths of the scan free what they allocated, and nothing else: an
\* adapter of this load and of a host not yet seen is not in the table.
LEMMA SkipKeepsHeap ==
  ASSUME LibInv, NEW h \in Host, ScanSkip(h)
  PROVE  LibInv'
<1> DEFINE a == [hba |-> h, load |-> loads]
<1>1. a \notin Adapters
  BY DEF ScanSkip, LibInv, AdaptersOfThisLoad
<1>2. heap' = heap
  <2>1. adapter(a) \notin heap /\ port(a) \notin heap
    BY <1>1 DEF LibInv, AdaptersOwnTheHeap, adapter, port
  <2> HIDE DEF a
  <2>2. PICK failure \in {"no port", "skip", "no insert", "no create"} :
          heap' = (heap \cup Allocated(failure, a)) \ FreedBy(failure, a)
    BY DEF ScanSkip, a
  <2>3. CASE failure = "no port"
    BY <2>1, <2>2, <2>3 DEF Allocated, FreedBy
  <2>4. CASE failure \in {"skip", "no insert", "no create"}
    BY <2>1, <2>2, <2>4 DEF Allocated, FreedBy
  <2> QED
    BY <2>3, <2>4
<1>3. /\ UNCHANGED <<khost, lib, loads, adapter_table, ad_index, ad_ports,
                     heap, discovered>>
      /\ hosts_todo' = hosts_todo \ {h}
  BY <1>2 DEF ScanSkip
<1>4. LibTypeOK' /\ AdaptersIndexed' /\ AdaptersOwnTheHeap'
  BY <1>3 DEF LibInv, LibTypeOK, AdaptersIndexed, AdaptersOwnTheHeap, Adapters,
              adapter_get_count
<1>5. AdaptersOfThisLoad'
  BY <1>3 DEF LibInv, AdaptersOfThisLoad, Adapters
<1> QED
  BY <1>4, <1>5 DEF LibInv

\* A new adapter goes to the end of the table, with its own port.
LEMMA ScanHostPreserves ==
  ASSUME LibInv, NEW h \in Host, ScanHost(h)
  PROVE  LibInv'
<1> DEFINE a == [hba |-> h, load |-> loads]
           n == adapter_table.st_limit
<1>0. /\ IsTable(adapter_table, Port) /\ IsClean(adapter_table)
      /\ NULL \notin Port /\ n \in Nat /\ a \notin Adapters
      /\ lib = "scanning" /\ h \in hosts_todo /\ khost[h] = "present"
      /\ IsTable(sa_table_init, Port) /\ IsClean(sa_table_init)
  BY PortAssumption, InitIsTable
  DEF ScanHost, hosts, LibInv, LibTypeOK, AdaptersIndexed, AdaptersOfThisLoad,
      IsTable
<1>1. a \in Port
  <2>1. loads \in 1 .. MaxLoads
    <3>1. loads \in 0 .. MaxLoads /\ loads # 0
      BY <1>0 DEF LibInv, LibTypeOK, AdaptersOfThisLoad
    <3> QED
      BY <3>1, HostAssumption
  <2> QED
    BY <2>1, PortsAreMade
<1> HIDE DEF a
<1> PICK ok1 \in BOOLEAN :
      LET res == sa_table_insert(sa_table_init, ap_index(a), a, ok1)
      IN  res.rc # -1 /\ ad_ports' = [ad_ports EXCEPT ![a] = res.tp]
  BY DEF ScanHost, a
<1> PICK ok2 \in BOOLEAN :
      LET res == sa_table_append(adapter_table, a, ok2)
      IN  /\ res.rc # -1
          /\ adapter_table' = res.tp
          /\ ad_index' = [ad_index EXCEPT ![a] = adapter_create_index(res.rc)]
  BY DEF ScanHost, a
<1> DEFINE u == sa_table_insert(sa_table_init, ap_index(a), a, ok1)
           v == sa_table_append(adapter_table, a, ok2)
<1>2. /\ IsTable(u.tp, Port) /\ Entries(u.tp) = {a}
      /\ UsedSlots(u.tp) = {ap_index(a)}
      /\ u.rc # -1 /\ ad_ports' = [ad_ports EXCEPT ![a] = u.tp]
  <2>1. /\ ap_index(a) \in Nat
        /\ sa_table_lookup(sa_table_init, ap_index(a)) = NULL
        /\ Entries(sa_table_init) = {}
    BY InitEntries DEF ap_index, sa_table_lookup, sa_table_init
  <2>2. u.rc # -1 /\ ad_ports' = [ad_ports EXCEPT ![a] = u.tp]
    OBVIOUS
  <2>3. IsTable(u.tp, Port)
    BY <1>0, <1>1, <2>1, InsertSafe
  <2>4. Entries(u.tp) = Entries(sa_table_init) \cup {a}
    BY <1>0, <1>1, <2>1, <2>2, InsertFree
  <2>5. \A j \in Nat : sa_table_lookup(u.tp, j) = IF j = ap_index(a) THEN a ELSE NULL
    <3>1. \A j \in Nat : sa_table_lookup(u.tp, j) =
            IF j = ap_index(a) THEN a ELSE sa_table_lookup(sa_table_init, j)
      BY <1>0, <1>1, <2>1, <2>2, InsertSafe
    <3>2. \A j \in Nat : sa_table_lookup(sa_table_init, j) = NULL
      BY DEF sa_table_lookup, sa_table_init
    <3> QED
      BY <3>1, <3>2
  <2>6. UsedSlots(u.tp) = {ap_index(a)}
    <3>1. a # NULL
      BY <1>0, <1>1
    <3> HIDE DEF u
    <3>2. \A j : j \in UsedSlots(u.tp) <=> j \in Nat /\ sa_table_lookup(u.tp, j) # NULL
      BY <2>3, UsedLookup
    <3> QED
      BY <2>1, <2>5, <3>1, <3>2
  <2> QED
    BY <2>1, <2>2, <2>3, <2>4, <2>6
<1>3. /\ IsTable(v.tp, Port) /\ IsClean(v.tp)
      /\ Entries(v.tp) = Adapters \cup {a}
      /\ v.rc = n /\ v.tp.st_limit = n + 1
      /\ \A j \in Nat : sa_table_lookup(v.tp, j) =
           IF j = n THEN a ELSE sa_table_lookup(adapter_table, j)
      /\ adapter_table' = v.tp
      /\ ad_index' = [ad_index EXCEPT ![a] = v.rc]
  <2>1. v.rc # -1 /\ adapter_table' = v.tp
        /\ ad_index' = [ad_index EXCEPT ![a] = v.rc]
    BY DEF adapter_create_index
  <2>2. /\ IsTable(v.tp, Port) /\ IsClean(v.tp)
        /\ Entries(v.tp) = Adapters \cup {a}
        /\ \A j \in Nat : sa_table_lookup(v.tp, j) =
             IF j = n THEN a ELSE sa_table_lookup(adapter_table, j)
    BY <1>0, <1>1, <2>1, AppendSafe DEF Adapters
  <2>3. v.rc = n /\ v.tp.st_limit = n + 1
    <3>1. v = sa_table_insert(adapter_table, n, a, ok2)
      BY DEF sa_table_append
    <3> QED
      BY <1>0, <1>1, <2>1, <3>1, InsertSafe
  <2> QED
    BY <2>1, <2>2, <2>3
<1> HIDE DEF u, v
<1>4. /\ UNCHANGED <<khost, lib, loads>>
      /\ hosts_todo' = hosts_todo \ {h}
      /\ heap' = heap \cup {adapter(a), port(a)}
      /\ discovered' = [discovered EXCEPT
                            ![a] = [counted |-> counting_rports(h),
                                    there |-> {r \in present : r.hba = h}]]
  BY DEF ScanHost, a
<1>5. Adapters' = Adapters \cup {a}
  BY <1>3 DEF Adapters
<1>6. LibTypeOK'
  <2>1. \A b \in Port : IsTable(ad_ports'[b], Port)
    BY <1>1, <1>2 DEF LibInv, LibTypeOK
  <2>2. ad_index' \in [Port -> Nat]
    BY <1>0, <1>3 DEF LibInv, LibTypeOK
  <2>3. discovered' \in [Port -> [counted : SUBSET Rport, there : SUBSET Rport]]
    BY <1>4 DEF LibInv, LibTypeOK, counting_rports, present
  <2>4. heap' \subseteq {adapter(b) : b \in Port} \cup {port(b) : b \in Port}
    BY <1>1, <1>4 DEF LibInv, LibTypeOK
  <2>5. DOMAIN ad_ports' = Port
    BY <1>2 DEF LibInv, LibTypeOK
  <2> QED
    BY <1>3, <1>4, <2>1, <2>2, <2>3, <2>4, <2>5 DEF LibInv, LibTypeOK
<1>7. AdaptersIndexed'
  <2> SUFFICES ASSUME NEW i \in 0 .. n
               PROVE  /\ sa_table_lookup(v.tp, i) # NULL
                      /\ ad_index'[sa_table_lookup(v.tp, i)] = i
    BY <1>0, <1>3 DEF AdaptersIndexed, adapter_get_count
  <2>1. CASE i = n
    BY <1>0, <1>1, <1>3, <2>1 DEF LibInv, LibTypeOK
  <2>2. CASE i # n
    <3> DEFINE b == sa_table_lookup(adapter_table, i)
    <3>1. b # NULL /\ ad_index[b] = i /\ sa_table_lookup(v.tp, i) = b
      BY <1>0, <1>3, <2>2 DEF LibInv, AdaptersIndexed, adapter_get_count
    <3>2. b \in Adapters /\ b \in Port
      BY <1>0, <3>1, EntriesLookup, LookupType DEF Adapters
    <3> HIDE DEF b
    <3>3. b # a
      BY <1>0, <3>2
    <3> QED
      BY <1>3, <3>1, <3>2, <3>3 DEF LibInv, LibTypeOK
  <2> QED
    BY <2>1, <2>2
<1>8. AdaptersOfThisLoad'
  BY <1>0, <1>4, <1>5 DEF LibInv, AdaptersOfThisLoad, a
<1>9. AdaptersOwnTheHeap'
  <2>1. ASSUME NEW b \in Adapters'
        PROVE  /\ Entries(ad_ports'[b]) = {b}
               /\ UsedSlots(ad_ports'[b]) = {ap_index(b)}
    <3>1. CASE b = a
      BY <1>1, <1>2, <3>1 DEF LibInv, LibTypeOK
    <3>2. CASE b # a
      BY <1>1, <1>2, <1>5, <2>1, <3>2, AdaptersType
      DEF LibInv, LibTypeOK, AdaptersOwnTheHeap
    <3> QED
      BY <3>1, <3>2
  <2>2. heap' = {adapter(b) : b \in Adapters'} \cup {port(b) : b \in Adapters'}
    BY <1>4, <1>5 DEF LibInv, AdaptersOwnTheHeap
  <2> QED
    BY <2>1, <2>2 DEF AdaptersOwnTheHeap
<1> QED
  BY <1>6, <1>7, <1>8, <1>9 DEF LibInv

\* free_library frees what the table reaches, which is all there is.
LEMMA FreePreserves ==
  ASSUME LibInv, FreeLibrary
  PROVE  LibInv'
<1>1. \A a \in Adapters : adapter_destroy(a) = {port(a), adapter(a)}
  BY DEF adapter_destroy, FreedByDestroyAll, LibInv, AdaptersOwnTheHeap
<1>2. heap' = {}
  BY <1>1 DEF FreeLibrary, LibInv, AdaptersOwnTheHeap, Adapters
<1>3. /\ adapter_table' = sa_table_init /\ Adapters' = {}
      /\ adapter_get_count' = 0 /\ lib' = "unloaded"
      /\ UNCHANGED <<khost, loads, hosts_todo, ad_index>>
      /\ discovered' \in [Port -> [counted : SUBSET Rport, there : SUBSET Rport]]
  <2>1. adapter_table' = sa_table_init
    BY DEF FreeLibrary, sa_table_destroy
  <2>2. adapter_table'.st_limit = 0
    BY <2>1 DEF sa_table_init
  <2>3. discovered' \in [Port -> [counted : SUBSET Rport, there : SUBSET Rport]]
    BY DEF FreeLibrary, none_counted, LibInv, LibTypeOK
  <2> QED
    BY <2>1, <2>2, <2>3, InitEntries DEF FreeLibrary, Adapters, adapter_get_count
<1>4. /\ DOMAIN ad_ports' = Port
      /\ \A a \in Port : IsTable(ad_ports'[a], Port)
  BY InitIsTable DEF FreeLibrary, sa_table_destroy, LibInv, LibTypeOK
<1>5. IsTable(sa_table_init, Port) /\ IsClean(sa_table_init)
  BY InitIsTable
<1>6. LibTypeOK'
  BY <1>2, <1>3, <1>4, <1>5 DEF LibInv, LibTypeOK
<1>7. AdaptersIndexed'
  BY <1>3, <1>5 DEF AdaptersIndexed
<1>8. AdaptersOfThisLoad'
  BY <1>3 DEF FreeLibrary, LibInv, AdaptersOfThisLoad
<1>9. AdaptersOwnTheHeap'
  BY <1>2, <1>3 DEF AdaptersOwnTheHeap
<1> QED
  BY <1>6, <1>7, <1>8, <1>9 DEF LibInv

\* The adapters stay indexed and own the heap, through failing scans and
\* through any number of loads.
THEOREM LibInvariant == LibSpec => []LibInv
<1>1. LibInv /\ [LibNext]_allVars => LibInv'
  <2> SUFFICES ASSUME LibInv, LibNext \/ UNCHANGED allVars PROVE LibInv'
    OBVIOUS
  <2>1. CASE \E h \in Host : HostAdd(h) \/ HostRemove(h)
    BY <2>1, QuietPreserves
  <2>2. CASE RportEvent \/ UseRports \/ RportStep \/ UNCHANGED allVars
    BY <2>2, LibUnchanged DEF RportEvent, UseRports, RportStep, allVars
  <2>3. CASE Load
    BY <2>3, QuietPreserves, SkipKeepsHeap, ScanHostPreserves DEF Load
  <2>4. CASE FreeLibrary
    BY <2>4, FreePreserves
  <2> QED
    BY <2>1, <2>2, <2>3, <2>4 DEF LibNext
<1> QED
  BY <1>1, LibInitInv, PTL DEF LibSpec

\* No adapter or port is leaked, and none is reachable after it was freed.
THEOREM HeapExactTheorem == LibSpec => []HeapExact
<1>1. LibInv => HeapExact
  <2> SUFFICES ASSUME LibInv PROVE HeapExact
    OBVIOUS
  <2>1. \A a \in Adapters :
          {adapter(a)} \cup {port(p) : p \in Entries(ad_ports[a])}
            = {adapter(a), port(a)}
    BY DEF LibInv, AdaptersOwnTheHeap
  <2>2. heap = {adapter(a) : a \in Adapters} \cup {port(a) : a \in Adapters}
    BY DEF LibInv, AdaptersOwnTheHeap
  <2>3. heap = UNION {{adapter(a), port(a)} : a \in Adapters}
    BY <2>2
  <2> QED
    BY <2>1, <2>3 DEF HeapExact, Adapters
<1> QED
  BY <1>1, LibInvariant, PTL

\* The name of every index opens the adapter of that index, interfaces shared
\* by several adapters included.
THEOREM NameRoundTripTheorem == LibSpec => []NameRoundTrip
<1>1. LibInv => NameRoundTrip
  <2> SUFFICES ASSUME LibInv, NEW i \in 0 .. adapter_get_count - 1
               PROVE  LET handle == adapter_open(adapter_get_name(i))
                          ap     == adapter_open_handle(handle)
                      IN  /\ handle = adapter_handle_offset + i
                          /\ ap # NULL
                          /\ ad_index[ap] = i
    BY DEF NameRoundTrip
  <2> DEFINE found == {j \in 0 .. adapter_get_count - 1 :
                         /\ \A k \in 0 .. j : legal_index(k)
                         /\ adapter_get_name(j) = adapter_get_name(i)}
  <2>1. adapter_get_count \in Nat
    BY DEF LibInv, LibTypeOK, IsTable, adapter_get_count
  <2>2. \A j \in 0 .. adapter_get_count - 1 : legal_index(j)
    BY DEF LibInv, AdaptersIndexed, legal_index
  <2>3. \A j \in found : j = i
    BY DEF adapter_get_name
  <2>4. i \in found
    BY <2>1, <2>2
  <2>5. found = {i}
    BY <2>3, <2>4
  <2>6. adapter_open(adapter_get_name(i)) = first_handle(found)
    BY DEF adapter_open
  <2> HIDE DEF found
  <2>7. first_handle(found) = adapter_handle_offset + i
    BY <2>1, <2>5 DEF first_handle
  <2>8. adapter_open_handle(adapter_handle_offset + i)
          = sa_table_lookup(adapter_table, i)
    BY <2>1 DEF adapter_open_handle, adapter_handle_offset
  <2> QED
    BY <2>6, <2>7, <2>8 DEF LibInv, AdaptersIndexed
<1> QED
  BY <1>1, LibInvariant, PTL

\* Every step of the library is a step of the cache, or one the cache does not
\* see, so the theorems about RportCache hold of the library too.
THEOREM CacheSpecTheorem == LibSpec => CacheSpec
<1>1. LibInit => Init
  BY DEF LibInit
<1>2. LibInv /\ [LibNext]_allVars => [Next]_vars
  <2> SUFFICES ASSUME LibInv, LibNext \/ UNCHANGED allVars
               PROVE  Next \/ UNCHANGED vars
    OBVIOUS
  <2>1. CASE \E h \in Host : HostAdd(h) \/ HostRemove(h)
    BY <2>1 DEF HostAdd, HostRemove, HostEvent
  <2>2. CASE RportEvent
    BY <2>2 DEF RportEvent, Next, Kernel
  <2>3. CASE Load
    BY <2>3 DEF Load, LoadLibrary, ScanNoMemory, ScanSkip, ScanHost, LoadReturn
  <2>4. CASE UseRports
    <3>1. PICK handle \in Handles : /\ adapter_get_port(handle, 0) # NULL
                                    /\ Call(adapter_get_port(handle, 0))
      BY <2>4 DEF UseRports
    <3>2. PICK i \in 0 .. adapter_get_count - 1 :
            handle = adapter_handle_offset + i
      BY DEF Handles
    <3>3. i \in Nat /\ adapter_open_handle(handle)
                          = sa_table_lookup(adapter_table, i)
      BY <3>2 DEF adapter_open_handle, adapter_handle_offset
    <3>4. adapter_open_handle(handle) \in Port \cup {NULL}
      BY <3>3, AdaptersType, LookupType
    <3>5. adapter_get_port(handle, 0) \in Port
      BY <3>1, <3>4, LookupType DEF adapter_get_port, LibInv, LibTypeOK
    <3> QED
      BY <3>1, <3>5 DEF Next
  <2>5. CASE RportStep
    BY <2>5 DEF RportStep, Next
  <2>6. CASE FreeLibrary
    BY <2>6 DEF FreeLibrary
  <2>7. CASE UNCHANGED allVars
    BY <2>7 DEF allVars
  <2> QED
    BY <2>1, <2>2, <2>3, <2>4, <2>5, <2>6, <2>7 DEF LibNext
<1> QED
  BY <1>1, <1>2, LibInvariant, PTL DEF LibSpec, CacheSpec

----------------------------------------------------------------------------
(* Handles *)

\* A host that is scanned gets the index past the last one; no other index
\* changes its adapter.
LEMMA ScanHostAppends ==
  ASSUME LibInv, NEW h \in Host, ScanHost(h),
         NEW i \in 0 .. adapter_get_count - 1
  PROVE  sa_table_lookup(adapter_table', i) = sa_table_lookup(adapter_table, i)
<1> DEFINE a == [hba |-> h, load |-> loads]
           n == adapter_table.st_limit
<1>1. a \in Port
  <2>1. loads \in 0 .. MaxLoads /\ loads # 0
    BY DEF ScanHost, LibInv, LibTypeOK, AdaptersOfThisLoad
  <2>2. loads \in 1 .. MaxLoads
    BY <2>1, HostAssumption
  <2> QED
    BY <2>2, PortsAreMade
<1> HIDE DEF a
<1>2. PICK ok \in BOOLEAN :
        /\ sa_table_append(adapter_table, a, ok).rc # -1
        /\ adapter_table' = sa_table_append(adapter_table, a, ok).tp
  BY DEF ScanHost, a
<1>3. /\ IsTable(adapter_table, Port) /\ IsClean(adapter_table)
      /\ NULL \notin Port /\ n \in Nat
  BY PortAssumption DEF LibInv, LibTypeOK, AdaptersIndexed, IsTable
<1>4. \A j \in Nat : sa_table_lookup(adapter_table', j) =
        IF j = n THEN a ELSE sa_table_lookup(adapter_table, j)
  BY <1>1, <1>2, <1>3, AppendSafe
<1> QED
  BY <1>3, <1>4 DEF adapter_get_count

\* No step but free_library changes the adapter a handle leads to: neither the
\* scan that is still adding adapters, nor a call, nor the kernel.
THEOREM HandlesKeepTheorem == LibSpec => HandlesKeep
<1>1. LibInv /\ [LibNext]_allVars =>
        [\A handle \in Handles : lib' # "unloaded" =>
           (adapter_open_handle(handle))' = adapter_open_handle(handle)]_allVars
  <2> SUFFICES ASSUME LibInv, LibNext, NEW handle \in Handles, lib' # "unloaded"
               PROVE  (adapter_open_handle(handle))' = adapter_open_handle(handle)
    OBVIOUS
  <2>1. PICK i \in 0 .. adapter_get_count - 1 : handle = adapter_handle_offset + i
    BY DEF Handles
  <2>2. ASSUME NEW t
        PROVE  (IF handle < adapter_handle_offset THEN NULL
                ELSE sa_table_lookup(t, handle - adapter_handle_offset))
               = sa_table_lookup(t, i)
    BY <2>1 DEF adapter_handle_offset
  <2>3. /\ adapter_open_handle(handle) = sa_table_lookup(adapter_table, i)
        /\ (adapter_open_handle(handle))' = sa_table_lookup(adapter_table', i)
    BY <2>2 DEF adapter_open_handle, adapter_handle_offset
  <2>4. ASSUME NEW h \in Host, ScanHost(h)
        PROVE  sa_table_lookup(adapter_table', i) = sa_table_lookup(adapter_table, i)
    BY <2>4, ScanHostAppends
  <2>5. ~FreeLibrary
    BY DEF FreeLibrary
  <2>6. CASE ~\E h \in Host : ScanHost(h)
    <3>1. adapter_table' = adapter_table
      BY <2>5, <2>6
      DEF LibNext, HostAdd, HostRemove, HostEvent, RportEvent, Load, LoadLibrary,
          ScanNoMemory, ScanSkip, LoadReturn, UseRports, RportStep, libVars
    <3> QED
      BY <2>3, <3>1
  <2> QED
    BY <2>3, <2>4, <2>6
<1> QED
  BY <1>1, LibInvariant, PTL DEF LibSpec, HandlesKeep

----------------------------------------------------------------------------
(* NumberofDiscoveredPorts *)

\* Nothing has been claimed or counted at first.
LEMMA CountInitInv == LibInit => CountInv
<1> SUFFICES ASSUME LibInit PROVE CountInv
  OBVIOUS
<1>1. LibInv
  BY LibInitInv
<1>2. CacheInv
  BY CacheInit DEF LibInit
<1>3. ClaimsOfLoads
  BY DEF LibInit, Init, ClaimsOfLoads
<1>4. CountsThere
  BY DEF LibInit, CountsThere, none_counted
<1> QED
  BY <1>1, <1>2, <1>3, <1>4 DEF CountInv

\* A load before which nobody claims leaves the claims in order.
LEMMA ClaimsKept ==
  ASSUME CountInv, loads' \in Nat, loads <= loads',
         UNCHANGED <<cur, ap_adapt, served>>,
         cur # NULL => lib' = lib /\ loads' = loads
  PROVE  ClaimsOfLoads'
<1>1. loads \in Nat
  BY HostAssumption DEF CountInv, LibInv, LibTypeOK
<1>2. \A r \in Rport : ap_adapt[r] # NULL => ap_adapt[r].load \in Nat
  <2>1. \A r \in Rport : ap_adapt[r] \in Port \cup {NULL}
    BY DEF CountInv, CacheInv, TypeOK
  <2>2. \A p \in Port : p.load \in Nat
    BY PortsAreMade, HostAssumption
  <2> QED
    BY <2>1, <2>2
<1> QED
  BY <1>1, <1>2 DEF CountInv, ClaimsOfLoads, Matches, ap_index


\* The port a handle leads to belongs to an adapter of the current load.
LEMMA PortOfThisLoad ==
  ASSUME LibInv, NEW handle \in Handles, adapter_get_port(handle, 0) # NULL
  PROVE  /\ adapter_get_port(handle, 0) \in Port
         /\ adapter_get_port(handle, 0).load = loads
<1>1. PICK i \in 0 .. adapter_get_count - 1 : handle = adapter_handle_offset + i
  BY DEF Handles
<1>2. i \in Nat /\ adapter_open_handle(handle) = sa_table_lookup(adapter_table, i)
  BY <1>1 DEF adapter_open_handle, adapter_handle_offset
<1> DEFINE ap == adapter_open_handle(handle)
<1>3. ap # NULL /\ adapter_get_port(handle, 0) = sa_table_lookup(ad_ports[ap], 0)
  BY DEF adapter_get_port
<1>4. ap \in Adapters /\ ap \in Port
  BY <1>2, <1>3, AdaptersType, EntriesLookup DEF Adapters
<1>5. IsTable(ad_ports[ap], Port)
  BY <1>4 DEF LibInv, LibTypeOK
<1> HIDE DEF ap
<1>6. adapter_get_port(handle, 0) \in Entries(ad_ports[ap])
  BY <1>3, <1>5, EntriesLookup
<1> QED
  BY <1>4, <1>6 DEF LibInv, AdaptersOwnTheHeap, AdaptersOfThisLoad

\* The steps of a call claim for the port of the call, whose load is current,
\* and take nothing over from a port that was answered.
LEMMA StepKeepsClaims ==
  ASSUME CountInv, Step, UNCHANGED libVars
  PROVE  ClaimsOfLoads'
<1>1. /\ loads \in Nat /\ loads' = loads /\ lib' = lib
      /\ ap_adapt \in [Rport -> Port \cup {NULL}] /\ cur \in Port \cup {NULL}
      /\ (cur = NULL) <=> (pc = "idle")
      /\ served \subseteq Port
  BY HostAssumption DEF CountInv, LibInv, LibTypeOK, CacheInv, TypeOK, libVars
<1>2. \A p \in Port : p.load \in Nat
  BY PortsAreMade, HostAssumption
<1>3. CASE CloseDir \/ \E r \in Rport : DropEntry(r) \/ NoMemory(r)
  <2>1. UNCHANGED <<cur, ap_adapt, served>>
    BY <1>3 DEF CloseDir, DropEntry, NoMemory, cacheVars
  <2> QED
    BY <1>1, <2>1, ClaimsKept
<1>4. ASSUME NEW r \in Rport, AddEntry(r)
      PROVE  ClaimsOfLoads'
  <2>1. UNCHANGED <<cur, served>> /\ ap_adapt' = [ap_adapt EXCEPT ![r] = NULL]
    BY <1>4 DEF AddEntry
  <2>2. \A q \in Rport : ap_adapt'[q] \in {NULL, ap_adapt[q]}
    BY <1>1, <2>1
  <2> QED
    BY <1>1, <2>1, <2>2 DEF CountInv, ClaimsOfLoads, Matches, ap_index
<1>5. CASE WalkStep /\ Claimable(walked)
  <2>1. /\ Matches(walked, cur) /\ ap_adapt[walked] = NULL
        /\ walked \in Entries(rports_table) /\ walked \in Rport
        /\ cur # NULL
    BY <1>1, <1>5, ClaimFindsSlotFree
    DEF CountInv, CacheInv, WalkStep, Walking, Claimable
  <2>2. UNCHANGED <<cur, served>> /\ ap_adapt' = [ap_adapt EXCEPT ![walked] = cur]
    BY <1>5 DEF WalkStep, Claim
  <2>3. \A p \in served : ~Matches(walked, p)
    BY <2>1 DEF CountInv, CacheInv, ServedClaimed
  <2>4. cur.load = loads /\ lib = "loaded"
    BY <2>1 DEF CountInv, ClaimsOfLoads
  <2>5. \A q \in Rport : ap_adapt'[q] = IF q = walked THEN cur ELSE ap_adapt[q]
    BY <1>1, <2>2
  <2>6. \A q \in Rport : ap_adapt'[q] # NULL => ap_adapt'[q].load <= loads
    BY <1>1, <2>4, <2>5 DEF CountInv, ClaimsOfLoads
  <2>7. ASSUME NEW p \in served, NEW q \in Rport, Matches(q, p), ap_adapt'[q] # NULL
        PROVE  ap_adapt'[q].load <= p.load
    BY <2>3, <2>5, <2>7 DEF CountInv, ClaimsOfLoads
  <2> QED
    BY <1>1, <2>2, <2>4, <2>6, <2>7 DEF ClaimsOfLoads, Matches, ap_index
<1>6. CASE WalkStep /\ ~Claimable(walked)
  <2>1. UNCHANGED <<cur, ap_adapt, served>>
    BY <1>6 DEF WalkStep
  <2> QED
    BY <1>1, <2>1, ClaimsKept
<1>7. CASE Return
  <2>1. /\ cur' = NULL /\ UNCHANGED ap_adapt /\ served' \subseteq served \cup {cur}
        /\ cur # NULL
    BY <1>1, <1>7 DEF Return, cacheVars
  <2>2. cur.load = loads
    BY <2>1 DEF CountInv, ClaimsOfLoads
  <2>3. ASSUME NEW p \in served', NEW q \in Rport, Matches(q, p), ap_adapt[q] # NULL
        PROVE  ap_adapt[q].load <= p.load
    BY <2>1, <2>2, <2>3 DEF CountInv, ClaimsOfLoads
  <2> QED
    BY <1>1, <2>1, <2>3 DEF CountInv, ClaimsOfLoads, Matches, ap_index
<1> QED
  BY <1>3, <1>4, <1>5, <1>6, <1>7 DEF Step, ReadEntry

\* Every step of the library keeps the claims in order.
LEMMA ClaimsNext ==
  ASSUME CountInv, LibNext \/ UNCHANGED allVars
  PROVE  ClaimsOfLoads'
<1>1. /\ loads \in Nat
      /\ (cur = NULL) <=> (pc = "idle")
      /\ cur # NULL => lib = "loaded"
  BY HostAssumption DEF CountInv, LibInv, LibTypeOK, CacheInv, TypeOK, ClaimsOfLoads
<1>2. CASE UNCHANGED allVars \/ \E h \in Host : HostAdd(h) \/ HostRemove(h)
  <2>1. UNCHANGED <<cur, ap_adapt, served, loads, lib>>
    BY <1>2 DEF allVars, vars, cacheVars, callVars, libVars, HostAdd, HostRemove, HostEvent
  <2>2. /\ loads' \in Nat /\ loads <= loads'
        /\ UNCHANGED <<cur, ap_adapt, served>>
        /\ cur # NULL => lib' = lib /\ loads' = loads
    BY <1>1, <2>1
  <2> QED
    BY <2>2, ClaimsKept
<1>3. CASE RportEvent
  <2>1. UNCHANGED <<cur, ap_adapt, served, loads, lib>>
    BY <1>3 DEF RportEvent, HotPlug, Unplug, cacheVars, libVars
  <2>2. /\ loads' \in Nat /\ loads <= loads'
        /\ UNCHANGED <<cur, ap_adapt, served>>
        /\ cur # NULL => lib' = lib /\ loads' = loads
    BY <1>1, <2>1
  <2> QED
    BY <2>2, ClaimsKept
<1>4. CASE Load
  <2>1. /\ UNCHANGED <<cur, ap_adapt, served>>
        /\ loads' \in {loads, loads + 1}
        /\ cur # NULL => lib' = lib /\ loads' = loads
    BY <1>1, <1>4
    DEF Load, LoadLibrary, ScanNoMemory, ScanSkip, ScanHost, LoadReturn, vars,
        cacheVars, callVars
  <2>2. /\ loads' \in Nat /\ loads <= loads'
        /\ UNCHANGED <<cur, ap_adapt, served>>
        /\ cur # NULL => lib' = lib /\ loads' = loads
    BY <1>1, <2>1
  <2> QED
    BY <2>2, ClaimsKept
<1>5. CASE UseRports
  <2>1. PICK handle \in Handles : /\ adapter_get_port(handle, 0) # NULL
                                  /\ Call(adapter_get_port(handle, 0))
    BY <1>5 DEF UseRports
  <2>2. /\ cur'.load = loads /\ lib = "loaded"
        /\ UNCHANGED <<ap_adapt, served, loads, lib>>
    BY <1>5, <2>1, PortOfThisLoad DEF CountInv, UseRports, Call, cacheVars, libVars
  <2> QED
    BY <1>1, <2>2 DEF CountInv, ClaimsOfLoads, Matches, ap_index
<1>6. CASE RportStep
  BY <1>6, StepKeepsClaims DEF RportStep
<1>7. CASE FreeLibrary
  <2>1. UNCHANGED <<cur, ap_adapt, served, loads>> /\ cur = NULL
    BY <1>1, <1>7 DEF FreeLibrary, vars, cacheVars, callVars
  <2>2. /\ loads' \in Nat /\ loads <= loads'
        /\ UNCHANGED <<cur, ap_adapt, served>>
        /\ cur # NULL => lib' = lib /\ loads' = loads
    BY <1>1, <2>1
  <2> QED
    BY <2>2, ClaimsKept
<1> QED
  BY <1>2, <1>3, <1>4, <1>5, <1>6, <1>7 DEF LibNext

\* A scan counts the remote ports of its host that are there.
LEMMA CountsNext ==
  ASSUME CountInv, LibNext \/ UNCHANGED allVars
  PROVE  CountsThere'
<1>1. DOMAIN discovered = Port
  BY DEF CountInv, LibInv, LibTypeOK
<1>2. ASSUME NEW h \in Host, ScanHost(h)
      PROVE  CountsThere'
  <2>1. PICK a, S : discovered' = [discovered EXCEPT
                                    ![a] = [counted |-> S, there |-> S]]
    BY <1>2 DEF ScanHost, counting_rports
  <2>2. \A p \in Port : discovered'[p] =
          IF p = a THEN [counted |-> S, there |-> S] ELSE discovered[p]
    BY <1>1, <2>1
  <2> QED
    BY <2>2 DEF CountInv, CountsThere
<1>3. CASE FreeLibrary
  <2>1. \A p \in Port : discovered'[p] \in {none_counted, discovered[p]}
    BY <1>3 DEF FreeLibrary
  <2>2. none_counted.counted = none_counted.there
    BY DEF none_counted
  <2> QED
    BY <2>1, <2>2 DEF CountInv, CountsThere
<1>4. CASE ~FreeLibrary /\ ~\E h \in Host : ScanHost(h)
  <2>1. discovered' = discovered
    BY <1>4
    DEF LibNext, HostAdd, HostRemove, HostEvent, RportEvent, Load, LoadLibrary,
        ScanNoMemory, ScanSkip, LoadReturn, UseRports, RportStep, libVars, allVars
  <2> QED
    BY <2>1 DEF CountInv, CountsThere
<1> QED
  BY <1>2, <1>3, <1>4

\* The library keeps what the cache keeps, and no load takes over a remote port
\* from a port of an earlier load that was answered.
THEOREM CountInvariance == LibSpec => []CountInv
<1>1. LibSpec => []CacheInv
  BY CacheSpecTheorem, CacheInit, StepPreserves, PTL DEF CacheSpec
<1>2. CountInv /\ [LibNext]_allVars /\ LibInv' /\ CacheInv' => CountInv'
  <2> SUFFICES ASSUME CountInv, LibNext \/ UNCHANGED allVars, LibInv', CacheInv'
               PROVE  CountInv'
    OBVIOUS
  <2>1. ClaimsOfLoads' /\ CountsThere'
    BY ClaimsNext, CountsNext
  <2> QED
    BY <2>1 DEF CountInv
<1> QED
  BY <1>1, <1>2, CountInitInv, LibInvariant, PTL DEF LibSpec


\* What is proved of the cache alone is true of it in the library: free_library
\* and another load leave every remote port with its one owner, at its number,
\* and no port that was answered without one that it is owed.
THEOREM CacheIsRightInLibrary ==
  LibSpec => [](Ownership /\ NoDuplicates /\ SlotFree /\ Delivered)
<1>1. CountInv => Ownership /\ NoDuplicates /\ SlotFree /\ Delivered
  BY CacheIsRight DEF CountInv
<1> QED
  BY <1>1, CountInvariance, PTL

\* An enumeration by position goes on undisturbed while hosts are scanned, the
\* adapters freed and the library loaded again.
THEOREM EnumerationStableInLibrary == LibSpec => EnumerationStable
<1>1. LibSpec => [][Next]_vars
  BY CacheSpecTheorem, PTL DEF CacheSpec
<1>2. CountInv => CacheInv
  BY DEF CountInv
<1> QED
  BY <1>1, <1>2, CountInvariance, AnsweredStays, PTL DEF EnumerationStable

\* What is owed to a port that was answered was claimed by the port of its host in
\* an earlier load, or is in its own table.
LEMMA OwedEarlierOrHere ==
  ASSUME CountInv, NEW p \in served, NEW r \in owed, Matches(r, p)
  PROVE  /\ p \in Port /\ r \in Rport
         /\ ap_adapt[r] \in Port /\ ap_adapt[r] # NULL
         /\ \/ ap_adapt[r].load < p.load
            \/ ap_adapt[r] = p /\ r \in Entries(ap_rports[p])
<1> DEFINE q == ap_adapt[r]
<1>1. p \in Port /\ r \in Rport
  BY DEF CountInv, CacheInv, TypeOK, owed
<1>2. q \in Port /\ q # NULL /\ r \in Entries(ap_rports[q])
  BY <1>1, OwedDelivered DEF CountInv, CacheInv, TypeOK
<1>3. q.hba = r.hba
  <2>1. PICK i \in UsedSlots(ap_rports[q]) : ap_rports[q].st_table[i] = r
    BY <1>2 DEF Entries
  <2>2. Matches(r, q)
    BY <1>2, <2>1 DEF CountInv, CacheInv, Ownership
  <2> QED
    BY <2>2 DEF Matches
<1>4. q.load <= p.load
  BY <1>1, <1>2 DEF CountInv, ClaimsOfLoads
<1>5. q = p \/ q.load < p.load
  <2>1. q \in [hba : Host, load : 1 .. MaxLoads] /\ p \in [hba : Host, load : 1 .. MaxLoads]
    BY <1>1, <1>2, PortsAreMade
  <2>2. CASE q.load = p.load
    BY <1>3, <2>1, <2>2 DEF Matches
  <2>3. CASE q.load # p.load
    BY <1>4, <2>1, <2>3, HostAssumption
  <2> QED
    BY <2>2, <2>3
<1> QED
  BY <1>1, <1>2, <1>5

\* Nobody can have claimed before the first load what is owed to its ports.
LEMMA FirstLoadOwns ==
  ASSUME CountInv, NEW p \in served, p.load = 1,
         NEW r \in owed, Matches(r, p)
  PROVE  r \in Entries(ap_rports[p])
<1>1. /\ ap_adapt[r] \in Port
      /\ ap_adapt[r].load < p.load \/ r \in Entries(ap_rports[p])
  BY OwedEarlierOrHere
<1>2. ap_adapt[r].load \in 1 .. MaxLoads
  BY <1>1, PortsAreMade
<1> QED
  BY <1>1, <1>2, HostAssumption

\* What AllDiscoveredAfterReload misses is missed after a reload only: a port of
\* the first load that was answered has in its own table every remote port that
\* it is owed, and keeps it, whatever is loaded later.
THEOREM FirstLoadTheorem ==
  LibSpec => [](\A p \in served : p.load = 1 =>
                  \A r \in owed :
                    Matches(r, p) => r \in Entries(ap_rports[p]))
<1>1. CountInv => \A p \in served : p.load = 1 =>
                    \A r \in owed :
                      Matches(r, p) => r \in Entries(ap_rports[p])
  BY FirstLoadOwns
<1> QED
  BY <1>1, CountInvariance, PTL

\* A caller that asks for NumberofDiscoveredPorts remote ports by position gets
\* as many, less those that were counted on another channel and those that an
\* earlier load claimed, if nothing appeared since the count and nothing was
\* dropped: the slots of the port's table and the other remote ports counted
\* correspond one to one.
THEOREM CountTheorem == LibSpec => []CountAccurate
<1>1. CountInv => CountAccurate
  <2> SUFFICES ASSUME CountInv, NEW p \in served, NEW seen,
                      seen = {r \in Rport : kern[r] # "absent" /\ r.hba = p.hba},
                      seen = discovered[p].there, seen \subseteq owed
               PROVE  Cardinality(UsedSlots(ap_rports[p]))
                        = Cardinality(discovered[p].counted \ miscounted(p))
    BY DEF CountAccurate
  <2> DEFINE tp == ap_rports[p]
             f  == [i \in UsedSlots(tp) |-> tp.st_table[i]]
             come == seen \ miscounted(p)
  <2>1. p \in Port /\ IsTable(tp, Rport) /\ discovered[p].counted = seen
    BY DEF CountInv, CacheInv, TypeOK, CountsThere
  <2>2. IsFiniteSet(UsedSlots(tp))
    BY <2>1, UsedFinite
  <2>3. ASSUME NEW i \in UsedSlots(tp)
        PROVE  /\ tp.st_table[i] \in come
               /\ tp.st_table[i].num = i
    <3>1. /\ tp.st_table[i].num = i /\ Matches(tp.st_table[i], p)
          /\ ap_adapt[tp.st_table[i]] = p
          /\ tp.st_table[i] \in Entries(rports_table)
      BY <2>1, <2>3 DEF CountInv, CacheInv, Ownership
    <3>2. tp.st_table[i] \in Rport
      <4>1. i \in Nat /\ tp.st_table[i] = sa_table_lookup(tp, i)
            /\ sa_table_lookup(tp, i) # NULL
        BY <2>1, <2>3, UsedLookup
      <4> QED
        BY <2>1, <4>1, LookupType
    <3>3. kern[tp.st_table[i]] # "absent"
      BY <3>1 DEF CountInv, CacheInv, ReadOnce
    <3>4. p.load \in 1 .. MaxLoads
      BY <2>1, PortsAreMade
    <3> QED
      BY <3>1, <3>2, <3>3, <3>4, HostAssumption DEF Matches, miscounted
  <2>4. ASSUME NEW r \in come
        PROVE  \E i \in UsedSlots(tp) : tp.st_table[i] = r
    <3>1. r \in discovered[p].counted /\ r \in owed /\ r.hba = p.hba
      BY <2>1
    <3>2. /\ r.chan = ap_index(p)
          /\ ~(ap_adapt[r] # NULL /\ ap_adapt[r].load < p.load)
      BY <3>1 DEF miscounted
    <3>3. Matches(r, p)
      BY <3>1, <3>2 DEF Matches
    <3>4. r \in Entries(ap_rports[p])
      BY <3>1, <3>2, <3>3, OwedEarlierOrHere
    <3> QED
      BY <3>4 DEF Entries
  <2>5. f \in Bijection(UsedSlots(tp), come)
    <3> DEFINE U == UsedSlots(tp)
    <3> HIDE DEF come
    <3>1. f \in [U -> come] /\ \A i \in U : f[i] = tp.st_table[i]
      BY <2>3
    <3>2. \A i, j \in U : f[i] = f[j] => i = j
      BY <2>3, <3>1
    <3>3. \A r \in come : \E i \in U : f[i] = r
      BY <2>4, <3>1
    <3> HIDE DEF f, U
    <3> QED
      BY <3>1, <3>2, <3>3
      DEF Bijection, Injection, Surjection, IsInjective, U
  <2> HIDE DEF f
  <2>6. ExistsBijection(UsedSlots(tp), come)
    BY <2>5 DEF ExistsBijection
  <2> QED
    BY <2>1, <2>2, <2>6, FS_Bijection
<1> QED
  BY <1>1, CountInvariance, PTL


----------------------------------------------------------------------------
(* Lookups by world-wide name *)

\* The adapter of a handle has one port, itself, at its index.
LEMMA OnePort ==
  ASSUME LibInv, NEW a \in Adapters
  PROVE  /\ a \in Port /\ a # NULL /\ a.hba \in Host
         /\ UsedSlots(ad_ports[a]) = {0} /\ ad_ports[a].st_table[0] = a
         /\ Entries(ad_ports[a]) = {a} /\ port(a) \in heap
<1>1. a \in Port /\ a # NULL
  BY AdaptersType
<1>2. a.hba \in Host
  BY <1>1, PortsAreMade
<1>3. /\ Entries(ad_ports[a]) = {a} /\ UsedSlots(ad_ports[a]) = {0}
      /\ port(a) \in heap
  BY DEF LibInv, AdaptersOwnTheHeap, ap_index
<1>4. ad_ports[a].st_table[0] = a
  BY <1>3 DEF Entries
<1> QED
  BY <1>1, <1>2, <1>3, <1>4

\* A handle leads to an adapter of the table.
LEMMA HandleOfAdapter ==
  ASSUME LibInv, NEW handle \in Handles
  PROVE  adapter_open_handle(handle) \in Adapters
<1>1. PICK i \in 0 .. adapter_get_count - 1 : handle = adapter_handle_offset + i
  BY DEF Handles
<1>2. i \in Nat /\ adapter_open_handle(handle) = sa_table_lookup(adapter_table, i)
  BY <1>1 DEF adapter_open_handle, adapter_handle_offset
<1>3. sa_table_lookup(adapter_table, i) # NULL
  BY DEF LibInv, AdaptersIndexed
<1> QED
  BY <1>2, <1>3, AdaptersType, EntriesLookup DEF Adapters

\* The indices in use are those of the adapters, one each.
LEMMA IndexOfAdapter ==
  ASSUME LibInv
  PROVE  /\ \A a \in Adapters : /\ ad_index[a] \in UsedSlots(adapter_table)
                                /\ at(ad_index[a]) = a
         /\ \A i \in UsedSlots(adapter_table) :
              i \in Nat /\ at(i) \in Adapters /\ ad_index[at(i)] = i
         /\ IsFiniteSet(UsedSlots(adapter_table))
<1>1. IsTable(adapter_table, Port) /\ adapter_table.st_limit \in Nat
  BY DEF LibInv, LibTypeOK, IsTable
<1>2. ASSUME NEW i \in UsedSlots(adapter_table)
      PROVE  i \in Nat /\ at(i) \in Adapters /\ ad_index[at(i)] = i
  <2>1. i \in 0 .. adapter_get_count - 1
    BY <1>2 DEF UsedSlots, adapter_get_count
  <2>2. at(i) # NULL /\ ad_index[at(i)] = i
    BY <2>1 DEF LibInv, AdaptersIndexed, at
  <2> QED
    BY <1>1, <2>1, <2>2, EntriesLookup DEF Adapters, at
<1>3. ASSUME NEW a \in Adapters
      PROVE  ad_index[a] \in UsedSlots(adapter_table) /\ at(ad_index[a]) = a
  <2>1. PICK i \in UsedSlots(adapter_table) : adapter_table.st_table[i] = a
    BY <1>3 DEF Adapters, Entries
  <2>2. at(i) = a
    BY <1>1, <2>1, UsedLookup DEF at
  <2> QED
    BY <1>2, <2>1, <2>2
<1> QED
  BY <1>1, <1>2, <1>3, UsedFinite

\* A matching pair of adapter_open_by_wwn belongs to one adapter, and an adapter
\* that carries the name has one matching pair, though both its names may fit.
LEMMA MatchesAreCarriers ==
  ASSUME LibInv, NEW wwn
  PROVE  LET found == node_matches(wwn) \cup port_matches(wwn)
             who   == {a \in Adapters : carries(a, wwn)}
         IN  /\ \A m \in found : m[1] \in UsedSlots(adapter_table) /\ at(m[1]) \in who
             /\ Cardinality(found) = Cardinality(who)
             /\ IsFiniteSet(who) /\ IsFiniteSet(found)
<1> DEFINE found == node_matches(wwn) \cup port_matches(wwn)
           who   == {a \in Adapters : carries(a, wwn)}
           U     == UsedSlots(adapter_table)
           fits(i) == carries(at(i), wwn)
           pair(i) == <<i, IF node_wwn[at(i).hba] = wwn THEN -1 ELSE 0>>
           V     == {i \in U : fits(i)}
           f     == [i \in V |-> pair(i)]
           g     == [i \in V |-> at(i)]
<1>1. /\ \A a \in Adapters : ad_index[a] \in U /\ at(ad_index[a]) = a
      /\ \A i \in U : i \in Nat /\ at(i) \in Adapters /\ ad_index[at(i)] = i
      /\ IsFiniteSet(U)
  BY IndexOfAdapter
<1>2. IsFiniteSet(V)
  BY <1>1, FS_Subset
<1>3. node_matches(wwn) = {<<i, -1>> : i \in {j \in U : node_wwn[at(j).hba] = wwn}}
  BY DEF node_matches
<1>4. port_matches(wwn) = {<<i, 0>> : i \in {j \in U : node_wwn[at(j).hba] # wwn
                                                     /\ port_wwn[at(j).hba] = wwn}}
  <2>1. ASSUME NEW i \in U
        PROVE  {q \in UsedSlots(ad_ports[at(i)]) :
                  port_wwn[ad_ports[at(i)].st_table[q].hba] = wwn}
                 = {q \in {0} : port_wwn[at(i).hba] = wwn}
    BY <1>1, <2>1, OnePort
  <2>2. \A m : m \in port_matches(wwn) <=>
          \E i \in U : /\ node_wwn[at(i).hba] # wwn
                       /\ \E q \in {r \in UsedSlots(ad_ports[at(i)]) :
                            port_wwn[ad_ports[at(i)].st_table[r].hba] = wwn} : m = <<i, q>>
    BY DEF port_matches
  <2>3. \A m : m \in port_matches(wwn) <=>
          \E i \in U : /\ node_wwn[at(i).hba] # wwn
                       /\ port_wwn[at(i).hba] = wwn /\ m = <<i, 0>>
    BY <2>1, <2>2
  <2> QED
    BY <2>3
<1>5. found = {pair(i) : i \in V}
  BY <1>3, <1>4 DEF carries
<1>6. who = {at(i) : i \in V}
  BY <1>1
<1>7. \A i, j \in V : (pair(i) = pair(j) => i = j) /\ (at(i) = at(j) => i = j)
  BY <1>1
<1>8. f \in Bijection(V, found) /\ g \in Bijection(V, who)
  <2>1. /\ f \in [V -> found] /\ \A i \in V : f[i] = pair(i)
        /\ g \in [V -> who] /\ \A i \in V : g[i] = at(i)
    BY <1>5, <1>6
  <2>2. /\ \A i, j \in V : f[i] = f[j] => i = j
        /\ \A i, j \in V : g[i] = g[j] => i = j
    BY <1>7, <2>1
  <2>3. /\ \A m \in found : \E i \in V : f[i] = m
        /\ \A a \in who : \E i \in V : g[i] = a
    BY <1>5, <1>6, <2>1
  <2> HIDE DEF f, g, V, found, who
  <2> QED
    BY <2>1, <2>2, <2>3 DEF Bijection, Injection, Surjection, IsInjective
<1>9. ExistsBijection(V, found) /\ ExistsBijection(V, who)
  BY <1>8 DEF ExistsBijection
<1>10. \A m \in found : m[1] \in U /\ at(m[1]) \in who
  BY <1>5, <1>6
<1> QED
  BY <1>2, <1>9, <1>10, FS_Bijection


\* adapter_open_by_wwn opens the one adapter that carries the name.
LEMMA OpensTheOneInv ==
  ASSUME LibInv
  PROVE  OpensTheOne
<1> SUFFICES ASSUME NEW wwn \in Wwn
             PROVE  LET who == {a \in Adapters : carries(a, wwn)}
                        res == adapter_open_by_wwn(wwn)
                    IN  /\ res.status = "OK" <=> Cardinality(who) = 1
                        /\ res.status = "AMBIGUOUS_WWN" <=> Cardinality(who) > 1
                        /\ res.status = "OK" => adapter_open_handle(res.handle) \in who
                        /\ res.status # "OK" => adapter_open_handle(res.handle) = NULL
  BY DEF OpensTheOne
<1> DEFINE who   == {a \in Adapters : carries(a, wwn)}
           found == node_matches(wwn) \cup port_matches(wwn)
           count == Cardinality(found)
           first == (CHOOSE m \in found : TRUE)[1]
           res   == adapter_open_by_wwn(wwn)
<1>1. /\ \A m \in found : m[1] \in UsedSlots(adapter_table) /\ at(m[1]) \in who
      /\ count = Cardinality(who) /\ IsFiniteSet(found)
  BY MatchesAreCarriers
<1>2. count \in Nat
  BY <1>1, FS_CardinalityType
<1>3. /\ res.status = CASE count = 1 -> "OK"
                        [] count > 1 -> "AMBIGUOUS_WWN"
                        [] count = 0 -> "ILLEGAL_WWN"
      /\ res.handle = IF count = 1 THEN ad_index[at(first)] + adapter_handle_offset
                      ELSE HBA_HANDLE_INVALID
  BY DEF adapter_open_by_wwn
<1>4. count = 1 => found # {}
  BY <1>1, FS_EmptySet
<1>5. count = 1 => first \in UsedSlots(adapter_table) /\ at(first) \in who
  BY <1>1, <1>4
<1> HIDE DEF first, count, found, res
<1>6. adapter_open_handle(HBA_HANDLE_INVALID) = NULL
  BY DEF adapter_open_handle, HBA_HANDLE_INVALID, adapter_handle_offset
<1>7. ASSUME count = 1
      PROVE  adapter_open_handle(ad_index[at(first)] + adapter_handle_offset) \in who
  <2>1. ad_index[at(first)] = first /\ first \in Nat
    BY <1>5, <1>7, IndexOfAdapter
  <2>2. adapter_open_handle(first + adapter_handle_offset) = at(first)
    BY <2>1 DEF adapter_open_handle, adapter_handle_offset, at
  <2> QED
    BY <1>5, <1>7, <2>1, <2>2
<1>8. CASE count = 1
  BY <1>1, <1>2, <1>3, <1>7, <1>8 DEF res
<1>9. CASE count > 1
  BY <1>1, <1>2, <1>3, <1>6, <1>9 DEF res
<1>10. CASE count = 0
  BY <1>1, <1>2, <1>3, <1>6, <1>10 DEF res
<1> QED
  BY <1>2, <1>8, <1>9, <1>10

\* adapter_get_port_by_wwn finds the port of the adapter if it has the name.
LEMMA PortByWwnInv ==
  ASSUME LibInv
  PROVE  PortByWwn
<1> SUFFICES ASSUME NEW handle \in Handles, NEW wwn \in Wwn
             PROVE  LET res == adapter_get_port_by_wwn(handle, wwn)
                    IN  /\ res.count <= 1
                        /\ res.pp # NULL =>
                             /\ port(res.pp) \in heap
                             /\ res.pp \in Entries(ad_ports[adapter_open_handle(handle)])
                             /\ port_wwn[res.pp.hba] = wwn
                        /\ port_wwn[adapter_open_handle(handle).hba] = wwn => res.pp # NULL
  BY DEF PortByWwn
<1> DEFINE ap    == adapter_open_handle(handle)
           found == IF ap = NULL THEN {}
                    ELSE {p \in UsedSlots(ad_ports[ap]) :
                            port_wwn[ad_ports[ap].st_table[p].hba] = wwn}
           res   == adapter_get_port_by_wwn(handle, wwn)
<1>1. ap \in Adapters
  BY HandleOfAdapter
<1>2. /\ ap # NULL /\ UsedSlots(ad_ports[ap]) = {0} /\ ad_ports[ap].st_table[0] = ap
      /\ Entries(ad_ports[ap]) = {ap} /\ port(ap) \in heap
  BY <1>1, OnePort
<1>3. /\ res.pp = IF Cardinality(found) = 1
                  THEN ad_ports[ap].st_table[CHOOSE p \in found : TRUE] ELSE NULL
      /\ res.count = Cardinality(found)
  BY DEF adapter_get_port_by_wwn
<1>4. CASE port_wwn[ap.hba] = wwn
  <2>1. found = {0}
    BY <1>2, <1>4
  <2>2. Cardinality(found) = 1
    BY <2>1, FS_Singleton
  <2> HIDE DEF found, res, ap
  <2>3. res.pp = ap /\ res.count = 1
    BY <1>2, <1>3, <2>1, <2>2
  <2> QED
    BY <1>2, <1>4, <2>3 DEF res, ap
<1>5. CASE port_wwn[ap.hba] # wwn
  <2>1. found = {}
    BY <1>2, <1>5
  <2>2. Cardinality(found) = 0
    BY <2>1, FS_EmptySet
  <2> HIDE DEF found, res, ap
  <2>3. res.pp = NULL /\ res.count = 0
    BY <1>3, <2>2
  <2> QED
    BY <1>5, <2>3 DEF res, ap
<1> QED
  BY <1>4, <1>5

\* A search by match function finds the first matching entry if there is one.
LEMMA SearchFinds ==
  ASSUME NEW E, NEW tp, IsTable(tp, E), NEW match
  PROVE  /\ sa_table_search(tp, match) = NULL \/ sa_table_search(tp, match) \in match \cap Entries(tp)
         /\ sa_table_search(tp, match) # NULL <=> \E e \in Entries(tp) : e \in match
         /\ sa_table_search(tp, match) # NULL =>
              \E i \in UsedSlots(tp) :
                /\ tp.st_table[i] = sa_table_search(tp, match)
                /\ \A j \in UsedSlots(tp) : tp.st_table[j] \in match => i <= j
<1> DEFINE hits == {i \in UsedSlots(tp) : tp.st_table[i] \in match}
           n    == Cardinality(hits)
           rank == [i \in hits |-> Cardinality({j \in hits : j < i})]
<1>1. hits \in SUBSET Nat /\ IsFiniteSet(hits)
  BY UsedFinite, FS_Subset
<1>2. CASE hits = {}
  <2>1. sa_table_search(tp, match) = NULL
    BY <1>2 DEF sa_table_search
  <2> QED
    BY <1>2, <2>1 DEF Entries
<1>3. CASE hits # {}
  <2>1. n \in Nat /\ n # 0
    BY <1>1, <1>3, FS_EmptySet, FS_CardinalityType
  <2>2. \E i \in hits : rank[i] = 0
    <3>1. rank \in Surjection(hits, 0 .. n - 1)
      BY <1>1, Positions
    <3> HIDE DEF rank, hits, n
    <3> QED
      BY <2>1, <3>1 DEF Surjection
  <2>3. PICK i \in hits : rank[i] = 0
    BY <2>2
  <2>4. IsFiniteSet({j \in hits : j < i}) /\ Cardinality({j \in hits : j < i}) = 0
    BY <1>1, <2>3, FS_Subset
  <2>5. {j \in hits : j < i} = {}
    BY <2>4, FS_EmptySet
  <2>6. \A j \in hits : i <= j
    BY <1>1, <2>5
  <2> DEFINE first == CHOOSE k \in hits : \A j \in hits : k <= j
  <2>7. first \in hits /\ \A j \in hits : first <= j
    BY <2>6
  <2>8. sa_table_search(tp, match) = tp.st_table[first]
    BY <1>3 DEF sa_table_search
  <2> HIDE DEF first
  <2>9. tp.st_table[first] # NULL /\ tp.st_table[first] \in match \cap Entries(tp)
    BY <2>7 DEF UsedSlots, Entries
  <2>10. /\ first \in UsedSlots(tp)
         /\ \A j \in UsedSlots(tp) : tp.st_table[j] \in match => first <= j
    BY <2>7
  <2> QED
    BY <2>8, <2>9, <2>10
<1> QED
  BY <1>2, <1>3

\* adapter_get_port_attr_by_wwn tells a local port from a discovered one and
\* says so when both have the name.
LEMMA AttrByWwnInv ==
  ASSUME CountInv
  PROVE  AttrByWwn
<1> SUFFICES ASSUME NEW handle \in Handles, NEW wwn \in Wwn
             PROVE  LET ap  == adapter_open_handle(handle)
                        res == adapter_get_port_attr_by_wwn(handle, wwn)
                        local  == port_wwn[ap.hba] = wwn
                        remote == {r \in Entries(ap_rports[ap]) : rport_wwn[r] = wwn}
                    IN  /\ res.status = "AMBIGUOUS_WWN" <=> local /\ remote # {}
                        /\ res.status = "ILLEGAL_WWN" <=> ~local /\ remote = {}
                        /\ res.status = "OK" =>
                             IF local THEN res.pp = ap
                             ELSE res.pp \in remote /\ \A r \in remote : res.pp.num <= r.num
  BY DEF AttrByWwn
<1> DEFINE ap    == adapter_open_handle(handle)
           res   == adapter_get_port_attr_by_wwn(handle, wwn)
           local  == port_wwn[ap.hba] = wwn
           carriers == {e \in Entries(ap_rports[ap]) : rport_wwn[e] = wwn}
           remote == carriers # {}
           found == IF ap = NULL THEN {}
                    ELSE UNION {fitting(p, wwn) : p \in Entries(ad_ports[ap])}
           count == Cardinality(found)
           r     == rport_by_wwn(ap, wwn)
<1>1. LibInv /\ ap \in Adapters
  BY HandleOfAdapter DEF CountInv
<1>2. ap # NULL /\ Entries(ad_ports[ap]) = {ap} /\ ap \in Port
  BY <1>1, OnePort
<1>3. IsTable(ap_rports[ap], Rport)
  BY <1>2 DEF CountInv, CacheInv, TypeOK
<1>4. Entries(ap_rports[ap]) \subseteq Rport
  BY <1>3, EntriesLookup, LookupType
<1>5. /\ r # NULL => /\ r \in Entries(ap_rports[ap])
                     /\ r \in Rport
                     /\ r \in carriers
                     /\ \A e \in carriers : r.num <= e.num
      /\ r # NULL <=> remote
  <2> DEFINE match == adapter_wwpn_match(wwn)
  <2>1. r = sa_table_search(ap_rports[ap], match)
    BY DEF rport_by_wwn
  <2>2. \A e \in Rport : e \in match <=> rport_wwn[e] = wwn
    BY DEF adapter_wwpn_match
  <2> HIDE DEF match, r, ap
  <2>3. /\ r = NULL \/ r \in match \cap Entries(ap_rports[ap])
        /\ r # NULL <=> \E e \in Entries(ap_rports[ap]) : e \in match
        /\ r # NULL => \E i \in UsedSlots(ap_rports[ap]) :
             /\ ap_rports[ap].st_table[i] = r
             /\ \A j \in UsedSlots(ap_rports[ap]) :
                  ap_rports[ap].st_table[j] \in match => i <= j
    BY <1>3, <2>1, SearchFinds
  <2>4. ap \in Port
    BY <1>2 DEF ap
  <2>5. \A i \in UsedSlots(ap_rports[ap]) : ap_rports[ap].st_table[i].num = i
    BY <2>4 DEF CountInv, CacheInv, Ownership
  <2>6. ASSUME r # NULL, NEW e \in carriers
        PROVE  r.num <= e.num
    <3>1. PICK j \in UsedSlots(ap_rports[ap]) : ap_rports[ap].st_table[j] = e
      BY <2>6 DEF Entries
    <3>2. e \in match
      BY <1>4, <2>2, <2>6
    <3> QED
      BY <2>3, <2>5, <2>6, <3>1, <3>2
  <2> QED
    BY <1>4, <2>2, <2>3, <2>6
<1>6. r # ap
  <2>1. \A p \in Port : DOMAIN p = {"hba", "load"}
    BY PortsAreMade
  <2>2. \A q \in Rport : DOMAIN q = {"hba", "chan", "num"}
    BY RportAssumption
  <2>3. {"hba", "load"} # {"hba", "chan", "num"}
    OBVIOUS
  <2> QED
    BY <1>2, <1>5, <2>1, <2>2, <2>3
<1>7. found = {q \in {ap} : port_wwn[q.hba] = wwn} \cup ({r} \ {NULL})
  BY <1>2 DEF fitting
<1>8. /\ res.status = CASE count = 1 -> "OK"
                        [] count > 1 -> "AMBIGUOUS_WWN"
                        [] count = 0 -> "ILLEGAL_WWN"
      /\ res.pp = IF count = 1 THEN CHOOSE q \in found : TRUE ELSE NULL
  BY DEF adapter_get_port_attr_by_wwn
<1> HIDE DEF found, count, res, r, ap
<1>9. CASE local /\ remote
  <2>1. found = {ap} \cup {r}
    BY <1>5, <1>7, <1>9
  <2>2. count = 2
    <3>1. IsFiniteSet({ap}) /\ Cardinality({ap}) = 1 /\ r \notin {ap}
      BY <1>6, FS_Singleton
    <3>2. Cardinality({ap} \cup {r}) = Cardinality({ap}) + 1
      BY <3>1, FS_AddElement
    <3> QED
      BY <2>1, <3>1, <3>2 DEF count
  <2>3. res.status = "AMBIGUOUS_WWN"
    BY <1>8, <2>2
  <2> QED
    BY <1>9, <2>3 DEF res, ap
<1>10. CASE local /\ ~remote
  <2>1. found = {ap}
    BY <1>5, <1>7, <1>10
  <2>2. count = 1
    BY <2>1, FS_Singleton DEF count
  <2>3. res.status = "OK" /\ res.pp = ap
    BY <1>8, <2>1, <2>2
  <2> QED
    BY <1>10, <2>3 DEF res, ap
<1>11. CASE ~local /\ remote
  <2>1. found = {r}
    BY <1>5, <1>7, <1>11
  <2>2. count = 1
    BY <2>1, FS_Singleton DEF count
  <2>3. res.status = "OK" /\ res.pp = r
    BY <1>8, <2>1, <2>2
  <2> QED
    BY <1>5, <1>11, <2>3 DEF res, ap
<1>12. CASE ~local /\ ~remote
  <2>1. found = {}
    BY <1>5, <1>7, <1>12
  <2>2. count = 0
    BY <2>1, FS_EmptySet DEF count
  <2>3. res.status = "ILLEGAL_WWN"
    BY <1>8, <2>2
  <2> QED
    BY <1>12, <2>3 DEF res, ap
<1> QED
  BY <1>9, <1>10, <1>11, <1>12

\* A lookup by world-wide name yields one that carries the name, if there is one,
\* for every assignment of names to hosts and remote ports.  Among adapters and
\* local ports it is the only one; among discovered ports it is the first.
THEOREM WwnTheorem == LibSpec => []WwnFindsCarrier
<1>1. CountInv => WwnFindsCarrier
  BY OpensTheOneInv, PortByWwnInv, AttrByWwnInv DEF WwnFindsCarrier, CountInv
<1> QED
  BY <1>1, CountInvariance, PTL

============================================================================
