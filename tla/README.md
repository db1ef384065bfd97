# libhbalinux in TLA+

libhbalinux is the Linux vendor library behind the SNIA HBA-API: a shared
library that the common library libHBAAPI loads, asks for a table of entry
points and then calls.  It has no threads and no files of its own.  Everything
it knows it reads from `/sys` and from SG_IO commands, and the hard part is
that what it reads changes while it reads, can fail at every read and every
allocation, and is remembered in tables that outlive the call.

## Inventory

| Component | Source | State | Operations | What makes it correct |
|---|---|---|---|---|
| Pointer tables | `utils.h`, `utils.c` | array, capacity, limit | lookup, nth, search, insert, append, grow, destroy, destroy_all | behaves as a growing map; hidden slots null; a failed realloc changes nothing; no freed entry |
| Remote port cache | `rport.c` | `rports_table`, the owner `ap_adapt` of each remote port, `ap_rports` per port | directory scan, claiming loop | each remote port cached once, owned once, at its number; what an error of one entry costs the others; positions stable |
| Life cycle | `lib.c` | static tables | load, free, register | load after free starts clean |
| Adapters and handles | `adapt.c` | `adapter_table` | create, destroy, count, name, open, lookups by index and by WWN | names, indices and handles agree and keep agreeing; a WWN finds one that carries it, or is called ambiguous; no leak, no dangling adapter |
| Local port scan | `lport.c` | the adapters it creates; buffers shared by all reads of a scan | `sysfs_scan` per host | every error path frees what it allocated; the count of discovered ports against the enumeration; the card is the one beneath the host, and attributes are the host's own |
| Target mapping | `bind.c` | `struct binding_context` for one walk | mapping v1 and v2, generic device name of a LUN | complete within the room, counted beyond it, retry works; an entry is about one LUN |
| SCSI commands | `scsi.c`, `sg.c` | none | INQUIRY, READ CAPACITY, REPORT LUNS, v1 and v2 | the LUN asked for executes the command; status and sense are its own |
| Device identifiers | `sg.c` | none | `sg_get_dev_id` | the best descriptor, whatever the order and the lengths; inside the reply; ends |
| Binding support | `bind.c` | none (kernel attribute) | get and set | what is set is what the kernel keeps and what is read back; an error is reported as one |
| Statistics | `lport.c` | none | two families of counters | values of the time of the call, -1 for the rest, related counters consistent |
| `/sys` parsing | `utils.c`, `lport.c`, `rport.c` | none | lines, numbers, enumerations, lists | what the kernel wrote is what is returned |
| PCI | `pci.c` | none | capability walks | termination; the right serial number |
| Wire formats | `net_types.h` | none | accessors of network-order fields | any accessor reads what any other wrote |

The components meet in calls, not messages.  libHBAAPI calls an entry point;
the entry point finds an adapter by handle and a port in it, fills the cache
of remote ports if it needs them, and walks a `/sys` directory with a callback
(`sa_dir_read`).  Shared state is the two static tables and what they point
to.  The tables have no lock (`utils.h:137`); the models take the calls as
serialised by libHBAAPI and interleave every call with the kernel instead,
which adds and removes hosts, remote ports and LUNs between any two file
accesses.

Hard behaviours, in order of weight: the cache that is filled once and
survives `free_library`; partial failure of scans and inserts; a kernel that
changes during a walk; names and handles used after what they named is gone;
limits of arrays, of integers and of 8-bit fields; lengths, offsets and lists
that a device supplies; buffers that keep the result of an earlier read.

## Modules

| Module | Models | State and actions against the code |
|---|---|---|
| `SaTable` | `struct sa_table` and its functions | operators on a record with the three fields of the struct; the result of `realloc` is a parameter; `sa_table_lookup_n` by rank, and its loop as `sa_table_lookup_n_loop` |
| `IndexMap` | what a table promises | a map that grows: `Put`, `PutFails`, `Clear`; no array |
| `TableMachine` | one table and its caller | `tab`, the heap `live`, the last result; one action per function |
| `RportCache` | `rport.c` | `rports_table`, `ap_adapt`, `ap_rports` as in the code; `pc`, `cur`, `todo`, `ri` are the call in progress; `Call` enters `get_rport_info`, `DropEntry`/`NoMemory`/`AddEntry` are the outcomes of `sysfs_get_rport`, `WalkStep` is one turn of the loop |
| `HbaLibrary` | `lib.c`, `adapt.c`, `sysfs_scan` | extends `RportCache` with `adapter_table`, the ports of each adapter and the heap; `ScanHost`, `ScanSkip`, `ScanNoMemory` are the outcomes of `sysfs_scan` |
| `TargetMapping` | `bind.c` 136-386 | the binding context as variables; `SkipEntry`/`OverflowEntry`/`StoreEntry`, then `FindNames`, then `ReadDevId` for one entry |
| `ScsiCommand` | `scsi.c`, `sg.c` | extends `TargetMapping`; `Begin`, the walk, `Open`, `Execute`, each with its failures |
| `WwnLookup` | `adapt.c` 172-311 and 371-416 | extends `HbaLibrary`; the lookups by name as operators, evaluated in every state of the library, under names that fit several times |
| `HostScan` | `sysfs_scan`, `find_phys_if` in `lport.c` | the locals `buf`, `ifname`, `wwnn`, `data` as variables; a value is the file and the object it was read from; `OnPci`/`OnNet` to `CardLink` find the card, `FindPhysIf`, `CheckIfindex` and `NoPhysIf` looking at one directory entry after the other; `ReadAttr` reads one file |
| `DevId` | `sg_get_dev_id` | the descriptor at `dp` is chosen when the walk comes to it; `WalkDesc` is one turn of the loop |
| `PciCaps` | `pci.c` | configuration space is two linked lists, any lists; one action per turn of either loop; what a list leads to is the least set that holds its start and is closed under `next` (`CapList`, `ExtList`) |
| `PortStats` | the statistics calls of `lport.c` | one action per file read; `Frame`, `Event`, `Reset` are the kernel's |
| `Binding` | `bind.c` 24-134, `sa_enum_*`, `sa_sys_write_line` | `WriteLine`, `CloseFile`, `SetStatus` in their order, with other programs in between |
| `SpeedList` | `sys_read_speed` | `cp` and `tp` as in the code, `tp` kept between two names; `KernelLists` is the kernel, which goes through its own table at `kp` and writes one name after another |
| `WireFormat` | `net_types.h`, `copy_wwn` | the bytes of a field in memory, on a host of either byte order; `ua_get` builds the value up byte by byte, as the code's shifts do |
| `SaTableProofs` | | lemmas about the operators of `SaTable` |
| `TableProofs`, `RportProofs`, `LibProofs` | | theorems about `TableMachine`; `RportCache`; `HbaLibrary` and `WwnLookup` |
| `MappingProofs`, `ScanProofs` | | theorems about `TargetMapping` and `ScsiCommand`; `HostScan` |
| `DeviceProofs`, `SysFilesProofs` | | theorems about `DevId`, `PciCaps` and `WireFormat`; `PortStats`, `Binding` and `SpeedList` |
| `MC*` | | small instances; `MCDeviceData` runs `DevId`, `PciCaps` and `WireFormat`, `MCSysFiles` runs `PortStats`, `Binding` and `SpeedList`, which share no state, one at work at a time |

`HbaLibrary` and `HostScan` are two views of `sysfs_scan`.  The first has the
control that decides which adapters exist and what is freed, and treats their
values as given; the second has where the values come from, and leaves the
tables to the first.

A remote port, an adapter, a local port and a LUN are records of the numbers
the kernel names them by; the same record stands for the object in memory and
for the device.  The kernel does not use a remote port number twice on a host,
nor a host number; names of generic devices are used again as soon as they are
free.

Auxiliary variables record what the code does not: `expected` (remote ports
owed to callers), `unseen` (entries behind one that could not be allocated),
`served` (ports answered), `discovered`, `stayed` (LUNs
present since the call began), `enough` (room a caller was told, from the
return of its call until a LUN appears), `answer`,
`left` (the LUN asked for went away), `seen` (descriptors walked), `failed`
and `fails` (reads that failed), `steady` (no interface changed during this
scan), `origin` and `race` (the interface whose `ifindex` was read, and whether
a name changed its interface between two reads by it), `start`, `got`, `missed`
and `resets` (counters when a call began, files it read and could not read, a
reset during it), `stored` and `asked` (whose write the
kernel has).
No guard of an action that models code reads them, except to bound the number
of failures (`MaxFails`, `MaxMissed`) and in `DevId`, where `seen` makes a
descriptor that is looked at again the same one.

Operators under a comment that begins "Slip" are not part of the model.  They
are the forms the neighbouring definition would have under a plausible bug,
and `PROJECT.json` pairs each with a property that then fails.
`WwnFindsCarrier` and `BindingKept` are conjunctions of three named parts and
have one for each part.

## Runs

Passing:

| Run | Question | Bounds |
|---|---|---|
| `MCTableMachine` | is a table a growing map, whatever fails | 3 entries, indices to 4, growth 2: several growths, holes, growth inside the array |
| `MCRportCache` | is every remote port owned once and delivered, what does an error of one cost the others, and does a call return | 2 ports on 2 hosts, 4 remote ports with two channels and a shared number, the one on the second channel and the one of the second host there from the start, growth 1 so that every insert can fail |
| `MCHbaLibrary` | do load, free and load again keep heap, names, handles and counts right, and what does a WWN find meanwhile | 2 hosts on one interface, one there from the start; 2 loads; three remote ports of that host on two channels, two of them with one number and all with one name, and one of the other, with the name of a local port; a node name both hosts share, which is also a port name; the constraint `Bounded` (below) |
| `MCTargetMapping` | is the mapping complete, retryable and unmixed, and is the device found the one of the LUN asked for | 4 LUNs on two channels and two hosts, 2 device names, room for 0 to 2, integers of width 3, numbers to 5 |
| `MCScsiCommand` | does the right LUN execute the command, is the status its own | 3 LUNs on two targets, 2 device names, sense lengths around the 8-bit limit |
| `MCHostScan` | whose values does an adapter get, and which card | 3 hosts (interface, VLAN, PCI), 3 interfaces with indices 2, 3 and 21, 4 names, 2 failed reads, 2 changes of interfaces |
| `MCDeviceData` | are data supplied by a device handled whatever they are | replies to 18 bytes, so three descriptors fit; types to 4, one past the last that qualifies; 2 and 3 offsets in the capability lists, one of the extended list below 0x100, all pairs of lists; bytes of one bit in fields of 2 to 8 |
| `MCSysFiles` | do values read from or written to the kernel keep their meaning | every counter file of both calls, 5 that count to 1, one missing file; all flags and all names of bindings; every list of 10 speeds |

Every bound is a constant of the instance: `MaxIndex`, `MaxLoads`, `MaxLimit`,
`IntRange`, `ByteRange`, `ByteBase`, `result_len`, `MaxType`, `MaxRank`,
`MaxFails`, `MaxChanges`, `MaxCount`, `MaxMissed`, and the sets; `MCHbaLibrary`
and `MCRportCache` also say what is there at first (`MCLibInit`, `MCInit`).  Two of each
kind are needed for one actor's entries to be mixed up with another's, and a
third of those that share a table for a hole or a reallocation between them.
The growth of 16 is 1 or 2 so that tables grow more than once.  `IntRange` is
2^32, `ByteRange` and `ByteBase` 2^8 in the code; only the order of a value and
the limit matters, so small ones show the same cases.  In `MCDeviceData` the
buffer is as long as a byte can count, as in the code (256), so that the 8-bit
limit and the end of the buffer meet.  Two failed reads in a scan let one read
destroy what another left in the buffer.  `Bounded` keeps `MCHbaLibrary` small:
of the remote ports only one ever leaves, and their directory is read in one
order, the last entry first; `MCRportCache` has every departure and every order.

Deadlock is checked except for `HbaLibrary`, where the program ends after its
last `free_library`.

Runs that end in a violation, each a disagreement between the code and a
comment in it:

* `MCRportStale` - `rport.c:173` says all discovered ports are got; the guard
  in line 182 never reads the directory again once one remote port is cached.
* `MCHbaReload` - after `free_library` and another `load_library` the cached
  remote ports still count as claimed by the adapters that were freed, and the
  new ports get none of them.  It needs the library to stay mapped between the
  two calls: a common library that unloads it with `dlclose` starts from fresh
  static data instead.
* `MCSgNameWide` - `bind.c:352` promises the device name of a LUN; the LUN
  number is cut to an `int` (line 377), and -1 means any LUN.
* `MCBindingWrite` - `utils.c:67` says `sa_sys_write_line` returns 0 or an
  error number; it returns the length of the line when it has written and -1
  when it cannot open the file, and `bind.c:131` takes 0 alone for an error, so
  that a write that failed is reported as `HBA_STATUS_OK`.

Disagreements met while modelling that are in the models and that no run
states:

* `sg.c:43` says the sense length must fit in an 8-bit field; lines 206 and 258
  do not limit it, and 256 becomes 0 (`sense_room`).
* `sg.c:97` says the buffer is left empty if nothing is gotten; a page of
  another kind, or without a descriptor that qualifies, stays in it (`NoPage`,
  `moved`).
* `lport.c:170` says `find_phys_if` returns the name of an interface; line 184
  ignores that none was found, and the text of `iflink` stays in its place
  (`NoPhysIf`).
* `lport.c:365`: when `maxframe_size` cannot be read, the number is taken from
  the line of speeds still in `buf` (`parsed`).
* `lport.c:428`: `ifname` is not set for a host on PCI, so that its adapter is
  named after what the stack held (`OnPci`).
* `pci.c:139-148`: the results of the two reads of the serial number are not
  looked at, and zeros are printed for a half that cannot be read
  (`ReadSerial`).  `SerialIsDevices` says so, and that it is the only way to a
  number that is not the device's.
* `rport.c:67`: memory that runs out at one remote port loses those behind it
  in the directory for good if any was cached before it (`NoMemory`).
  `Delivered` has that loss as its one exception.
* `lport.c:414`: `NumberofDiscoveredPorts` counts the remote ports of every
  channel of a host, those of one channel are claimed, and after a reload those
  claimed before are not (`counting_rports`, `Matches`).  `CountAccurate` says
  by how much the two numbers differ (`miscounted`).
* `adapt.c:395`: of several discovered ports with one name the first is handed
  out with `HBA_STATUS_OK`, while a name of a local and a discovered port is
  called ambiguous (`AttrByWwn`).
* `lport.c:184`: nothing notices that a name changes its interface between two
  reads by that name on the way to the card, and the card is then another one's
  (`race`).  `RightCard` says that no other change does that.
* `sg.c:181`: an `errno` is returned as an `HBA_STATUS` (`OpenFails`); `sg.c:222`
  ignores `host_status` and `driver_status` (`Execute`).

Not in the models: `ad_name` (`lport.c:429`), the array of a port's
`ap_rports` (`adapt.c:71-76` frees the port alone; `HeapExact` is about adapters
and ports) and the iterator of `pci.c:214` are never freed, and `readlink` at `lport.c:542` is given the whole size of its
buffer, with no byte left for the terminator.

## Fairness

Only the steps of a call that has begun are fair: the calls are ordinary
sequential code on local files, so they keep running.  The kernel, the devices
and the callers owe nothing.

* `RportCache`, `CallReturns`: `WF_vars(Step)`.  The call ends because a remote
  port enters the directory at most once.
* `DevId`, `WalkReturns`: `WF_vars(WalkDesc \/ EndWalk)`.  The loop ends because
  every descriptor takes at least its header.
* `PciCaps`, `SearchReturns`: `WF_pciVars(Walk)`.  Nothing obliges a read to
  fail, and the code has no bound of its own, so the property is about devices
  whose lists end (`Ends`); on a list that leads back into itself the search
  goes round.

What these properties need beside fairness is that a call comes nearer to its
end with every step and that nothing sets it back.  For any number of remote
ports and for replies of any length that part is proved (`CallsWindDown`,
`WalkShrinks`), and for the walk of `TargetMapping`, which no run asks about,
`WalksWindDown`.

## Proofs

The theorems hold for every value of the constants, under the named
assumptions of the modules, which TLC evaluates on every instance:

* a positive growth of the tables; limits, lengths and bounds are natural
  numbers, and the ranges of integers and bytes positive;
* `NULL` and the markers `"absent"` and `index_text` (the number
  `find_phys_if` leaves in place of a name) are none of the entries, ports,
  hosts, descriptors, answers or names they are compared with;
* remote ports, LUNs and interfaces carry the numbers the kernel gives them:
  natural numbers, a target and a LUN number of an `int` and not -1, one
  remote port per target number (`BindingAssumption`), one interface per index;
  the ports of `HbaLibrary` are the pairs of a host and a load, and every host,
  port and remote port has a WWN;
* the offsets of the first capability list are below 256, those of the extended
  one any numbers, 256 among them (`OffsetAssumption`); a driver that counts the frames of a direction
  counts their words (`DriverAssumption`);
* a byte has more than one value (`WireAssumption`), and the kernel's table of
  speeds has no name twice and neither of the two words it prints in place of a
  speed (`SpeedAssumption`).

`SpeedsAreRead` has one hypothesis more, `KernelOrder`: the table of the library
is in the order of the kernel's.  The code depends on it, the order that the
kernel has fulfils it (the instance of `MCSysFiles` is that order), and under
another order speeds are lost.

Nothing is assumed of how many LUNs, interfaces, hosts, remote ports or
offsets there are.

An inductive invariant stands beside the proof that uses it, or in the module
of the specification; TLC found each to hold on the instances of the runs
(`ScanInv` with one failed read in place of two), and likewise the action
properties of `CallsWindDown` and `WalksWindDown`.

* `SaTableProofs` states once what `sa_table_insert`, `append` and `lookup` do
  to a well-formed table: the result is well formed, its hidden slots are
  null, and exactly one entry was added or replaced.  `Positions` numbers the
  used slots by how many lie before them, and `LookupNVisitsAll` concludes that
  `sa_table_lookup_n` delivers each.  The other proofs use these lemmas and
  never open the record.
* `TableProofs`: `TableInv` is inductive.  `TailIsNull` is what makes it so:
  without it, raising `st_limit` could uncover a freed pointer, and neither
  `NoDangling` nor the refinement would be preserved by an insert inside the
  array.  `TableImplementsIndexMap` maps each call to a step of `IndexMap` or
  to a stuttering step.
* `RportProofs`: `CacheInv` adds to the properties what relates them in the
  middle of a call: entries still to be read are not in the table (`ReadOnce`,
  for `NoDuplicates`), what is owed is in the table or still to be read
  (`OwedClaims`), the claiming loop leaves nothing of its port behind
  (`WalkedClaimed`), and a port that was answered has nothing left to claim
  (`ServedClaimed`).  From it follow `Ownership`, `NoDuplicates`, `SlotFree`,
  `Delivered` and the action property `EnumerationStable`.  `CallsWindDown`
  gives what a call consumes: `unread`, the remote ports that have not appeared
  yet or wait in the directory, and then the slots up to `st_size`.  A remote
  port that logs in during the call moves from one part of `unread` to the other.
* `LibProofs`: `LibInv` says that the adapter table has no holes and that
  every adapter owns exactly its port, at the index of the port.  From it
  follow `HeapExact`, `NameRoundTrip` and the action property `HandlesKeep`: a
  scan appends or does nothing (`ScanHostAppends`).  `CacheSpecTheorem` shows
  that seen through the variables of `RportCache` the library takes only steps
  of `RportCache`, so its safety theorems hold inside the library too
  (`CacheIsRightInLibrary`, `EnumerationStableInLibrary`).
  `CountInv` joins the two invariants.  What it adds is `ClaimsOfLoads`: an
  owner belongs to a load that has begun, and once a port was answered its
  remote ports belong to its own load or an earlier one.  Without it a later
  load might claim a remote port that was counted for this one, and
  `CountAccurate` would not be preserved; with it, what the count saw and does
  not miscount is what the table of the port holds.  `FirstLoadTheorem` says where the violation of
  `MCHbaReload` ends: a port of the first load has all it is owed, for ever.
  `WwnTheorem` is about the states of the library
  alone: a lookup counts the carriers of a name, a count of one makes the
  carrier found the only one, and a search finds the one with the lowest number
  (`MatchesAreCarriers`, `SearchFinds`).
* `MappingProofs`: `MapInv` is the invariant of the walk.  `ReadOnce` says that
  an entry of the directory is read once and a LUN that stays is read;
  `Counted`, that `oc_count` is the cardinality of the matching entries read,
  less the one being filled in; `StoredDiffer`, that what is stored are
  different entries; these three give `MappingComplete`.  `PartsAgree` and
  `LastName` carry a LUN's identity through the three steps of an entry, for
  `EntryConsistent`: between two of them the name in the context can only
  become that of another LUN if this one left (`NamesDiffer`).  `EnoughRoom`
  bounds what any later walk can meet by the room a caller was told, for
  `RetryFits`.  `CmdImplementsWalk` is the refinement `CmdSpec => Spec`, by
  which `MapInv` holds in the SCSI calls; `CmdInv` adds that the name
  (`NameHeld`), the descriptor (`FdHeld`) and the answer (`AnswerHeld`) are of
  the LUN asked for unless it left.  `NameHeld` is stronger than what the walk
  knows: it must hold for a LUN that appeared while the directory was read.
  `WalksWindDown` follows from `ReadOnce`.
* `DeviceProofs`: `DevIdInv` keeps the rest of the list inside the reply and
  the best descriptor preferred to all walked; `WalkShrinks` is the variant of
  the loop, which is the argument of `WalkReturns` short of the fairness.
  `PciInv` says that the search is at an offset its list leads to, and that
  some set of offsets it has passed holds nothing it looks for, and leads out
  of itself only to where the search is.  When a search ends, that set and the
  end are closed under `next`, and as the list is the least such set, nothing
  was missed; no induction along the list is needed.  `FieldsReadBack` is about
  the arithmetic of the accessors: all of them leave in memory the bytes that
  `ua_put` makes (`WireInv`; `InitPut`, `NetPut`), and getting is the inverse of
  putting in both directions (`GetPut`, `PutGet`), so that a host that turns the
  bytes twice changes nothing (`HostPut`, `HostGet`).  The recursive functions
  are unfolded by `Horner`, which makes the sequence of intermediate values one
  byte at a time; its induction, and the others, go through a set of numbers
  (`NatSets`), since a set, unlike an operator, can be a parameter of a lemma.
* `SysFilesProofs`: `StatsInv` says which files are still to be read, that what
  is reported lies between the counter at the beginning and now, and per
  direction that words are read after frames (`InOrder`, a fact about the two
  lists of files) and cover them (`Covered`).  `BindInv` says what is asked,
  written and kept at each step; `Decode` and `Encode` compute the two
  searches of the table of names.  `SpeedInv` relates the two pointers: the line
  is in the order of the library's table as far as the library knows its names
  (`LineInOrder`), and `tp` is at the name found last (`Parsed`), so that what is
  still to be found lies ahead.
* `ScanProofs`: `ScanInv` says whose text is in `buf` (`BufIsOfHost`), which
  attributes already have their own values (`ReadAreOwn`), and where the
  search for the card has come to (`WayToCard`): at `card`, `ifname` is the
  name of an interface beneath, or the number that `NoPhysIf` left because it
  found none, which is the name of nothing, so that the search goes no further.
  `RightWay` is the same without the hypothesis that nothing changes: what was
  read at each name is followed from there, and only a name that changes its
  interface between two reads (`race`) breaks it; from it follows `RightCard`.

Only model-checked:

* `CallReturns`, `WalkReturns` and `SearchReturns`, which need fairness.
  `CallsWindDown` and `WalkShrinks` are the part of the first two without it; the
  third depends on the list of the device.
* `LoopFindsRank`: what a recursive function computes for every table would need
  an induction over data.  The proofs use the rank, which it ties to the loop.
* The violations, which are counterexamples.

## Not modelled

* The text of messages, of `Model`, `ModelDescription` and the names, and the
  characters of a line: parsing of digits, `sa_strncpy_safe`, trailing newlines.
  It is sequential code on one string.
* Strings owned by an adapter; the heap of `HbaLibrary` has adapters and ports.
* Wrap-around of table indices, which needs an array of 2^31 pointers.
* Two threads inside the library at once, which nothing in it supports.
* `sa_table_sort` and `sa_table_iterate`, which have no caller.
* Structure layouts and constants of the headers, beyond the sizes `DevId` and
  `WireFormat` need; they have no state and no control.  Build files.
* `SpeedList` takes the order in which the kernel lists speeds as given
  (`KernelOrder`); a kernel that listed them in another order would lose speeds,
  which is what the mutated table shows.
* The functions that `lib.c` leaves out of the entry point table (the binding
  calls, `adapter_open_by_wwn`, `adapter_get_port_attr_by_wwn`) are modelled
  although the API does not reach them.

## Plan

What is left, in this order:

1. The hazards in `PROJECT.json` that no property covers: the results of failed
   commands in `sg.c`, and the name of an adapter on PCI.  The models have what
   the code does there.
2. An abstract registry that the cache of remote ports implements, a set of
   owned remote ports without tables, as `IndexMap` is for one table.
3. `SearchReturns` without fairness: a variant of the search, over what is left
   of a list that ends.
