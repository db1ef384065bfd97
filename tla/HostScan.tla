------------------------------ MODULE HostScan ------------------------------
(***************************************************************************)
(* sysfs_scan (lport.c) for one FC host after the other: what it reads,    *)
(* from where, and what an adapter ends up with.  HbaLibrary has what      *)
(* becomes of the adapter; here is where its values come from.             *)
(*                                                                         *)
(* A value is the file and the object it was read from, so that one can    *)
(* tell a host's own value from another's.  Files are read one by one, and *)
(* any read may fail; network interfaces are renamed, removed and added    *)
(* meanwhile.  The locals buf, ifname, wwnn and data start with what is on *)
(* the stack: the values of the scan before, or junk.                      *)
(***************************************************************************)
EXTENDS Integers, Sequences, Functions

CONSTANTS
  NULL,
  Host,          \* FC hosts
  Ifname,        \* names of network interfaces
  Interface,     \* network interfaces: records [ifindex, iflink, card]
  boot,          \* the interface that has each name at first, or NULL
  over,          \* per host, the interface name in its symbolic name, or NULL
                 \* if the host is not FCoE
  pci_link,      \* per host, its card if the host itself is on PCI, or NULL
  MaxFails,      \* bound on the reads that fail in one scan
  MaxChanges     \* bound on the changes to network interfaces

ASSUME ScanAssumption ==
  /\ \A i \in Interface : i.ifindex \in Nat /\ i.iflink \in Nat
  /\ \A i, j \in Interface : i.ifindex = j.ifindex => i = j
  /\ boot \in [Ifname -> Interface \cup {NULL}]
  /\ over \in [Host -> Ifname \cup {NULL}]
  /\ MaxFails \in Nat /\ MaxChanges \in Nat
  /\ NULL \notin Host

VARIABLES
  netdev,    \* kernel: the interface that has each name, or NULL
  changes,   \* changes made so far
  pc,        \* where the scan is: "idle", "link", "ifindex", "iflink", "phys",
             \* "search", "card", "attrs", "skipped" or "done"
  host,      \* the host that is scanned
  buf,       \* the text in buf
  ifname,    \* the name in ifname
  ifindex,   \* the local variable
  names,     \* entries of the interfaces' directory not yet returned
  wwnn,      \* the local variable for the node name
  data,      \* the local variable for FC-4 types
  card,      \* the PCI address found
  by_name,   \* hba_dir goes by way of the interface's name
  steps,     \* attributes still to be read
  attr,      \* the attributes of the port and of the adapter
  fails,     \* auxiliary: reads of this scan that failed
  steady,    \* auxiliary: no interface changed during this scan
  origin,    \* auxiliary: the interface whose ifindex was read, the host's
  race       \* auxiliary: the name the scan goes by changed its interface
             \* between two reads by that name

stack == <<buf, ifname, wwnn, data>>
kernel == <<netdev, changes>>
aux == <<steady, origin, race>>
vars == <<kernel, pc, host, stack, ifindex, names, card, by_name, steps, attr,
          fails, aux>>

text(file, of) == [file |-> file, of |-> of]
junk == text("junk", NULL)
no_name == "junk"     \* what is in ifname before it is set
index_text == "2"     \* a number, which no interface has as its name

ASSUME NameAssumption == index_text \notin Ifname

read(a, file, kind) == [attr |-> a, file |-> file, kind |-> kind]

\* The attributes in the order they are read.  "value": assigned when the read
\* succeeds.  "speed": sys_read_speed, 0 when it fails.  "buf": parsed from buf
\* whether or not the read succeeded.  "wwnn" and "data": copied from a local
\* whether or not it was set.  "hba": as "value", from hba_dir.
port_attributes ==
  << read("NodeWWN", "node_name", "wwnn"),
     read("PortWWN", "port_name", "value"),
     read("PortFcId", "port_id", "value"),
     read("PortType", "port_type", "buf"),
     read("PortState", "port_state", "buf"),
     read("PortSpeed", "speed", "speed"),
     read("PortSupportedSpeed", "supported_speeds", "speed"),
     read("PortMaxFrameSize", "maxframe_size", "buf"),
     read("PortSupportedFc4Types", "supported_fc4s", "data"),
     read("PortActiveFc4Types", "active_fc4s", "data"),
     read("FabricName", "fabric_name", "value"),
     read("PortSupportedClassofService", "supported_classes", "buf") >>

adapter_attributes ==
  << read("vendor_id", "vendor", "hba"),
     read("device_id", "device", "hba"),
     read("subsystem_vendor_id", "subsystem_vendor", "hba"),
     read("subsystem_device_id", "subsystem_device", "hba"),
     read("device_class", "class", "hba"),
     read("DriverVersion", "module/version", "hba"),
     read("DriverName", "module", "hba") >>

Attributes == {s.attr : s \in Range(port_attributes \o adapter_attributes)}
Unset == [a \in Attributes |-> NULL]

Init ==
  /\ netdev = boot /\ changes = 0
  /\ pc = "idle" /\ host \in Host
  /\ buf = junk /\ ifname = no_name /\ wwnn = junk /\ data = junk
  /\ ifindex = 0 /\ names = {} /\ card = NULL /\ by_name = FALSE
  /\ steps = <<>> /\ attr = Unset
  /\ fails = 0 /\ steady = TRUE /\ origin = NULL /\ race = FALSE

----------------------------------------------------------------------------
(* The kernel and udev (external) *)

Present == {netdev[n] : n \in Ifname} \ {NULL}

\* An interface goes away, or to another namespace.
Remove(n) == netdev[n] # NULL /\ netdev' = [netdev EXCEPT ![n] = NULL]

Add(n, i) ==
  netdev[n] = NULL /\ i \notin Present /\ netdev' = [netdev EXCEPT ![n] = i]

Rename(n, m) ==
  /\ netdev[n] # NULL /\ netdev[m] = NULL
  /\ netdev' = [netdev EXCEPT ![n] = NULL, ![m] = netdev[n]]

\* Where the scan has read something by the name in ifname and has still to
\* read by it on the way to the card.
by_own_name == {"iflink", "phys", "card"}

NetChange ==
  /\ \/ \E n \in Ifname : Remove(n)
     \/ \E n \in Ifname, i \in Interface : Add(n, i)
     \/ \E n, m \in Ifname : Rename(n, m)
  /\ changes < MaxChanges /\ changes' = changes + 1
  /\ steady' = FALSE
  /\ race' = \/ race
             \/ pc \in by_own_name /\ ifname \in Ifname /\ netdev'[ifname] # netdev[ifname]
  \* readdir may or may not return what appears meanwhile.
  /\ \/ UNCHANGED names
     \/ pc = "search" /\ names' = names \cup {n \in Ifname : netdev[n] = NULL /\ netdev'[n] # NULL}
  /\ UNCHANGED <<pc, host, stack, ifindex, card, by_name, steps, attr, fails, origin>>

----------------------------------------------------------------------------
(* Finding the card *)

\* malloc, the symbolic name and its " over ".  Without it the host is skipped,
\* which leaves no trace.  So it is when the name cannot be read: what an
\* earlier scan leaves in buf is a link, never a symbolic name.
Begin(h) ==
  /\ pc = "idle"
  /\ over[h] # NULL
  /\ pc' = "link"
  /\ host' = h
  /\ buf' = text("symbolic_name", h)
  /\ \/ UNCHANGED <<ifname, wwnn, data>>
     \/ ifname' = no_name /\ wwnn' = junk /\ data' = junk
  /\ card' = NULL /\ by_name' = FALSE /\ attr' = Unset
  /\ fails' = 0 /\ steady' = TRUE /\ origin' = NULL /\ race' = FALSE
  /\ UNCHANGED <<kernel, ifindex, names, steps>>

\* A host on PCI has its card at hand; ifname is not set for it.
OnPci ==
  /\ pc = "link" /\ pci_link[host] # NULL
  /\ pc' = "attrs" /\ card' = pci_link[host]
  /\ steps' = port_attributes \o adapter_attributes
  /\ buf' = text("device", host)
  /\ UNCHANGED <<kernel, host, ifname, wwnn, data, ifindex, names, by_name, attr,
                 fails, aux>>

\* A host that is not, or whose link cannot be read, is taken for one on a
\* network interface.
OnNet ==
  /\ pc = "link"
  /\ IF pci_link[host] = NULL THEN UNCHANGED fails
     ELSE fails < MaxFails /\ fails' = fails + 1
  /\ pc' = "ifindex" /\ ifname' = over[host] /\ by_name' = TRUE
  /\ buf' = text("device", host)
  /\ UNCHANGED <<kernel, host, wwnn, data, ifindex, names, card, steps, attr, aux>>

ReadIfindex ==
  /\ pc = "ifindex" /\ netdev[ifname] # NULL
  /\ pc' = "iflink"
  /\ ifindex' = netdev[ifname].ifindex
  /\ origin' = netdev[ifname]
  /\ UNCHANGED <<kernel, host, stack, names, card, by_name, steps, attr, fails,
                 steady, race>>

\* Slip: the interface is taken for a physical one.
NeverVirtual(index, link) == FALSE

\* A VLAN or other virtual device.
virtual(index, link) == index # link

ReadIflink ==
  /\ pc = "iflink" /\ netdev[ifname] # NULL
  /\ pc' = IF virtual(ifindex, netdev[ifname].iflink) THEN "phys" ELSE "card"
  /\ UNCHANGED <<kernel, host, stack, ifindex, names, card, by_name, steps, attr,
                 fails, aux>>

\* Slip: the shorter number decides the length of the comparison.
PrefixIndex(link, index) == index = link \/ index \div 10 = link

\* strncmp of the two lines.
same_index(link, index) == index = link

\* find_phys_if: iflink is read again, into buf, and the directory is opened;
\* if that fails nothing is searched.
FindPhysIf ==
  /\ pc = "phys" /\ netdev[ifname] # NULL
  /\ pc' = "search"
  /\ buf' = text("iflink", netdev[ifname].iflink)
  /\ \/ names' = {n \in Ifname : netdev[n] # NULL} /\ UNCHANGED fails
     \/ names' = {} /\ fails < MaxFails /\ fails' = fails + 1
  /\ UNCHANGED <<kernel, host, ifname, wwnn, data, ifindex, card, by_name, steps,
                 attr, aux>>

\* One entry of the directory.  The name of the interface looked for replaces
\* the number in buf, and is then copied to ifname; the others, those that are
\* gone by now and those whose ifindex cannot be read are passed over.
CheckIfindex(n) ==
  /\ pc = "search" /\ n \in names
  /\ \/ /\ netdev[n] # NULL /\ same_index(buf.of, netdev[n].ifindex)
        /\ pc' = "card" /\ ifname' = n /\ names' = {}
        /\ buf' = text("net", n)
        /\ UNCHANGED fails
     \/ /\ \/ netdev[n] = NULL /\ UNCHANGED fails
           \/ netdev[n] # NULL /\ ~same_index(buf.of, netdev[n].ifindex) /\ UNCHANGED fails
           \/ netdev[n] # NULL /\ fails < MaxFails /\ fails' = fails + 1
        /\ names' = names \ {n}
        /\ UNCHANGED <<pc, ifname, buf>>
  /\ UNCHANGED <<kernel, host, wwnn, data, ifindex, card, by_name, steps, attr, aux>>

\* The number is left in buf and taken for the name.
NoPhysIf ==
  /\ pc = "search" /\ names = {}
  /\ pc' = "card" /\ ifname' = index_text
  /\ UNCHANGED <<kernel, host, buf, wwnn, data, ifindex, names, card, by_name, steps,
                 attr, fails, aux>>

device_of(name) ==
  IF name \in Ifname /\ netdev[name] # NULL THEN netdev[name].card ELSE NULL

CardLink ==
  /\ pc = "card" /\ device_of(ifname) # NULL
  /\ pc' = "attrs"
  /\ card' = device_of(ifname)
  /\ buf' = text("device", ifname)
  /\ steps' = port_attributes \o adapter_attributes
  /\ UNCHANGED <<kernel, host, ifname, wwnn, data, ifindex, names, by_name, attr,
                 fails, aux>>

\* A read on the way to the card fails, as it does when the interface is gone;
\* or the device of the interface is not on PCI.
GiveUp ==
  /\ \/ /\ pc \in {"ifindex", "iflink", "phys"}
        /\ fails' = IF netdev[ifname] = NULL THEN fails ELSE fails + 1
     \/ /\ pc = "card"
        /\ fails' = IF device_of(ifname) = NULL THEN fails ELSE fails + 1
  /\ fails' <= MaxFails
  /\ pc' = "skipped"
  /\ UNCHANGED <<kernel, host, stack, ifindex, names, card, by_name, steps, attr, aux>>

----------------------------------------------------------------------------
(* The attributes *)

\* Files whose text the parser of an attribute makes something of: both tables
\* of names have "Not Present", and a speed begins with a number.
accepted(a) ==
  CASE a = "PortType"         -> {"port_type"}
    [] a = "PortState"        -> {"port_state", "port_type"}
    [] a = "PortMaxFrameSize" -> {"maxframe_size", "supported_speeds", "speed"}
    [] a = "PortSupportedClassofService" -> {"supported_classes"}

\* Slip: the second list is read but not scanned into data.
OnlySupported == {"supported_fc4s"}

fc4_files == {"supported_fc4s", "active_fc4s"}

\* Slip: the number is stored although none was read.
StoresAlways(ok, own, old) == IF ok THEN own ELSE junk

\* sa_sys_read_u32, sa_sys_read_u64, sys_read_wwn, sa_sys_read_line.
stored(ok, own, old) == IF ok THEN own ELSE old

\* What becomes of the attribute when the line in buf is now line.
parsed(s, line, old) ==
  IF line.file = s.file THEN {line}
  ELSE IF line.file \in accepted(s.attr) THEN {line, old} ELSE {old}

ReadAttr ==
  /\ pc = "attrs" /\ steps # <<>>
  /\ LET s    == Head(steps)
         dir  == CASE s.kind # "hba"           -> host
                   [] s.kind = "hba" /\ by_name  -> device_of(ifname)
                   [] s.kind = "hba" /\ ~by_name -> card
         own  == text(s.file, dir)
     IN  \E ok \in BOOLEAN :
           LET line == IF ok THEN own ELSE buf
           IN  /\ ok => dir # NULL
               /\ IF ok \/ dir = NULL THEN UNCHANGED fails
                  ELSE fails < MaxFails /\ fails' = fails + 1
               /\ buf' = IF s.kind \in {"buf", "speed", "data"} THEN line ELSE buf
               /\ wwnn' = IF s.kind = "wwnn" THEN stored(ok, own, wwnn) ELSE wwnn
               /\ data' = IF s.kind = "data" /\ line.file \in fc4_files THEN line ELSE data
               /\ \E v \in CASE s.kind \in {"value", "hba"} -> {stored(ok, own, attr[s.attr])}
                             [] s.kind = "speed" -> {IF ok THEN own ELSE NULL}
                             [] s.kind = "buf"   -> parsed(s, line, attr[s.attr])
                             [] s.kind = "wwnn"  -> {wwnn'}
                             [] s.kind = "data"  -> {data'} :
                    attr' = [attr EXCEPT ![s.attr] = v]
  /\ steps' = Tail(steps)
  /\ UNCHANGED <<kernel, pc, host, ifname, ifindex, names, card, by_name, aux>>

\* The port cannot be put into its adapter's table for want of memory, before
\* anything about the adapter is read.
NoTable ==
  /\ pc = "attrs" /\ steps = adapter_attributes
  /\ pc' = "skipped"
  /\ fails' = fails + 1
  /\ UNCHANGED <<kernel, host, stack, ifindex, names, card, by_name, steps, attr, aux>>

\* The adapter is given to the library, or given up for want of memory.
Create ==
  /\ pc = "attrs" /\ steps = <<>>
  /\ \/ pc' = "done" /\ UNCHANGED fails
     \/ pc' = "skipped" /\ fails' = fails + 1
  /\ buf' = text("module", card)
  /\ UNCHANGED <<kernel, host, ifname, wwnn, data, ifindex, names, card, by_name,
                 steps, attr, aux>>

End ==
  /\ pc \in {"skipped", "done"}
  /\ pc' = "idle"
  /\ card' = NULL /\ by_name' = FALSE /\ attr' = Unset /\ steps' = <<>>
  /\ fails' = 0 /\ steady' = TRUE /\ origin' = NULL /\ race' = FALSE
  /\ ifindex' = 0 /\ buf' = junk
  /\ UNCHANGED <<kernel, host, ifname, names, wwnn, data>>

Next ==
  \/ NetChange
  \/ \E h \in Host : Begin(h)
  \/ OnPci \/ OnNet \/ ReadIfindex \/ ReadIflink \/ FindPhysIf
  \/ \E n \in Ifname : CheckIfindex(n)
  \/ NoPhysIf \/ CardLink \/ GiveUp
  \/ ReadAttr \/ NoTable \/ Create \/ End

Spec == Init /\ [][Next]_vars

----------------------------------------------------------------------------
(* Properties *)

published == pc = "done"

own_dir(s) == IF s.kind = "hba" THEN card ELSE host
Steps == Range(port_attributes \o adapter_attributes)

\* Attributes that survive the failure of any read, though buf is shared by
\* many reads and results are not looked at.
robust == {"PortWWN", "PortFcId", "PortType", "PortSpeed", "PortSupportedSpeed",
           "FabricName", "PortSupportedClassofService"}

\* Attributes that may then come from the line read before, which their parser
\* makes something of.
from_line_before == {"PortState", "PortMaxFrameSize"}

\* Whichever reads fail and whatever the scan of the host before has left on
\* the stack, the attributes of the first kind are the host's own or stay
\* unset, and those of the second come at least from some file of this host.
OwnOrUnset ==
  published => \A s \in Steps :
    /\ s.attr \in robust => attr[s.attr] \in {NULL, text(s.file, host)}
    /\ s.attr \in from_line_before => attr[s.attr] = NULL \/ attr[s.attr].of = host

\* When every read succeeds and no interface changes, every attribute of the
\* adapter is the host's or its card's own, whatever the scan of the host
\* before has left on the stack.
CleanScan ==
  published /\ fails = 0 /\ steady =>
    \A s \in Steps : attr[s.attr] = text(s.file, own_dir(s))

beneath(i) == {j \in Interface : j.ifindex = i.iflink}

\* An adapter on PCI has the host's card.  One on a network interface has that
\* of the interface beneath the one found at the host's name, whatever reads
\* fail and whatever else becomes of the interfaces: renames of the one beneath
\* while it is looked for, removals and additions included.  The one thing that
\* gives it another card is that a name changes its interface between two of
\* the reads by that name: the host's between ifindex and the second iflink, or
\* the one found between its ifindex and the link of its device.  The code does
\* not notice that.
RightCard ==
  published =>
    IF by_name THEN ~race => \E j \in beneath(origin) : card = j.card
    ELSE card = pci_link[host]

\* A host is given up only for a reason: its interface is gone, the interface
\* beneath is gone or has no card of its own, or a read failed.
SkippedForReason ==
  pc = "skipped" /\ fails = 0 /\ steady =>
    \/ netdev[over[host]] = NULL
    \/ \A j \in beneath(netdev[over[host]]) : j \notin Present \/ j.card = NULL

----------------------------------------------------------------------------
(* The inductive invariant of the proofs *)

ScanTypes ==
  /\ netdev \in [Ifname -> Interface \cup {NULL}]
  /\ pc \in {"idle", "link", "ifindex", "iflink", "phys", "search", "card",
             "attrs", "skipped", "done"}
  /\ names \subseteq Ifname
  /\ host \in Host
  /\ pc # "idle" => over[host] \in Ifname
  /\ by_name \in BOOLEAN /\ steady \in BOOLEAN /\ race \in BOOLEAN
  /\ fails \in Nat
  /\ steps \in Seq(Steps)
  /\ DOMAIN attr = Attributes

\* The attributes that take their value from buf find in it the link of the
\* device or a line of this host.
BufIsOfHost ==
  pc = "attrs" => buf.file = "device" \/ buf = text(buf.file, host)

\* OwnOrUnset from the beginning of a scan to its end.
AttrsOwnOrUnset ==
  \A s \in Steps :
    /\ s.attr \in robust => attr[s.attr] \in {NULL, text(s.file, host)}
    /\ s.attr \in from_line_before => attr[s.attr] = NULL \/ attr[s.attr].of = host

\* CleanScan for the attributes that were read.
ReadAreOwn ==
  /\ pc = "done" => steps = <<>>
  /\ pc \in {"attrs", "done"} /\ fails = 0 /\ steady =>
       \A s \in Steps : s \in Range(steps) \/ attr[s.attr] = text(s.file, own_dir(s))

\* The interface of the host, while it stays.
own_if == netdev[over[host]]

\* A name beneath it: never the number NoPhysIf leaves in its place.
IsBeneath(name) ==
  name \in Ifname /\ netdev[name] # NULL /\ netdev[name].ifindex = own_if.iflink

\* Where the search for the card has come to, while no interface changes.
WayToCard ==
  /\ pc = "link" => ~by_name
  /\ pc \in {"ifindex", "iflink", "phys"} => ifname = over[host]
  /\ pc \in {"ifindex", "iflink", "phys", "search", "card"} => by_name
  /\ pc \in {"iflink", "phys", "search", "card"} /\ steady => own_if # NULL
  /\ pc = "iflink" /\ steady => ifindex = own_if.ifindex
  /\ pc = "search" /\ steady =>
       /\ buf.of = own_if.iflink
       /\ fails = 0 => \A n \in Ifname : IsBeneath(n) => n \in names
  /\ pc = "card" /\ steady =>
       \/ IsBeneath(ifname)
       \/ /\ ifname = index_text
          /\ fails = 0 => \A n \in Ifname : ~IsBeneath(n)

\* What the search has found.
CardFound ==
  /\ pc = "attrs" => card # NULL
  /\ pc \in {"attrs", "done"} /\ by_name /\ steady =>
       own_if # NULL /\ IsBeneath(ifname) /\ card = netdev[ifname].card

\* Where it has come to whatever changes, but for the names it goes by.
RightWay ==
  /\ pc = "iflink" => ifindex = origin.ifindex
  /\ pc \in {"iflink", "phys"} /\ ~race => netdev[ifname] = origin
  /\ pc = "search" /\ ~race => buf.of = origin.iflink
  /\ pc = "card" /\ ~race /\ ifname \in Ifname =>
       netdev[ifname] # NULL /\ netdev[ifname].ifindex = origin.iflink
  /\ pc \in {"attrs", "done"} =>
       IF by_name THEN ~race => \E j \in beneath(origin) : card = j.card
       ELSE card = pci_link[host]

ScanInv ==
  /\ ScanTypes
  /\ BufIsOfHost
  /\ AttrsOwnOrUnset
  /\ ReadAreOwn
  /\ WayToCard
  /\ CardFound
  /\ RightWay
  /\ SkippedForReason


============================================================================
