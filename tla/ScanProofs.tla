----------------------------- MODULE ScanProofs -----------------------------
(***************************************************************************)
(* Theorems about sysfs_scan, for every set of hosts and of interfaces,    *)
(* every host that is scanned before, every change to the interfaces       *)
(* during the scan and every read that fails.                              *)
(***************************************************************************)
EXTENDS HostScan, SequenceTheorems, TLAPS

----------------------------------------------------------------------------
(* The list of attributes *)

all == port_attributes \o adapter_attributes

\* What the proofs use of an entry of the list.
Wellformed(s) ==
  /\ s.kind \in {"value", "hba", "speed", "buf", "wwnn", "data"}
  /\ s.kind = "data" => s.file \in fc4_files
  /\ s.attr \in robust =>
       \/ s.kind \in {"value", "speed"}
       \/ s.kind = "buf" /\ accepted(s.attr) = {s.file} /\ s.file # "device"
  /\ s.attr \in from_line_before =>
       s.kind = "buf" /\ s.file # "device" /\ "device" \notin accepted(s.attr)

\* The attributes of the port.
PortNames ==
  {"NodeWWN", "PortWWN", "PortFcId", "PortType", "PortState", "PortSpeed",
   "PortSupportedSpeed", "PortMaxFrameSize", "PortSupportedFc4Types",
   "PortActiveFc4Types", "FabricName", "PortSupportedClassofService"}

\* The entries, by their place.
LEMMA PortList ==
  /\ Len(port_attributes) = 12 /\ DOMAIN port_attributes = 1 .. 12
  /\ port_attributes \in Seq({port_attributes[i] : i \in 1 .. 12})
  /\ \A i \in 1 .. 12 : /\ Wellformed(port_attributes[i])
                         /\ port_attributes[i].attr \in PortNames
  /\ \A i, j \in 1 .. 12 : port_attributes[i].attr = port_attributes[j].attr => i = j
<1>1. Len(port_attributes) = 12 /\ DOMAIN port_attributes = 1 .. 12
  BY DEF port_attributes
<1>2. port_attributes \in Seq({port_attributes[i] : i \in 1 .. 12})
  BY <1>1 DEF port_attributes
<1>3. /\ port_attributes[1] = read("NodeWWN", "node_name", "wwnn")
      /\ port_attributes[2] = read("PortWWN", "port_name", "value")
      /\ port_attributes[3] = read("PortFcId", "port_id", "value")
      /\ port_attributes[4] = read("PortType", "port_type", "buf")
      /\ port_attributes[5] = read("PortState", "port_state", "buf")
      /\ port_attributes[6] = read("PortSpeed", "speed", "speed")
      /\ port_attributes[7] = read("PortSupportedSpeed", "supported_speeds", "speed")
      /\ port_attributes[8] = read("PortMaxFrameSize", "maxframe_size", "buf")
      /\ port_attributes[9] = read("PortSupportedFc4Types", "supported_fc4s", "data")
      /\ port_attributes[10] = read("PortActiveFc4Types", "active_fc4s", "data")
      /\ port_attributes[11] = read("FabricName", "fabric_name", "value")
      /\ port_attributes[12] = read("PortSupportedClassofService", "supported_classes", "buf")
  BY DEF port_attributes
<1>4. \A i \in 1 .. 12 : i \in {1, 2, 3, 4, 5, 6, 7, 8, 9, 10, 11, 12}
  OBVIOUS
<1>5. \A i \in 1 .. 12 : /\ Wellformed(port_attributes[i])
                         /\ port_attributes[i].attr \in PortNames
  BY <1>3, <1>4
  DEF PortNames, Wellformed, read, robust, from_line_before, accepted, fc4_files
<1>6. \A i, j \in 1 .. 12 : port_attributes[i].attr = port_attributes[j].attr => i = j
  BY <1>3, <1>4 DEF read
<1> QED
  BY <1>1, <1>2, <1>5, <1>6

LEMMA AdapterList ==
  /\ Len(adapter_attributes) = 7 /\ DOMAIN adapter_attributes = 1 .. 7
  /\ adapter_attributes \in Seq({adapter_attributes[i] : i \in 1 .. 7})
  /\ \A i \in 1 .. 7 : /\ Wellformed(adapter_attributes[i])
                        /\ adapter_attributes[i].attr \notin PortNames
  /\ \A i, j \in 1 .. 7 : adapter_attributes[i].attr = adapter_attributes[j].attr => i = j
<1>1. Len(adapter_attributes) = 7 /\ DOMAIN adapter_attributes = 1 .. 7
  BY DEF adapter_attributes
<1>2. adapter_attributes \in Seq({adapter_attributes[i] : i \in 1 .. 7})
  BY <1>1 DEF adapter_attributes
<1>3. /\ adapter_attributes[1] = read("vendor_id", "vendor", "hba")
      /\ adapter_attributes[2] = read("device_id", "device", "hba")
      /\ adapter_attributes[3] = read("subsystem_vendor_id", "subsystem_vendor", "hba")
      /\ adapter_attributes[4] = read("subsystem_device_id", "subsystem_device", "hba")
      /\ adapter_attributes[5] = read("device_class", "class", "hba")
      /\ adapter_attributes[6] = read("DriverVersion", "module/version", "hba")
      /\ adapter_attributes[7] = read("DriverName", "module", "hba")
  BY DEF adapter_attributes
<1>4. \A i \in 1 .. 7 : i \in {1, 2, 3, 4, 5, 6, 7}
  OBVIOUS
<1>5. \A i \in 1 .. 7 : /\ Wellformed(adapter_attributes[i])
                        /\ adapter_attributes[i].attr \notin PortNames
  BY <1>3, <1>4
  DEF PortNames, Wellformed, read, robust, from_line_before, accepted, fc4_files
<1>6. \A i, j \in 1 .. 7 : adapter_attributes[i].attr = adapter_attributes[j].attr => i = j
  BY <1>3, <1>4 DEF read
<1> QED
  BY <1>1, <1>2, <1>5, <1>6

\* The whole list: no two entries are for the same attribute.
LEMMA AllSteps ==
  /\ all \in Seq(Steps) /\ Range(all) = Steps
  /\ \A s \in Steps : Wellformed(s) /\ s.attr \in Attributes
  /\ \A s, t \in Steps : s.attr = t.attr => s = t
<1> DEFINE P == port_attributes
           A == adapter_attributes
           S == {P[i] : i \in 1 .. 12} \cup {A[i] : i \in 1 .. 7}
<1>1. P \in Seq(S) /\ A \in Seq(S)
  BY PortList, AdapterList
<1>2. /\ all \in Seq(S) /\ Len(all) = 19 /\ DOMAIN all = 1 .. 19
      /\ \A i \in 1 .. 19 : all[i] = IF i <= 12 THEN P[i] ELSE A[i - 12]
  <2>1. /\ Len(P) = 12 /\ Len(A) = 7 /\ P \in Seq(S) /\ A \in Seq(S)
    BY <1>1, PortList, AdapterList
  <2> HIDE DEF P, A, S
  <2>2. /\ P \o A \in Seq(S) /\ Len(P \o A) = 19 /\ DOMAIN (P \o A) = 1 .. 19
        /\ \A i \in 1 .. 19 : (P \o A)[i] = IF i <= 12 THEN P[i] ELSE A[i - 12]
    <3>1. /\ P \o A \in Seq(S)
          /\ Len(P \o A) = Len(P) + Len(A)
          /\ \A i \in 1 .. Len(P) + Len(A) : (P \o A)[i] =
                 IF i <= Len(P) THEN P[i] ELSE A[i - Len(P)]
      BY <2>1, ConcatProperties
    <3>2. Len(P) + Len(A) = 19
      BY <2>1
    <3> DEFINE c == P \o A
    <3>3. Len(c) = 19 /\ c \in Seq(S)
      BY <3>1, <3>2
    <3> HIDE DEF c
    <3>4. DOMAIN c = 1 .. 19
      BY <3>3, LenProperties
    <3> QED
      BY <2>1, <3>1, <3>2, <3>3, <3>4 DEF c
  <2> QED
    BY <2>2 DEF all, P, A
<1> HIDE DEF P, A
<1>3. Steps = {all[i] : i \in 1 .. 19}
  BY <1>2 DEF Steps, Range, all
<1>4. Steps = S
  <2>1. \A i \in 1 .. 12 : i \in 1 .. 19 /\ all[i] = P[i]
    BY <1>2
  <2>2. \A i \in 1 .. 7 : i + 12 \in 1 .. 19 /\ all[i + 12] = A[i]
    BY <1>2
  <2>3. S \subseteq Steps
    BY <1>3, <2>1, <2>2
  <2>4. \A i \in 1 .. 19 : i \in 1 .. 12 \/ i - 12 \in 1 .. 7
    OBVIOUS
  <2>5. ASSUME NEW i \in 1 .. 19
        PROVE  all[i] \in S
    <3>1. CASE i \in 1 .. 12
      BY <2>1, <3>1
    <3>2. CASE i - 12 \in 1 .. 7
      <4>1. all[(i - 12) + 12] = A[i - 12] /\ (i - 12) + 12 = i
        BY <2>2, <3>2
      <4> QED
        BY <3>2, <4>1
    <3> QED
      BY <2>4, <3>1, <3>2
  <2> QED
    BY <1>3, <2>3, <2>5
<1>5. \A s \in Steps : Wellformed(s) /\ s.attr \in Attributes
  BY <1>4, PortList, AdapterList DEF P, A, Attributes, Steps
<1>6. ASSUME NEW s \in Steps, NEW t \in Steps, s.attr = t.attr
      PROVE  s = t
  <2>1. CASE s.attr \in PortNames
    <3>1. /\ \E i \in 1 .. 12 : s = P[i]
          /\ \E j \in 1 .. 12 : t = P[j]
      BY <1>4, <1>6, <2>1, AdapterList DEF A
    <3> QED
      BY <1>6, <3>1, PortList DEF P
  <2>2. CASE s.attr \notin PortNames
    <3>1. /\ \E i \in 1 .. 7 : s = A[i]
          /\ \E j \in 1 .. 7 : t = A[j]
      BY <1>4, <1>6, <2>2, PortList DEF P
    <3> QED
      BY <1>6, <3>1, AdapterList DEF A
  <2> QED
    BY <2>1, <2>2
<1>7. Range(all) = Steps
  BY DEF Steps, all
<1> QED
  BY <1>2, <1>4, <1>5, <1>6, <1>7

\* What is left of a list of attributes after the first.
LEMMA RestOfSteps ==
  ASSUME NEW s \in Seq(Steps), s # <<>>
  PROVE  /\ Head(s) \in Steps /\ Tail(s) \in Seq(Steps)
         /\ Range(s) \subseteq {Head(s)} \cup Range(Tail(s))
<1>1. /\ Len(s) \in Nat /\ Len(s) > 0 /\ Head(s) = s[1] /\ DOMAIN s = 1 .. Len(s)
  BY EmptySeq, LenProperties
<1>2. /\ Tail(s) \in Seq(Steps) /\ DOMAIN Tail(s) = 1 .. Len(s) - 1
      /\ \A i \in 1 .. Len(s) - 1 : Tail(s)[i] = s[i + 1]
  BY <1>1
<1>3. Head(s) \in Steps
  BY <1>1
<1>4. ASSUME NEW x \in Range(s), x # Head(s)
      PROVE  x \in Range(Tail(s))
  <2>1. PICK i \in 1 .. Len(s) : x = s[i]
    BY <1>1 DEF Range
  <2>2. i # 1
    BY <1>1, <1>4, <2>1
  <2>3. i - 1 \in 1 .. Len(s) - 1 /\ (i - 1) + 1 = i
    BY <1>1, <2>2
  <2>4. Tail(s)[i - 1] = x
    BY <1>2, <2>1, <2>3
  <2> QED
    BY <1>2, <2>3, <2>4 DEF Range
<1> QED
  BY <1>2, <1>3, <1>4


----------------------------------------------------------------------------
(* The scan *)

LEMMA ScanInit == Init => ScanInv
<1> SUFFICES ASSUME Init PROVE ScanInv
  OBVIOUS
<1>1. ScanTypes
  <2>1. <<>> \in Seq(Steps) /\ DOMAIN Unset = Attributes
    BY DEF Unset
  <2> QED
    BY <2>1, ScanAssumption DEF Init, ScanTypes
<1>2. AttrsOwnOrUnset
  BY AllSteps DEF Init, AttrsOwnOrUnset, Unset
<1> QED
  BY <1>1, <1>2
  DEF Init, ScanInv, BufIsOfHost, ReadAreOwn, WayToCard, CardFound, RightWay,
      SkippedForReason

\* A change to the interfaces unsettles what was found, and nothing else; what
\* was found by way of a name stays right unless that name changes.
LEMMA NetChangePreserves ==
  ASSUME ScanInv, NetChange
  PROVE  ScanInv'
<1>1. /\ steady' = FALSE
      /\ race' = \/ race
                 \/ pc \in by_own_name /\ ifname \in Ifname /\ netdev'[ifname] # netdev[ifname]
      /\ \/ names' = names
         \/ names' = names \cup {n \in Ifname : netdev[n] = NULL /\ netdev'[n] # NULL}
      /\ UNCHANGED <<pc, host, buf, ifname, wwnn, data, ifindex, card, by_name,
                     steps, attr, fails, origin>>
  BY DEF NetChange, stack
<1>2. netdev' \in [Ifname -> Interface \cup {NULL}]
  <2>1. netdev \in [Ifname -> Interface \cup {NULL}]
    BY DEF ScanInv, ScanTypes
  <2>2. ASSUME NEW n \in Ifname, Remove(n) \/ \E i \in Interface : Add(n, i)
        PROVE  netdev' \in [Ifname -> Interface \cup {NULL}]
    BY <2>1, <2>2 DEF Remove, Add
  <2>3. ASSUME NEW n \in Ifname, NEW m \in Ifname, Rename(n, m)
        PROVE  netdev' \in [Ifname -> Interface \cup {NULL}]
    BY <2>1, <2>3 DEF Rename
  <2> QED
    BY <2>2, <2>3 DEF NetChange
<1>3. ScanTypes'
  BY <1>1, <1>2 DEF ScanInv, ScanTypes
<1>4. BufIsOfHost' /\ AttrsOwnOrUnset'
  BY <1>1 DEF ScanInv, BufIsOfHost, AttrsOwnOrUnset
<1>5. ReadAreOwn' /\ WayToCard' /\ CardFound' /\ SkippedForReason'
  BY <1>1 DEF ScanInv, ReadAreOwn, WayToCard, CardFound, SkippedForReason
<1>6. RightWay'
  <2>1. /\ pc \in {"iflink", "phys"} => ifname \in Ifname
        /\ race \in BOOLEAN
    BY DEF ScanInv, WayToCard, ScanTypes
  <2>2. pc \in {"iflink", "phys", "card"} /\ ifname \in Ifname /\ ~race' =>
          ~race /\ netdev'[ifname] = netdev[ifname]
    BY <1>1 DEF by_own_name
  <2>3. ~race' => ~race
    BY <1>1
  <2>4. beneath(origin') = beneath(origin)
    BY <1>1
  <2> QED
    BY <1>1, <2>1, <2>2, <2>3, <2>4 DEF ScanInv, RightWay
<1> QED
  BY <1>3, <1>4, <1>5, <1>6 DEF ScanInv

\* No attribute is set at first.
LEMMA UnsetOwn ==
  ASSUME attr' = Unset
  PROVE  AttrsOwnOrUnset' /\ DOMAIN attr' = Attributes
BY AllSteps DEF AttrsOwnOrUnset, Unset

LEMMA BeginPreserves ==
  ASSUME ScanInv, NEW h \in Host, Begin(h)
  PROVE  ScanInv'
<1>1. /\ pc' = "link" /\ host' = h /\ over[h] # NULL /\ attr' = Unset /\ by_name' = FALSE
      /\ fails' = 0 /\ steady' = TRUE /\ race' = FALSE
      /\ UNCHANGED <<netdev, names, steps>>
  BY DEF Begin, kernel
<1>2. over[h] \in Ifname
  BY <1>1, ScanAssumption
<1>3. ScanTypes'
  BY <1>1, <1>2, UnsetOwn DEF ScanInv, ScanTypes
<1> QED
  BY <1>1, <1>3, UnsetOwn
  DEF ScanInv, BufIsOfHost, ReadAreOwn, WayToCard, CardFound, RightWay,
      SkippedForReason

LEMMA EndPreserves ==
  ASSUME ScanInv, End
  PROVE  ScanInv'
<1>1. /\ pc' = "idle" /\ attr' = Unset /\ by_name' = FALSE /\ steps' = <<>>
      /\ fails' = 0 /\ steady' = TRUE /\ race' = FALSE
      /\ UNCHANGED <<netdev, host, names>>
  BY DEF End, kernel
<1>2. <<>> \in Seq(Steps)
  OBVIOUS
<1>3. ScanTypes'
  BY <1>1, <1>2, UnsetOwn DEF ScanInv, ScanTypes
<1> QED
  BY <1>1, <1>3, UnsetOwn
  DEF ScanInv, BufIsOfHost, ReadAreOwn, WayToCard, CardFound, RightWay,
      SkippedForReason

\* The steps that find the card read no attribute.
LEMMA WayKeepsAttrs ==
  ASSUME ScanInv, UNCHANGED <<attr, host>>
  PROVE  AttrsOwnOrUnset'
BY DEF ScanInv, AttrsOwnOrUnset

\* The list of what is to be read begins with everything.
LEMMA ListBegins ==
  ASSUME pc' = "attrs", steps' = port_attributes \o adapter_attributes
  PROVE  ReadAreOwn' /\ steps' \in Seq(Steps)
<1>1. steps' = all
  BY DEF all
<1> QED
  BY <1>1, AllSteps DEF ReadAreOwn

LEMMA OnPciPreserves ==
  ASSUME ScanInv, pc = "link", OnPci
  PROVE  ScanInv'
<1>1. /\ pc' = "attrs" /\ card' = pci_link[host] /\ card' # NULL
      /\ steps' = port_attributes \o adapter_attributes
      /\ buf' = text("device", host)
      /\ UNCHANGED <<netdev, host, ifname, names, by_name, attr, fails, steady,
                     origin, race>>
  BY DEF OnPci, kernel, aux
<1>2. ScanTypes'
  BY <1>1, ListBegins DEF ScanInv, ScanTypes
<1>3. BufIsOfHost'
  BY <1>1 DEF BufIsOfHost, text
<1> QED
  BY <1>1, <1>2, <1>3, ListBegins, WayKeepsAttrs
  DEF ScanInv, WayToCard, CardFound, RightWay, SkippedForReason

LEMMA OnNetPreserves ==
  ASSUME ScanInv, OnNet
  PROVE  ScanInv'
<1>1. /\ pc = "link" /\ pc' = "ifindex" /\ ifname' = over[host] /\ by_name' = TRUE
      /\ fails' \in {fails, fails + 1}
      /\ UNCHANGED <<netdev, host, names, steps, attr, steady, origin, race>>
  BY DEF OnNet, kernel, aux
<1>2. ScanTypes'
  BY <1>1 DEF ScanInv, ScanTypes
<1> QED
  BY <1>1, <1>2, WayKeepsAttrs
  DEF ScanInv, BufIsOfHost, ReadAreOwn, WayToCard, CardFound, RightWay,
      SkippedForReason

LEMMA ReadIfindexPreserves ==
  ASSUME ScanInv, ReadIfindex
  PROVE  ScanInv'
<1>1. /\ pc = "ifindex" /\ pc' = "iflink" /\ netdev[ifname] # NULL
      /\ ifindex' = netdev[ifname].ifindex /\ origin' = netdev[ifname]
      /\ UNCHANGED <<netdev, host, ifname, names, by_name, steps, attr, fails, steady,
                     race>>
  BY DEF ReadIfindex, kernel, stack
<1>2. ifname = over[host] /\ by_name
  BY <1>1 DEF ScanInv, WayToCard
<1>3. ScanTypes'
  BY <1>1 DEF ScanInv, ScanTypes
<1>4. WayToCard'
  BY <1>1, <1>2 DEF WayToCard, own_if
<1> QED
  BY <1>1, <1>3, <1>4, WayKeepsAttrs
  DEF ScanInv, BufIsOfHost, ReadAreOwn, CardFound, RightWay, SkippedForReason

\* An interface whose two numbers are equal is its own lower interface.
LEMMA ReadIflinkPreserves ==
  ASSUME ScanInv, ReadIflink
  PROVE  ScanInv'
<1>1. /\ pc = "iflink" /\ netdev[ifname] # NULL
      /\ pc' = IF ifindex # netdev[ifname].iflink THEN "phys" ELSE "card"
      /\ UNCHANGED <<netdev, host, ifname, ifindex, names, by_name, steps, attr, fails,
                     steady, origin, race>>
  BY DEF ReadIflink, virtual, kernel, stack, aux
<1>2. /\ ifname = over[host] /\ by_name /\ over[host] \in Ifname
      /\ steady => ifindex = own_if.ifindex
  BY <1>1 DEF ScanInv, WayToCard, ScanTypes
<1>3. ScanTypes'
  BY <1>1 DEF ScanInv, ScanTypes
<1>4. pc' \in {"phys", "card"}
  BY <1>1
<1>5. WayToCard'
  <2>1. netdev[ifname] = own_if /\ own_if' = own_if
    BY <1>1, <1>2 DEF own_if
  <2>2. pc' = "card" => ifindex = own_if.iflink
    BY <1>1, <2>1
  <2>3. pc' = "card" /\ steady => IsBeneath(ifname)
    BY <1>1, <1>2, <2>1, <2>2 DEF IsBeneath
  <2>4. (IsBeneath(ifname))' <=> IsBeneath(ifname)
    BY <1>1, <2>1 DEF IsBeneath
  <2> QED
    BY <1>1, <1>2, <1>4, <2>1, <2>3, <2>4 DEF WayToCard
<1>6. RightWay'
  BY <1>1, <1>4 DEF ScanInv, RightWay
<1> QED
  BY <1>1, <1>3, <1>4, <1>5, <1>6, WayKeepsAttrs
  DEF ScanInv, BufIsOfHost, ReadAreOwn, CardFound, SkippedForReason

\* find_phys_if begins with every name there is, unless the directory cannot be
\* opened.
LEMMA FindPhysIfPreserves ==
  ASSUME ScanInv, FindPhysIf
  PROVE  ScanInv'
<1>1. /\ pc = "phys" /\ pc' = "search" /\ netdev[ifname] # NULL
      /\ buf' = text("iflink", netdev[ifname].iflink)
      /\ \/ names' = {n \in Ifname : netdev[n] # NULL} /\ fails' = fails
         \/ names' = {} /\ fails' = fails + 1
      /\ UNCHANGED <<netdev, host, ifname, by_name, steps, attr, steady, origin, race>>
  BY DEF FindPhysIf, kernel, aux
<1>2. /\ ifname = over[host] /\ by_name /\ fails \in Nat /\ netdev[ifname] = own_if
  BY <1>1 DEF ScanInv, WayToCard, ScanTypes, own_if
<1>3. fails' \in Nat /\ (fails' = 0 => names' = {n \in Ifname : netdev[n] # NULL})
  BY <1>1, <1>2
<1>4. ScanTypes'
  BY <1>1, <1>3 DEF ScanInv, ScanTypes
<1>5. buf'.of = netdev[ifname].iflink
  BY <1>1 DEF text
<1>6. WayToCard'
  <2>1. own_if' = own_if /\ \A n : (IsBeneath(n))' <=> IsBeneath(n)
    BY <1>1 DEF own_if, IsBeneath
  <2> QED
    BY <1>1, <1>2, <1>3, <1>5, <2>1 DEF WayToCard, IsBeneath
<1>7. RightWay'
  BY <1>1, <1>5 DEF ScanInv, RightWay
<1> QED
  BY <1>1, <1>4, <1>6, <1>7, WayKeepsAttrs
  DEF ScanInv, BufIsOfHost, ReadAreOwn, CardFound, SkippedForReason

\* The search stops at an interface beneath, and passes over one only if it is
\* not or cannot be read.
LEMMA CheckIfindexPreserves ==
  ASSUME ScanInv, NEW n \in Ifname, CheckIfindex(n)
  PROVE  ScanInv'
<1> DEFINE found  == /\ netdev[n] # NULL /\ buf.of = netdev[n].ifindex
                     /\ pc' = "card" /\ ifname' = n /\ names' = {} /\ fails' = fails
           passed == /\ \/ netdev[n] = NULL /\ fails' = fails
                        \/ netdev[n] # NULL /\ buf.of # netdev[n].ifindex /\ fails' = fails
                        \/ fails' = fails + 1
                     /\ names' = names \ {n}
                     /\ UNCHANGED <<pc, ifname, buf>>
<1>1. /\ pc = "search" /\ n \in names /\ (found \/ passed)
      /\ UNCHANGED <<netdev, host, by_name, steps, attr, steady, origin, race>>
  BY DEF CheckIfindex, kernel, aux, same_index
<1>2. /\ fails \in Nat /\ by_name
      /\ steady => own_if # NULL /\ buf.of = own_if.iflink
      /\ steady /\ fails = 0 => \A m \in Ifname : IsBeneath(m) => m \in names
      /\ ~race => buf.of = origin.iflink
  BY <1>1 DEF ScanInv, ScanTypes, WayToCard, RightWay
<1>3. fails' \in Nat /\ (fails' = 0 => fails = 0) /\ pc' \in {"search", "card"}
  BY <1>1, <1>2
<1>4. ScanTypes'
  BY <1>1, <1>3 DEF ScanInv, ScanTypes
<1>5. own_if' = own_if /\ \A m : (IsBeneath(m))' <=> IsBeneath(m)
  BY <1>1 DEF own_if, IsBeneath
<1>6. WayToCard'
  <2>1. CASE found
    <3>1. steady => IsBeneath(n)
      BY <1>2, <2>1 DEF IsBeneath
    <3> QED
      BY <1>1, <1>2, <1>5, <2>1, <3>1 DEF WayToCard, IsBeneath
  <2>2. CASE passed
    <3>1. steady /\ fails' = 0 => ~IsBeneath(n)
      BY <1>2, <1>3, <2>2 DEF IsBeneath
    <3>2. steady /\ fails' = 0 => \A m \in Ifname : IsBeneath(m) => m \in names'
      BY <1>2, <1>3, <2>2, <3>1
    <3>3. (\A m \in Ifname : IsBeneath(m) => m \in names)'
            <=> \A m \in Ifname : IsBeneath(m) => m \in names'
      BY <1>5
    <3> QED
      BY <1>1, <1>2, <1>5, <2>2, <3>2, <3>3 DEF WayToCard
  <2> QED
    BY <1>1, <2>1, <2>2
<1>7. RightWay'
  <2>1. CASE found
    BY <1>1, <1>2, <2>1 DEF RightWay
  <2>2. CASE passed
    BY <1>1, <1>2, <2>2 DEF RightWay
  <2> QED
    BY <1>1, <2>1, <2>2
<1> QED
  BY <1>1, <1>3, <1>4, <1>6, <1>7, WayKeepsAttrs
  DEF ScanInv, BufIsOfHost, ReadAreOwn, CardFound, SkippedForReason

\* A search that found nothing and read everything: there is nothing beneath.
LEMMA NoPhysIfPreserves ==
  ASSUME ScanInv, NoPhysIf
  PROVE  ScanInv'
<1>1. /\ pc = "search" /\ pc' = "card" /\ names = {} /\ ifname' = index_text
      /\ UNCHANGED <<netdev, host, names, by_name, steps, attr, fails, steady, origin,
                     race>>
  BY DEF NoPhysIf, kernel, aux
<1>2. own_if' = own_if /\ \A m : (IsBeneath(m))' <=> IsBeneath(m)
  BY <1>1 DEF own_if, IsBeneath
<1>3. ScanTypes'
  BY <1>1 DEF ScanInv, ScanTypes
<1>4. WayToCard'
  <2>1. steady /\ fails = 0 => \A m \in Ifname : ~IsBeneath(m)
    BY <1>1 DEF ScanInv, WayToCard
  <2>2. (\A m \in Ifname : ~IsBeneath(m))' <=> \A m \in Ifname : ~IsBeneath(m)
    BY <1>2
  <2>3. by_name /\ (steady => own_if # NULL)
    BY <1>1 DEF ScanInv, WayToCard
  <2> QED
    BY <1>1, <1>2, <2>1, <2>2, <2>3 DEF WayToCard
<1>5. RightWay'
  BY <1>1, NameAssumption DEF RightWay
<1> QED
  BY <1>1, <1>3, <1>4, <1>5, WayKeepsAttrs
  DEF ScanInv, BufIsOfHost, ReadAreOwn, CardFound, SkippedForReason

LEMMA CardLinkPreserves ==
  ASSUME ScanInv, CardLink
  PROVE  ScanInv'
<1>1. /\ pc = "card" /\ pc' = "attrs" /\ card' = device_of(ifname) /\ card' # NULL
      /\ buf' = text("device", ifname)
      /\ steps' = port_attributes \o adapter_attributes
      /\ UNCHANGED <<netdev, host, ifname, names, by_name, attr, fails, steady,
                     origin, race>>
  BY DEF CardLink, kernel, aux
<1>2. ifname \in Ifname /\ netdev[ifname] # NULL /\ card' = netdev[ifname].card
  BY <1>1 DEF device_of
<1>3. steady => own_if # NULL /\ IsBeneath(ifname)
  BY <1>1, <1>2, NameAssumption DEF ScanInv, WayToCard
<1>4. ScanTypes'
  BY <1>1, ListBegins DEF ScanInv, ScanTypes
<1>5. BufIsOfHost'
  BY <1>1 DEF BufIsOfHost, text
<1>6. CardFound'
  BY <1>1, <1>2, <1>3 DEF CardFound, own_if, IsBeneath
<1>7. RightWay'
  <2>1. by_name
    BY <1>1 DEF ScanInv, WayToCard
  <2>2. netdev[ifname] \in Interface
    BY <1>2 DEF ScanInv, ScanTypes
  <2>3. ~race => netdev[ifname] \in beneath(origin)
    BY <1>1, <1>2, <2>2 DEF ScanInv, RightWay, beneath
  <2>4. beneath(origin') = beneath(origin)
    BY <1>1
  <2> QED
    BY <1>1, <1>2, <2>1, <2>3, <2>4 DEF RightWay
<1> QED
  BY <1>1, <1>4, <1>5, <1>6, <1>7, ListBegins, WayKeepsAttrs
  DEF ScanInv, WayToCard, SkippedForReason

\* A host is given up on the way to its card for the reason it should be: where
\* no read has failed, its interface or the one beneath is gone, or the latter
\* is no card's.
LEMMA GiveUpPreserves ==
  ASSUME ScanInv, GiveUp
  PROVE  ScanInv'
<1>1. /\ pc \in {"ifindex", "iflink", "phys", "card"} /\ pc' = "skipped"
      /\ pc # "card" => fails' = IF netdev[ifname] = NULL THEN fails ELSE fails + 1
      /\ pc = "card" => fails' = IF device_of(ifname) = NULL THEN fails ELSE fails + 1
      /\ UNCHANGED <<netdev, host, names, by_name, steps, attr, steady, race>>
  BY DEF GiveUp, kernel, aux
<1>2. /\ fails \in Nat /\ over[host] \in Ifname
      /\ netdev \in [Ifname -> Interface \cup {NULL}]
  BY <1>1 DEF ScanInv, ScanTypes
<1>3. fails' \in Nat
  BY <1>1, <1>2
<1>4. ScanTypes'
  BY <1>1, <1>3 DEF ScanInv, ScanTypes
<1>5. ASSUME fails' = 0, steady
      PROVE  \/ own_if = NULL
             \/ \A j \in beneath(own_if) : j \notin Present \/ j.card = NULL
  <2>1. CASE pc # "card"
    <3>1. netdev[ifname] = NULL
      BY <1>1, <1>2, <1>5, <2>1
    <3> QED
      BY <1>1, <2>1, <3>1 DEF ScanInv, WayToCard, own_if
  <2>2. CASE pc = "card" /\ IsBeneath(ifname)
    <3>1. /\ netdev[ifname] \in Interface /\ netdev[ifname].card = NULL
          /\ netdev[ifname].ifindex = own_if.iflink
      BY <1>1, <1>2, <1>5, <2>2 DEF IsBeneath, device_of
    <3>2. \A j \in beneath(own_if) : j = netdev[ifname]
      BY <3>1, ScanAssumption DEF beneath
    <3> QED
      BY <3>1, <3>2
  <2>3. CASE pc = "card" /\ ~IsBeneath(ifname)
    <3>1. device_of(ifname) = NULL /\ fails = 0
      BY <1>1, <1>2, <1>5, <2>3
    <3>2. \A n \in Ifname : ~IsBeneath(n)
      BY <1>5, <2>3, <3>1 DEF ScanInv, WayToCard
    <3> QED
      BY <3>2 DEF IsBeneath, beneath, Present
  <2> QED
    BY <2>1, <2>2, <2>3
<1>6. SkippedForReason'
  BY <1>1, <1>5 DEF SkippedForReason, own_if, Present
<1> QED
  BY <1>1, <1>4, <1>6, WayKeepsAttrs
  DEF ScanInv, BufIsOfHost, ReadAreOwn, WayToCard, CardFound, RightWay

\* A host given up after its card was found was given up for a failure.
LEMMA FailurePreserves ==
  ASSUME ScanInv, NoTable \/ Create
  PROVE  ScanInv'
<1>1. /\ pc = "attrs"
      /\ \/ pc' = "skipped" /\ fails' = fails + 1
         \/ pc' = "done" /\ fails' = fails /\ steps = <<>>
      /\ UNCHANGED <<netdev, host, ifname, names, card, by_name, steps, attr, steady,
                     origin, race>>
  BY DEF NoTable, Create, kernel, stack, aux
<1>2. fails \in Nat
  BY DEF ScanInv, ScanTypes
<1>3. ScanTypes'
  BY <1>1, <1>2 DEF ScanInv, ScanTypes
<1>4. ReadAreOwn' /\ SkippedForReason'
  BY <1>1, <1>2 DEF ScanInv, ReadAreOwn, SkippedForReason, own_dir
<1>5. CardFound'
  BY <1>1 DEF ScanInv, CardFound, own_if, IsBeneath
<1>6. RightWay'
  BY <1>1 DEF ScanInv, RightWay, beneath
<1> QED
  BY <1>1, <1>3, <1>4, <1>5, <1>6, WayKeepsAttrs
  DEF ScanInv, BufIsOfHost, WayToCard


\* One read: its attribute becomes the host's own or stays what it was, or, for
\* two of them, is made of the line read before; without a failure it is own.
LEMMA ReadAttrPreserves ==
  ASSUME ScanInv, ReadAttr
  PROVE  ScanInv'
<1> DEFINE s   == Head(steps)
           dir == CASE s.kind # "hba"           -> host
                    [] s.kind = "hba" /\ by_name  -> device_of(ifname)
                    [] s.kind = "hba" /\ ~by_name -> card
           own == text(s.file, dir)
           line(ok) == IF ok THEN own ELSE buf
           new(ok)  == CASE s.kind \in {"value", "hba"} -> {stored(ok, own, attr[s.attr])}
                         [] s.kind = "speed" -> {IF ok THEN own ELSE NULL}
                         [] s.kind = "buf"   -> parsed(s, line(ok), attr[s.attr])
                         [] s.kind = "wwnn"  -> {wwnn'}
                         [] s.kind = "data"  -> {data'}
<1>1. /\ pc = "attrs" /\ steps # <<>> /\ steps' = Tail(steps)
      /\ UNCHANGED <<netdev, pc, host, ifname, ifindex, names, card, by_name, steady,
                     origin, race>>
  BY DEF ReadAttr, kernel, aux
<1>2. PICK ok \in BOOLEAN :
        /\ IF ok \/ dir = NULL THEN UNCHANGED fails
           ELSE fails < MaxFails /\ fails' = fails + 1
        /\ buf' = IF s.kind \in {"buf", "speed", "data"} THEN line(ok) ELSE buf
        /\ wwnn' = IF s.kind = "wwnn" THEN stored(ok, own, wwnn) ELSE wwnn
        /\ data' = IF s.kind = "data" /\ line(ok).file \in fc4_files THEN line(ok) ELSE data
        /\ \E v \in new(ok) : attr' = [attr EXCEPT ![s.attr] = v]
  BY DEF ReadAttr
<1>3. PICK v \in new(ok) : attr' = [attr EXCEPT ![s.attr] = v]
  BY <1>2
<1>4. /\ s \in Steps /\ Wellformed(s) /\ s.attr \in Attributes
      /\ steps' \in Seq(Steps) /\ Range(steps) \subseteq {s} \cup Range(steps')
      /\ DOMAIN attr = Attributes /\ fails \in Nat /\ host # NULL
  <2>1. steps \in Seq(Steps) /\ DOMAIN attr = Attributes /\ fails \in Nat /\ host \in Host
    BY DEF ScanInv, ScanTypes
  <2>2. host # NULL
    BY <2>1, ScanAssumption
  <2> QED
    BY <1>1, <2>1, <2>2, RestOfSteps, AllSteps
<1>5. /\ s.kind # "hba" => own = text(s.file, host)
      /\ own.file = s.file
  BY DEF text
<1>6. \A t \in Steps : attr'[t.attr] = IF t = s THEN v ELSE attr[t.attr]
  BY <1>3, <1>4, AllSteps
<1>7. buf.file = "device" \/ buf = text(buf.file, host)
  BY <1>1 DEF ScanInv, BufIsOfHost
<1>8. fails' \in Nat
  <2> HIDE DEF dir
  <2> QED
    BY <1>2, <1>4
<1>9. ScanTypes'
  <2>1. DOMAIN attr' = Attributes
    BY <1>3, <1>4
  <2> QED
    BY <1>1, <1>4, <1>8, <2>1 DEF ScanInv, ScanTypes
<1> HIDE DEF s, dir, own
<1>10. BufIsOfHost'
  <2>1. buf' \in {own, buf} /\ (buf' = own => s.kind # "hba" \/ buf' = buf)
    BY <1>2
  <2>2. text(s.file, host).file = s.file
    BY DEF text
  <2> QED
    BY <1>1, <1>5, <1>7, <2>1, <2>2 DEF BufIsOfHost
<1>11. ASSUME s.attr \in robust
       PROVE  v \in {NULL, text(s.file, host)}
  <2>1. attr[s.attr] \in {NULL, text(s.file, host)}
    BY <1>4, <1>11 DEF ScanInv, AttrsOwnOrUnset
  <2>2. CASE s.kind \in {"value", "speed"}
    BY <1>3, <1>5, <2>1, <2>2 DEF stored
  <2>3. CASE s.kind = "buf" /\ accepted(s.attr) = {s.file} /\ s.file # "device"
    <3>1. v \in parsed(s, line(ok), attr[s.attr])
      BY <1>3, <2>3
    <3>2. line(ok).file = s.file => line(ok) = text(s.file, host)
      BY <1>5, <1>7, <2>3
    <3> QED
      BY <2>1, <2>3, <3>1, <3>2 DEF parsed
  <2> QED
    BY <1>4, <1>11, <2>2, <2>3 DEF Wellformed
<1>12. ASSUME s.attr \in from_line_before
       PROVE  v = NULL \/ v.of = host
  <2>1. attr[s.attr] = NULL \/ attr[s.attr].of = host
    BY <1>4, <1>12 DEF ScanInv, AttrsOwnOrUnset
  <2>2. s.kind = "buf" /\ s.file # "device" /\ "device" \notin accepted(s.attr)
    BY <1>4, <1>12 DEF Wellformed
  <2>3. v \in parsed(s, line(ok), attr[s.attr])
    BY <1>3, <2>2
  <2>4. line(ok).file # "device" => line(ok).of = host
    BY <1>5, <1>7, <2>2 DEF text
  <2> QED
    BY <2>1, <2>2, <2>3, <2>4 DEF parsed
<1>13. AttrsOwnOrUnset'
  BY <1>1, <1>6, <1>11, <1>12 DEF ScanInv, AttrsOwnOrUnset
<1>14. ASSUME fails' = 0, steady
       PROVE  fails = 0 /\ v = text(s.file, own_dir(s))
  <2>1. dir = own_dir(s)
    <3>1. by_name => device_of(ifname) = card
      BY <1>1, <1>14 DEF ScanInv, CardFound, IsBeneath, device_of
    <3> QED
      BY <3>1 DEF dir, own_dir
  <2>2. dir # NULL
    <3>1. card # NULL
      BY <1>1 DEF ScanInv, CardFound
    <3> QED
      BY <1>4, <2>1, <3>1 DEF own_dir
  <2>3. ok /\ fails = 0
    BY <1>2, <1>4, <1>14, <2>2
  <2>4. v = own
    <3>1. CASE s.kind \in {"value", "hba", "speed"}
      BY <1>3, <2>3, <3>1 DEF stored
    <3>2. CASE s.kind = "buf"
      BY <1>3, <1>5, <2>3, <3>2 DEF parsed
    <3>3. CASE s.kind = "wwnn"
      BY <1>2, <1>3, <2>3, <3>3 DEF stored
    <3>4. CASE s.kind = "data"
      BY <1>2, <1>3, <1>4, <1>5, <2>3, <3>4 DEF Wellformed
    <3> QED
      BY <1>4, <3>1, <3>2, <3>3, <3>4 DEF Wellformed
  <2> QED
    BY <2>1, <2>3, <2>4 DEF own
<1>15. ReadAreOwn'
  <2> SUFFICES ASSUME fails' = 0, steady, NEW t \in Steps, t \notin Range(steps')
               PROVE  attr'[t.attr] = text(t.file, own_dir(t))
    BY <1>1 DEF ReadAreOwn, own_dir
  <2>1. CASE t = s
    BY <1>6, <1>14, <2>1
  <2>2. CASE t # s
    <3>1. t \notin Range(steps)
      BY <1>4, <2>2
    <3> QED
      BY <1>1, <1>6, <1>14, <2>2, <3>1 DEF ScanInv, ReadAreOwn
  <2> QED
    BY <2>1, <2>2
<1>16. WayToCard' /\ CardFound' /\ SkippedForReason'
  BY <1>1 DEF ScanInv, WayToCard, CardFound, SkippedForReason, own_if, IsBeneath
<1>17. RightWay'
  BY <1>1 DEF ScanInv, RightWay, beneath
<1> QED
  BY <1>9, <1>10, <1>13, <1>15, <1>16, <1>17 DEF ScanInv


LEMMA ScanNext == ScanInv /\ [Next]_vars => ScanInv'
<1> SUFFICES ASSUME ScanInv, Next \/ UNCHANGED vars PROVE ScanInv'
  OBVIOUS
<1>1. CASE NetChange
  BY <1>1, NetChangePreserves
<1>2. CASE \E h \in Host : Begin(h)
  BY <1>2, BeginPreserves
<1>3. CASE OnPci
  BY <1>3, OnPciPreserves DEF OnPci
<1>4. CASE OnNet \/ ReadIfindex \/ ReadIflink \/ FindPhysIf \/ CardLink \/ GiveUp
  BY <1>4, OnNetPreserves, ReadIfindexPreserves, ReadIflinkPreserves,
     FindPhysIfPreserves, CardLinkPreserves, GiveUpPreserves
<1>5. CASE ReadAttr \/ NoTable \/ Create \/ End
  BY <1>5, ReadAttrPreserves, FailurePreserves, EndPreserves
<1>6. CASE NoPhysIf \/ \E n \in Ifname : CheckIfindex(n)
  BY <1>6, CheckIfindexPreserves, NoPhysIfPreserves
<1>7. CASE UNCHANGED vars
  <2>1. UNCHANGED <<netdev, pc, host, buf, ifname, ifindex, names, card, by_name,
                    steps, attr, fails, steady, origin, race>>
    BY <1>7 DEF vars, kernel, stack, aux
  <2> QED
    BY <2>1
    DEF ScanInv, ScanTypes, BufIsOfHost, AttrsOwnOrUnset, ReadAreOwn, own_dir,
        WayToCard, CardFound, own_if, IsBeneath, RightWay, beneath,
        SkippedForReason, Present
<1> QED
  BY <1>1, <1>2, <1>3, <1>4, <1>5, <1>6, <1>7 DEF Next

\* The scan knows at every step whose values it has and where it looks for the
\* card, whatever the scan before left and the interfaces do.
THEOREM ScanInvariance == Spec => []ScanInv
BY ScanInit, ScanNext, PTL DEF Spec

\* No failing read gives an attribute of the first kind another object's value,
\* nor one of the second kind another host's.
THEOREM AttributesAreOwn == Spec => []OwnOrUnset
<1>1. ScanInv => OwnOrUnset
  BY DEF ScanInv, AttrsOwnOrUnset, OwnOrUnset
<1> QED
  BY <1>1, ScanInvariance, PTL

\* A scan without failure or change leaves every attribute the host's own or
\* its card's own.
THEOREM CleanScansAreOwn == Spec => []CleanScan
<1>1. ScanInv => CleanScan
  <2>1. Range(<<>>) = {}
    BY DEF Range
  <2> QED
    BY <2>1 DEF ScanInv, ReadAreOwn, CleanScan, published
<1> QED
  BY <1>1, ScanInvariance, PTL

\* An adapter has its host's card, or that of the interface beneath the one at
\* the host's name, for VLANs as for physical interfaces, whatever reads fail and
\* interfaces change, but for a name that changes between two reads by it.
THEOREM CardIsRight == Spec => []RightCard
<1>1. ScanInv => RightCard
  BY DEF ScanInv, RightWay, RightCard, published
<1> QED
  BY <1>1, ScanInvariance, PTL

\* A host is skipped only for a failed read, an interface that is gone or one
\* without a card.
THEOREM SkipsHaveReasons == Spec => []SkippedForReason
<1>1. ScanInv => SkippedForReason
  BY DEF ScanInv
<1> QED
  BY <1>1, ScanInvariance, PTL


=============================================================================
