---------------------------- MODULE DeviceProofs ----------------------------
(***************************************************************************)
(* Theorems about what the library makes of data a device supplies: the    *)
(* designation descriptors of a LUN, for every size of buffer and every    *)
(* sequence of lengths, types and designators; the capability lists of a   *)
(* PCI device, for every content of configuration space; and the bytes of  *)
(* network-order fields, for every value and every size of byte.           *)
(***************************************************************************)
EXTENDS DevId, PciCaps, WireFormat, FiniteSetTheorems, SequenceTheorems, TLAPS

----------------------------------------------------------------------------
(* sg_get_dev_id *)

DevIdTypes ==
  /\ pc \in {"idle", "walk", "done"}
  /\ buf \in {"empty", "reply", "best"}
  /\ received \in 0 .. inquiry_len
  /\ rlen \in Nat
  /\ dp \in Nat
  /\ best \in Desc \cup {NULL}
  /\ seen \subseteq Desc

\* The descriptors walked lie before dp, the list before the end of the reply.
Inside ==
  /\ dp <= received
  /\ pc = "walk" => dp + rlen <= received
  /\ \A d \in seen : d.off + dlen(d) <= dp
  /\ pc = "idle" => best = NULL /\ seen = {} /\ dp = 0

\* best is preferred to all qualifying descriptors walked so far.
BestSoFar ==
  /\ best # NULL => best \in qualifying
  /\ qualifying # {} => best # NULL
  /\ \A d \in qualifying : Preferred(best, d)

\* What the end of the walk has made of the buffer.
BufferAtEnd == pc = "done" /\ best # NULL => buf = "best"

DevIdInv == DevIdTypes /\ Inside /\ BestSoFar /\ BufferAtEnd

LEMMA InquiryLen == inquiry_len \in Nat /\ inquiry_len <= result_len
BY LenAssumption DEF inquiry_len, smaller

\* A descriptor takes at least its header.
LEMMA DescLen ==
  ASSUME NEW d \in Desc
  PROVE  dlen(d) \in Nat /\ dlen(d) >= 4 /\ d.off \in Nat
BY LenAssumption DEF Desc, dlen, sizeof_desc

LEMMA DevIdInitInv == Init => DevIdInv
BY InquiryLen DEF Init, DevIdInv, DevIdTypes, Inside, BestSoFar, BufferAtEnd,
                  qualifying

LEMMA PagePreserves ==
  ASSUME DevIdInv, Page
  PROVE  DevIdInv'
<1> USE DEF Page
<1>1. PICK len \in sizeof_page_header .. inquiry_len,
           hi \in {0, 1}, lo \in 0 .. ByteRange - 1 :
        /\ received' = len
        /\ rlen' = list_len(len, net16_get(hi, lo))
  OBVIOUS
<1>2. net16_get(hi, lo) \in Nat
  BY LenAssumption DEF net16_get
<1>3. /\ len \in 0 .. inquiry_len /\ rlen' \in Nat /\ dp' \in Nat
      /\ dp' + rlen' <= len /\ dp' <= len
  BY <1>1, <1>2, InquiryLen DEF list_len, smaller, sizeof_page_header
<1>4. DevIdTypes'
  BY <1>1, <1>3 DEF DevIdInv, DevIdTypes
<1>5. best = NULL /\ seen = {} /\ qualifying' = {}
  BY DEF DevIdInv, Inside, qualifying
<1> QED
  BY <1>1, <1>3, <1>4, <1>5 DEF DevIdInv, Inside, BestSoFar, BufferAtEnd

\* The new descriptor is compared with the best of the ones before it; it lies
\* behind all of them.
LEMMA WalkDescPreserves ==
  ASSUME DevIdInv, WalkDesc
  PROVE  DevIdInv'
<1> USE DEF WalkDesc
<1>1. PICK d \in DescAtDp :
        /\ fits(d)
        /\ rlen' = rlen - dlen(d)
        /\ dp' = dp + dlen(d)
        /\ best' = IF d.type <= SCSI_DTYPE_NAA /\ replaces(d, best) THEN d ELSE best
        /\ seen' = seen \cup {d}
  OBVIOUS
<1>2. d \in Desc /\ d.off = dp
  BY DEF DescAtDp, Desc, DevIdInv, DevIdTypes
<1>3. dlen(d) \in Nat /\ dlen(d) >= 4 /\ dlen(d) <= rlen
  BY <1>1, <1>2, DescLen DEF fits
<1>4. DevIdTypes'
  BY <1>1, <1>2, <1>3 DEF DevIdInv, DevIdTypes
<1>5. Inside'
  <2>1. dp \in Nat /\ rlen \in Nat /\ received \in Nat /\ dp + rlen <= received
    BY InquiryLen DEF DevIdInv, DevIdTypes, Inside
  <2>2. \A e \in seen' : e.off + dlen(e) <= dp'
    <3> SUFFICES ASSUME NEW e \in seen' PROVE e.off + dlen(e) <= dp'
      OBVIOUS
    <3>1. CASE e \in seen
      <4>1. e \in Desc /\ e.off + dlen(e) <= dp
        BY <3>1 DEF DevIdInv, DevIdTypes, Inside
      <4> QED
        BY <1>1, <1>3, <2>1, <4>1, DescLen
    <3>2. CASE e = d
      BY <1>1, <1>2, <3>2
    <3> QED
      BY <1>1, <3>1, <3>2
  <2>3. dp' + rlen' <= received' /\ dp' <= received'
    BY <1>1, <1>3, <2>1
  <2> QED
    BY <2>2, <2>3 DEF Inside
<1>6. BestSoFar'
  <2> SUFFICES ASSUME d.type <= SCSI_DTYPE_NAA PROVE BestSoFar'
    <3>1. CASE ~(d.type <= SCSI_DTYPE_NAA)
      <4>1. qualifying' = qualifying /\ best' = best
        BY <1>1, <3>1 DEF qualifying
      <4> QED
        BY <4>1 DEF DevIdInv, BestSoFar
    <3> QED
      BY <3>1
  <2>1. qualifying' = qualifying \cup {d} /\ qualifying \subseteq seen
    BY <1>1 DEF qualifying
  <2>2. \A e \in qualifying : e \in Desc /\ e.off < d.off
    <3> SUFFICES ASSUME NEW e \in qualifying PROVE e \in Desc /\ e.off < d.off
      OBVIOUS
    <3>1. e \in Desc /\ e.off + dlen(e) <= dp /\ dp \in Nat
      BY <2>1 DEF DevIdInv, DevIdTypes, Inside
    <3> QED
      BY <1>2, <3>1, DescLen
  <2>3. Preferred(d, d)
    BY <1>2 DEF Preferred, Desc
  <2>4. CASE best = NULL
    <3>1. qualifying = {} /\ best' = d
      BY <1>1, <2>4 DEF DevIdInv, BestSoFar, replaces
    <3> QED
      BY <1>2, <2>1, <2>3, <3>1, NullAssumption DEF BestSoFar
  <2>5. CASE best # NULL /\ replaces(d, best)
    <3>1. best' = d /\ best \in qualifying
      BY <1>1, <2>5 DEF DevIdInv, BestSoFar
    <3>2. \A e \in qualifying : Preferred(d, e)
      BY <1>2, <2>2, <2>5, <3>1
         DEF DevIdInv, BestSoFar, Preferred, replaces, Desc
    <3> QED
      BY <1>2, <2>1, <2>3, <3>1, <3>2, NullAssumption DEF BestSoFar
  <2>6. CASE best # NULL /\ ~replaces(d, best)
    <3>1. best' = best /\ best \in qualifying
      BY <1>1, <2>6 DEF DevIdInv, BestSoFar
    <3>2. Preferred(best, d)
      BY <1>2, <2>2, <2>6, <3>1 DEF Preferred, replaces, Desc
    <3> QED
      BY <2>1, <2>6, <3>1, <3>2 DEF DevIdInv, BestSoFar
  <2> QED
    BY <2>4, <2>5, <2>6
<1>7. BufferAtEnd'
  BY DEF BufferAtEnd
<1> QED
  BY <1>4, <1>5, <1>6, <1>7 DEF DevIdInv

\* A descriptor that was received fits in the buffer.
LEMMA BestFits ==
  ASSUME DevIdInv, best # NULL
  PROVE  best.off + dlen(best) <= received /\ dlen(best) <= result_len
<1>1. best \in Desc /\ best.off + dlen(best) <= dp
  BY DEF DevIdInv, DevIdTypes, Inside, BestSoFar, qualifying
<1>2. dp <= received /\ received \in 0 .. inquiry_len /\ dp \in Nat
  BY DEF DevIdInv, DevIdTypes, Inside
<1> QED
  BY <1>1, <1>2, DescLen, InquiryLen, LenAssumption

LEMMA DevIdNext ==
  ASSUME DevIdInv, [Next]_vars
  PROVE  DevIdInv'
<1>1. CASE UNCHANGED vars
  BY <1>1 DEF vars, DevIdInv, DevIdTypes, Inside, BestSoFar, BufferAtEnd, qualifying
<1>2. CASE NoPage
  <2>1. best = NULL /\ seen = {} /\ qualifying' = {} /\ dp = 0
    BY <1>2 DEF NoPage, DevIdInv, Inside, qualifying
  <2>2. DevIdTypes'
    BY <1>2, InquiryLen DEF NoPage, DevIdInv, DevIdTypes
  <2> QED
    BY <1>2, <2>1, <2>2, InquiryLen
       DEF NoPage, DevIdInv, DevIdTypes, Inside, BestSoFar, BufferAtEnd
<1>3. CASE Page
  BY <1>3, PagePreserves
<1>4. CASE WalkDesc
  BY <1>4, WalkDescPreserves
<1>5. CASE EndWalk
  <2>1. best # NULL => buf' = "best"
    <3> SUFFICES ASSUME best # NULL PROVE moved = "best"
      BY <1>5 DEF EndWalk
    <3>1. dlen(best) <= result_len /\ ~(dlen(best) > result_len)
      BY BestFits, DescLen, LenAssumption DEF DevIdInv, DevIdTypes
    <3> QED
      BY <3>1 DEF moved
  <2>2. buf' \in {"empty", "reply", "best"}
    <3>1. best = NULL => moved = buf
      BY DEF moved
    <3> QED
      BY <1>5, <2>1, <3>1 DEF EndWalk, DevIdInv, DevIdTypes
  <2>3. DevIdTypes'
    BY <1>5, <2>2 DEF EndWalk, DevIdInv, DevIdTypes
  <2> QED
    BY <1>5, <2>1, <2>3
       DEF EndWalk, DevIdInv, Inside, BestSoFar, BufferAtEnd, qualifying
<1>6. CASE Return
  BY <1>6, InquiryLen
     DEF Return, DevIdInv, DevIdTypes, Inside, BestSoFar, BufferAtEnd, qualifying
<1> QED
  BY <1>1, <1>2, <1>3, <1>4, <1>5, <1>6 DEF Next

\* The invariant of the walk over the descriptors.
THEOREM DevIdInvariance == Spec => []DevIdInv
<1>1. DevIdInv /\ [Next]_vars => DevIdInv'
  BY DevIdNext
<1> QED
  BY DevIdInitInv, <1>1, PTL DEF Spec

\* sg_get_dev_id leaves in the caller's buffer the descriptor preferred to all
\* others received whole, in whatever order the device sent them.
THEOREM BestIsChosen == Spec => []BestChosen
<1>1. DevIdInv => BestChosen
  BY DEF DevIdInv, BestSoFar, BufferAtEnd, BestChosen
<1> QED
  BY <1>1, DevIdInvariance, PTL

\* sg_get_dev_id reads no byte that was not received and moves none, for every
\* size of buffer and whatever lengths the device claims.
THEOREM StaysInsideReply == Spec => []InsideReply
<1>1. ASSUME DevIdInv PROVE InsideReply
  <2>1. received <= result_len
    BY <1>1, InquiryLen, LenAssumption DEF DevIdInv, DevIdTypes
  <2>2. pc = "walk" => rlen >= 0 /\ dp + rlen <= received
    BY <1>1 DEF DevIdInv, DevIdTypes, Inside
  <2>3. best # NULL => best.off + dlen(best) <= received
    BY <1>1, BestFits
  <2> QED
    BY <2>1, <2>2, <2>3 DEF InsideReply
<1> QED
  BY <1>1, DevIdInvariance, PTL

\* Each turn of the loop over the descriptors uses up at least the four bytes of
\* a header and never more than are left: with at most as many turns as the
\* reply has bytes, the loop ends.
Shrinks == rlen' \in 0 .. rlen - 4

\* The loop of sg_get_dev_id has a variant.
THEOREM WalkShrinks == Spec => [][WalkDesc => Shrinks]_vars
<1>1. ASSUME DevIdInv, [Next]_vars PROVE [WalkDesc => Shrinks]_vars
  <2> SUFFICES ASSUME WalkDesc PROVE Shrinks
    OBVIOUS
  <2>1. PICK d \in DescAtDp : fits(d) /\ rlen' = rlen - dlen(d)
    BY DEF WalkDesc
  <2>2. d \in Desc /\ rlen \in Nat
    BY <1>1 DEF DescAtDp, Desc, DevIdInv, DevIdTypes
  <2> QED
    BY <2>1, <2>2, DescLen DEF fits, Shrinks
<1> QED
  BY <1>1, DevIdInvariance, PTL DEF Spec

----------------------------------------------------------------------------
(* get_device_serial_number *)

PciTypes ==
  /\ cfg \in Config
  /\ ppc \in {"idle", "status", "caps", "ext", "dsn", "done"}
  /\ ppc = "caps" => offset \in CapOff
  /\ ppc \in {"ext", "dsn"} => offset \in ExtOff

\* What is reported before a device is found and while it is searched.
ReportSoFar ==
  /\ ppc = "idle" => SerialNumber = no_serial /\ NumberOfPorts = 0
  /\ ppc \in {"status", "caps", "ext", "dsn"} =>
       SerialNumber = unknown /\ NumberOfPorts = 1

\* The search has passed the members of S, none of which is what it looks for,
\* and they lead to one another and to where the search is.
CapPassed(S) ==
  /\ cfg.cap_ptr \in S \cup {offset}
  /\ \A s \in S : cfg.caps[s].id # "EXP" /\ cfg.caps[s].next \in S \cup {offset}

ExtPassed(S) ==
  /\ ext_start \in S \cup {offset}
  /\ \A s \in S : cfg.ext[s].id # "DSN" /\ cfg.ext[s].next \in S \cup {offset}

\* The search is at an offset the list leads to.
CapSearch ==
  ppc = "caps" => offset \in CapList /\ \E S \in SUBSET CapOff : CapPassed(S)

ExtSearch ==
  ppc \in {"ext", "dsn"} =>
    /\ Express
    /\ offset \in ExtList
    /\ \E S \in SUBSET ExtOff : ExtPassed(S)
    /\ ppc = "dsn" => cfg.ext[offset].id = "DSN"

PciInv ==
  PciTypes /\ ReportSoFar /\ CapSearch /\ ExtSearch /\ SerialIsDevices

LEMMA PciInitInv == PciInit => PciInv
<1> SUFFICES ASSUME PciInit PROVE PciInv
  OBVIOUS
<1>1. no_config \in Config
  BY DEF no_config, Config
<1> QED
  BY <1>1 DEF PciInit, PciInv, PciTypes, ReportSoFar, CapSearch, ExtSearch,
              SerialIsDevices

\* The lists lead from their start on.
LEMMA ListStarts ==
  ASSUME cfg \in Config
  PROVE  cfg.cap_ptr \in CapList /\ ext_start \in ExtList
BY OffsetAssumption DEF Config, CapList, ExtList, CapClosed, ExtClosed

LEMMA ListGoesOn ==
  ASSUME cfg \in Config
  PROVE  /\ \A o \in CapOff \cap CapList : cfg.caps[o].next \in CapList
         /\ \A o \in ExtOff \cap ExtList :
              cfg.ext[o].id # "DSN" => cfg.ext[o].next \in ExtList
<1>1. 0 \notin CapOff /\ 0 \notin ExtOff
  BY OffsetAssumption DEF ext_start
<1>2. ASSUME NEW o \in CapOff, o \in CapList
      PROVE  cfg.caps[o].next \in CapList
  BY <1>1, <1>2 DEF Config, CapList, CapClosed
<1>3. ASSUME NEW o \in ExtOff, o \in ExtList, cfg.ext[o].id # "DSN"
      PROVE  cfg.ext[o].next \in ExtList
  BY <1>1, <1>3 DEF Config, ExtList, ExtClosed
<1> QED
  BY <1>2, <1>3

\* A list whose passed members lead to its end has nothing else.
LEMMA CapsExhausted ==
  ASSUME cfg \in Config, NEW S \in SUBSET CapOff,
         cfg.cap_ptr \in S \cup {0},
         \A s \in S : cfg.caps[s].id # "EXP" /\ cfg.caps[s].next \in S \cup {0}
  PROVE  ~Express
<1>1. 0 \notin CapOff
  BY OffsetAssumption
<1>2. CapClosed(S \cup {0}) /\ S \cup {0} \in SUBSET (CapOff \cup {0})
  BY <1>1 DEF CapClosed
<1>3. CapList \subseteq S \cup {0}
  BY <1>2 DEF CapList
<1> QED
  BY <1>1, <1>3 DEF Express

LEMMA ExtExhausted ==
  ASSUME cfg \in Config, NEW S \in SUBSET ExtOff,
         ext_start \in S \cup {0},
         \A s \in S : cfg.ext[s].id # "DSN" /\ cfg.ext[s].next \in S \cup {0}
  PROVE  \A o \in ExtOff : ~FirstSerial(o)
<1>1. 0 \notin ExtOff
  BY OffsetAssumption DEF ext_start
<1>2. ExtClosed(S \cup {0}) /\ S \cup {0} \in SUBSET (ExtOff \cup {0})
  BY <1>1 DEF ExtClosed
<1>3. ExtList \subseteq S \cup {0}
  BY <1>2 DEF ExtList
<1> QED
  BY <1>1, <1>3 DEF FirstSerial

\* The lists depend on the configuration space alone.
LEMMA SameLists ==
  ASSUME UNCHANGED cfg
  PROVE  /\ CapList' = CapList /\ ExtList' = ExtList /\ Express' = Express
         /\ \A o : FirstSerial(o)' = FirstSerial(o)
BY DEF CapList, ExtList, CapClosed, ExtClosed, Express, FirstSerial

LEMMA ReadCapPtrPreserves ==
  ASSUME PciInv, ReadCapPtr
  PROVE  PciInv'
<1> USE DEF ReadCapPtr, Follow, info
<1>1. cfg \in Config /\ SerialNumber = unknown /\ NumberOfPorts = 1
  BY DEF PciInv, PciTypes, ReportSoFar
<1>2. CASE cfg.cap_ptr = 0
  <2>1. ~Express
    <3>1. {} \in SUBSET CapOff /\ cfg.cap_ptr \in {} \cup {0}
      BY <1>2
    <3> QED
      BY <1>1, <3>1, CapsExhausted
  <2>2. ~Express'
    BY <2>1, SameLists
  <2> QED
    BY <1>1, <1>2, <2>2 DEF PciInv, PciTypes, ReportSoFar, CapSearch, ExtSearch,
         SerialIsDevices, unknown
<1>3. CASE cfg.cap_ptr # 0
  <2>1. cfg.cap_ptr \in CapOff /\ offset' = cfg.cap_ptr /\ ppc' = "caps"
    BY <1>1, <1>3 DEF Config
  <2>2. CapPassed({})' /\ offset' \in CapList'
    BY <1>1, <2>1, ListStarts, SameLists DEF CapPassed
  <2> QED
    BY <1>1, <2>1, <2>2 DEF PciInv, PciTypes, ReportSoFar, CapSearch, ExtSearch,
         SerialIsDevices
<1> QED
  BY <1>2, <1>3

LEMMA CapStepPreserves ==
  ASSUME PciInv, CapStep
  PROVE  PciInv'
<1> USE DEF CapStep, Follow, info
<1>1. /\ cfg \in Config /\ SerialNumber = unknown /\ NumberOfPorts = 1
      /\ offset \in CapOff /\ offset \in CapList
  BY DEF PciInv, PciTypes, ReportSoFar, CapSearch
<1>2. PICK S \in SUBSET CapOff : CapPassed(S)
  BY DEF PciInv, CapSearch
<1>3. CASE cfg.caps[offset].id = "EXP"
  <2>1. Express' /\ offset' = ext_start /\ ext_start \in ExtOff /\ ppc' = "ext"
    BY <1>1, <1>3, SameLists, OffsetAssumption DEF Express
  <2>2. ExtPassed({})' /\ offset' \in ExtList'
    BY <1>1, <2>1, ListStarts, SameLists DEF ExtPassed
  <2> QED
    BY <1>1, <2>1, <2>2 DEF PciInv, PciTypes, ReportSoFar, CapSearch, ExtSearch,
         SerialIsDevices
<1>4. CASE cfg.caps[offset].id # "EXP"
  <2>0. PICK T \in SUBSET CapOff : T = S \cup {offset}
    BY <1>1
  <2>1. /\ cfg.cap_ptr \in T
        /\ \A s \in T : cfg.caps[s].id # "EXP" /\ cfg.caps[s].next \in T \cup {offset'}
    BY <1>1, <1>2, <1>4, <2>0 DEF CapPassed
  <2>2. CASE cfg.caps[offset].next = 0
    <3>1. ~Express'
      BY <1>1, <1>4, <2>1, <2>2, CapsExhausted, SameLists
    <3> QED
      BY <1>1, <1>4, <2>2, <3>1 DEF PciInv, PciTypes, ReportSoFar, CapSearch,
           ExtSearch, SerialIsDevices, unknown
  <2>3. CASE cfg.caps[offset].next # 0
    <3>1. offset' \in CapOff /\ ppc' = "caps"
      BY <1>1, <1>4, <2>3 DEF Config
    <3>2. CapPassed(T)' /\ offset' \in CapList'
      BY <1>1, <1>4, <2>1, <3>1, ListGoesOn, SameLists DEF CapPassed
    <3> QED
      BY <1>1, <2>1, <3>1, <3>2 DEF PciInv, PciTypes, ReportSoFar, CapSearch,
           ExtSearch, SerialIsDevices
  <2> QED
    BY <2>2, <2>3
<1> QED
  BY <1>3, <1>4

LEMMA ExtStepPreserves ==
  ASSUME PciInv, ExtStep
  PROVE  PciInv'
<1> USE DEF ExtStep, Follow, info
<1>1. /\ cfg \in Config /\ SerialNumber = unknown /\ NumberOfPorts = 1
      /\ offset \in ExtOff /\ offset \in ExtList /\ Express
  BY DEF PciInv, PciTypes, ReportSoFar, ExtSearch
<1>2. PICK S \in SUBSET ExtOff : ExtPassed(S)
  BY DEF PciInv, ExtSearch
<1>3. CASE cfg.ext[offset].id = "DSN"
  <2>1. ExtPassed(S)' /\ Express' /\ offset' \in ExtList' /\ ppc' = "dsn"
    BY <1>1, <1>2, <1>3, SameLists DEF ExtPassed
  <2> QED
    BY <1>1, <1>3, <2>1 DEF PciInv, PciTypes, ReportSoFar, CapSearch, ExtSearch,
         SerialIsDevices
<1>4. CASE cfg.ext[offset].id # "DSN"
  <2>0. PICK T \in SUBSET ExtOff : T = S \cup {offset}
    BY <1>1
  <2>1. /\ ext_start \in T
        /\ \A s \in T : cfg.ext[s].id # "DSN" /\ cfg.ext[s].next \in T \cup {offset'}
    BY <1>1, <1>2, <1>4, <2>0 DEF ExtPassed
  <2>2. CASE cfg.ext[offset].next = 0
    <3>1. \A o \in ExtOff : ~FirstSerial(o)'
      <4>1. \A o \in ExtOff : ~FirstSerial(o)
        BY <1>1, <1>4, <2>1, <2>2, ExtExhausted
      <4> QED
        BY <4>1, SameLists
    <3> QED
      BY <1>1, <1>4, <2>2, <3>1 DEF PciInv, PciTypes, ReportSoFar, CapSearch,
           ExtSearch, SerialIsDevices, unknown
  <2>3. CASE cfg.ext[offset].next # 0
    <3>1. offset' \in ExtOff /\ ppc' = "ext"
      BY <1>1, <1>4, <2>3 DEF Config
    <3>2. ExtPassed(T)' /\ offset' \in ExtList' /\ Express'
      BY <1>1, <1>4, <2>1, <3>1, ListGoesOn, SameLists DEF ExtPassed
    <3> QED
      BY <1>1, <2>1, <3>1, <3>2 DEF PciInv, PciTypes, ReportSoFar, CapSearch,
           ExtSearch, SerialIsDevices
  <2> QED
    BY <2>2, <2>3
<1> QED
  BY <1>3, <1>4

LEMMA ReadSerialPreserves ==
  ASSUME PciInv, ReadSerial
  PROVE  PciInv'
<1> USE DEF ReadSerial
<1>1. /\ cfg \in Config /\ NumberOfPorts = 1 /\ Express
      /\ offset \in ExtOff /\ offset \in ExtList /\ cfg.ext[offset].id = "DSN"
  BY DEF PciInv, PciTypes, ReportSoFar, ExtSearch
<1>2. FirstSerial(offset)
  BY <1>1 DEF FirstSerial
<1>3. PICK low \in {offset, 0}, high \in {offset, 0} :
        /\ SerialNumber' = [text |-> "number", low |-> low, high |-> high]
        /\ failed' = (0 \in {low, high})
  OBVIOUS
<1>4. SerialIsDevices'
  <2>1. Express' /\ FirstSerial(offset)'
    BY <1>1, <1>2, SameLists
  <2>2. /\ SerialNumber'.text = "number"
        /\ SerialNumber'.low \in {offset, 0} /\ SerialNumber'.high \in {offset, 0}
        /\ ~failed' => SerialNumber'.low # 0 /\ SerialNumber'.high # 0
    <3>1. (0 \in {low, high}) <=> low = 0 \/ high = 0
      OBVIOUS
    <3>2. ~failed' => low # 0 /\ high # 0
      BY <1>3, <3>1, Zenon
    <3> QED
      BY <1>3, <3>2
  <2>3. offset' = offset /\ NumberOfPorts' = NumberOfPorts
    OBVIOUS
  <2> QED
    BY <1>1, <1>3, <2>1, <2>2, <2>3 DEF SerialIsDevices
<1> QED
  BY <1>1, <1>4 DEF PciInv, PciTypes, ReportSoFar, CapSearch, ExtSearch

LEMMA PciNextInv ==
  ASSUME PciInv, [PciNext]_pciVars
  PROVE  PciInv'
<1>1. CASE UNCHANGED pciVars
  BY <1>1 DEF pciVars, PciInv, PciTypes, ReportSoFar, CapSearch, ExtSearch,
       SerialIsDevices, CapPassed, ExtPassed, CapList, ExtList, CapClosed,
       ExtClosed, Express, FirstSerial
<1>2. CASE SystemFails \/ NoDevice
  <2>1. /\ ppc' = "done" /\ UNCHANGED <<cfg, offset, info>> /\ ppc = "idle"
    BY <1>2 DEF SystemFails, NoDevice
  <2>2. SerialNumber'.text = "empty" /\ NumberOfPorts' = 0
    BY <2>1 DEF info, PciInv, ReportSoFar, no_serial
  <2>3. SerialIsDevices'
    BY <2>2 DEF SerialIsDevices
  <2> QED
    BY <2>1, <2>3 DEF PciInv, PciTypes, ReportSoFar, CapSearch, ExtSearch
<1>3. CASE DeviceInfo
  BY <1>3 DEF DeviceInfo, PciInv, PciTypes, ReportSoFar, CapSearch, ExtSearch,
       SerialIsDevices
<1>4. CASE ReadCapPtr \/ CapStep
  BY <1>4, ReadCapPtrPreserves, CapStepPreserves
<1>5. CASE ExtStep \/ ReadSerial
  BY <1>5, ExtStepPreserves, ReadSerialPreserves
<1>6. CASE ReadFails
  <2>1. SerialNumber = unknown /\ NumberOfPorts = 1
    BY <1>6 DEF ReadFails, PciInv, ReportSoFar
  <2> QED
    BY <1>6, <2>1 DEF ReadFails, info, PciInv, PciTypes, ReportSoFar, CapSearch,
         ExtSearch, SerialIsDevices, unknown
<1>7. CASE PciReturn
  <2>1. no_config \in Config
    BY DEF no_config, Config
  <2> QED
    BY <1>7, <2>1 DEF PciReturn, PciInv, PciTypes, ReportSoFar, CapSearch,
         ExtSearch, SerialIsDevices
<1> QED
  BY <1>1, <1>2, <1>3, <1>4, <1>5, <1>6, <1>7 DEF PciNext, Walk

\* Each half of the number that get_device_serial_number reports is that of the
\* first serial number register of a PCI Express device, or zeros if it could
\* not be read, and a device that has one and answered every read is never
\* "Unknown", for every content of configuration space, cycles included.
THEOREM SerialNumberIsDevices == PciSpec => []SerialIsDevices
<1>1. PciInv /\ [PciNext]_pciVars => PciInv'
  BY PciNextInv
<1>2. PciInv => SerialIsDevices
  BY DEF PciInv
<1> QED
  BY PciInitInv, <1>1, <1>2, PTL DEF PciSpec

----------------------------------------------------------------------------
(* Network-order fields *)

\* What a byte can hold.
octets == 0 .. ByteBase - 1

\* What is built up from 0 by steps of one covers the natural numbers.
LEMMA NatSets ==
  ASSUME NEW S, 0 \in S, \A n \in Nat : n \in S => n + 1 \in S
  PROVE  Nat \subseteq S
<1> SUFFICES ASSUME NEW m \in Nat, m \notin S PROVE FALSE
  OBVIOUS
<1> DEFINE T == S \cap (0 .. m)
           up == [k \in T |-> k + 1]
<1>1. IsFiniteSet(T) /\ 0 \in T
  <2>1. IsFiniteSet(0 .. m)
    BY FS_Interval
  <2> QED
    BY <2>1, FS_Subset
<1>2. IsFiniteSet(T \ {0}) /\ Cardinality(T \ {0}) < Cardinality(T)
  <2> HIDE DEF T
  <2>1. Cardinality(T \ {0}) = Cardinality(T) - 1 /\ IsFiniteSet(T \ {0})
    BY <1>1, FS_RemoveElement
  <2>2. Cardinality(T) \in Nat
    BY <1>1, FS_CardinalityType
  <2> QED
    BY <2>1, <2>2
<1>3. up \in [T -> T \ {0}]
  OBVIOUS
<1>4. \E x, y \in T : x # y /\ up[x] = up[y]
  <2> HIDE DEF T, up
  <2> QED
    BY <1>1, <1>2, <1>3, FS_PigeonHole
<1> QED
  BY <1>4

\* The two parts of a division.
LEMMA Division ==
  ASSUME NEW b \in Nat \ {0}, NEW v \in Nat
  PROVE  /\ v = (v \div b) * b + (v % b)
         /\ v \div b \in Nat
         /\ v % b \in 0 .. b - 1
OBVIOUS

LEMMA Quotient ==
  ASSUME NEW b \in Nat \ {0}, NEW v \in Nat, NEW r \in 0 .. b - 1
  PROVE  (v * b + r) \div b = v /\ (v * b + r) % b = r
OBVIOUS

LEMMA NoQuotient ==
  ASSUME NEW w \in Nat, NEW v \in Nat, v < w
  PROVE  v \div w = 0
OBVIOUS

\* Two shifts in a row.
LEMMA TwoShifts ==
  ASSUME NEW v \in Nat, NEW w \in Nat \ {0}, NEW b \in Nat \ {0}
  PROVE  v \div (b * w) = (v \div w) \div b
<1> DEFINE q == v \div w
           r == v % w
           p == q \div b
           s == q % b
<1>1. v = q * w + r /\ r \in 0 .. w - 1 /\ q \in Nat
  BY Division
<1>2. q = p * b + s /\ s \in 0 .. b - 1 /\ p \in Nat
  BY <1>1, Division
<1> HIDE DEF q, r, p, s
<1>3. s * w + r \in 0 .. (b * w) - 1
  <2>1. s * w \in Nat /\ s * w <= (b - 1) * w
    BY <1>1, <1>2
  <2>2. (b - 1) * w = b * w - w
    OBVIOUS
  <2> QED
    BY <1>1, <2>1, <2>2
<1>4. v = p * (b * w) + (s * w + r)
  <2>1. v = (p * b) * w + (s * w + r)
    BY <1>1, <1>2
  <2>2. (p * b) * w = p * (b * w)
    BY <1>2
  <2> QED
    BY <2>1, <2>2
<1>5. b * w \in Nat \ {0}
  OBVIOUS
<1>6. v \div (b * w) = p
  BY <1>2, <1>3, <1>4, <1>5, Quotient
<1> QED
  BY <1>6 DEF p, q

LEMMA Base == ByteBase \in Nat \ {0, 1} /\ octets \subseteq Nat
BY WireAssumption DEF octets

LEMMA NextDigit ==
  ASSUME NEW a \in Nat, NEW d \in Nat
  PROVE  a * ByteBase + d \in Nat
<1>1. \A b \in Nat : a * b \in Nat
  OBVIOUS
<1> QED
  BY <1>1, Base

\* The values of a number of n digits as it is built up from the highest digit.
Chains(n, start, digit) ==
  {f \in [0 .. n -> Nat] :
     f[0] = start /\ \A i \in 1 .. n : f[i] = f[i - 1] * ByteBase + digit[i]}

\* There is such a sequence of values, which a recursive definition stands for.
LEMMA Horner ==
  ASSUME NEW n \in Nat, NEW start \in Nat, NEW digit \in [1 .. n -> Nat]
  PROVE  Chains(n, start, digit) # {}
<1> DEFINE S == {m \in Nat : m <= n => Chains(m, start, digit) # {}}
<1>1. 0 \in S
  <2>1. [i \in 0 .. 0 |-> start] \in Chains(0, start, digit)
    BY DEF Chains
  <2> QED
    BY <2>1
<1>2. ASSUME NEW m \in Nat, m + 1 <= n, Chains(m, start, digit) # {}
      PROVE  Chains(m + 1, start, digit) # {}
  <2>1. PICK f \in Chains(m, start, digit) : TRUE
    BY <1>2
  <2> DEFINE g == [i \in 0 .. m + 1 |->
                     IF i = m + 1 THEN f[m] * ByteBase + digit[m + 1] ELSE f[i]]
  <2>2. f[m] \in Nat /\ digit[m + 1] \in Nat
    <3>1. f \in [0 .. m -> Nat] /\ m \in 0 .. m /\ m + 1 \in 1 .. n
      BY <1>2, <2>1 DEF Chains
    <3> QED
      BY <3>1
  <2>3. f[m] * ByteBase + digit[m + 1] \in Nat
    BY <2>2, NextDigit
  <2>4. g \in [0 .. m + 1 -> Nat]
    BY <2>1, <2>3 DEF Chains
  <2>5. g[0] = start /\ \A i \in 1 .. m + 1 : g[i] = g[i - 1] * ByteBase + digit[i]
    <3>1. g[0] = start
      BY <1>2, <2>1 DEF Chains
    <3>2. \A i \in 1 .. m : g[i] = f[i] /\ g[i - 1] = f[i - 1]
      OBVIOUS
    <3>3. \A i \in 1 .. m : f[i] = f[i - 1] * ByteBase + digit[i]
      BY <2>1 DEF Chains
    <3>4. g[m + 1] = f[m] * ByteBase + digit[m + 1] /\ g[(m + 1) - 1] = f[m]
      OBVIOUS
    <3>5. \A i \in 1 .. m + 1 : i \in 1 .. m \/ i = m + 1
      OBVIOUS
    <3> HIDE DEF g
    <3> QED
      BY <3>1, <3>2, <3>3, <3>4, <3>5
  <2>6. g \in Chains(m + 1, start, digit)
    <3> HIDE DEF g
    <3> QED
      BY <2>4, <2>5 DEF Chains
  <2> QED
    BY <2>6
<1>3. Nat \subseteq S
  <2>1. \A m \in Nat : m \in S => m + 1 \in S
    BY <1>2
  <2> HIDE DEF S
  <2> QED
    BY <1>1, <2>1, NatSets
<1>4. Chains(n, start, digit) # {}
  BY <1>3
<1> QED
  BY <1>4

\* The recursive definitions of the module are those of functions.
LEMMA RangeDef ==
  /\ range[0] = 1
  /\ \A k \in 1 .. 8 : range[k] = ByteBase * range[k - 1]
  /\ \A k \in 0 .. 8 : range[k] \in Nat \ {0}
<1> DEFINE R(g) == g = [k \in 0 .. 8 |-> IF k = 0 THEN 1 ELSE ByteBase * g[k - 1]]
           zero == [i \in 1 .. 8 |-> 0]
<1>1. \E f \in [0 .. 8 -> Nat] :
        f[0] = 1 /\ \A k \in 1 .. 8 : f[k] = f[k - 1] * ByteBase
  <2>1. zero \in [1 .. 8 -> Nat] /\ \A k \in 1 .. 8 : zero[k] = 0
    OBVIOUS
  <2>2. PICK f \in Chains(8, 1, zero) : TRUE
    <3> HIDE DEF zero
    <3> QED
      BY <2>1, Horner
  <2>3. f \in [0 .. 8 -> Nat]
    BY <2>2 DEF Chains
  <2>4. f[0] = 1 /\ \A k \in 1 .. 8 : f[k] = f[k - 1] * ByteBase
    <3>1. f[0] = 1 /\ \A k \in 1 .. 8 : f[k] = f[k - 1] * ByteBase + zero[k]
      BY <2>2 DEF Chains
    <3>2. \A k \in 1 .. 8 : f[k - 1] * ByteBase + 0 = f[k - 1] * ByteBase
      BY <2>3, Base
    <3> QED
      BY <2>1, <3>1, <3>2
  <2> QED
    BY <2>3, <2>4
<1>2. PICK f \in [0 .. 8 -> Nat] :
        f[0] = 1 /\ \A k \in 1 .. 8 : f[k] = f[k - 1] * ByteBase
  BY <1>1
<1>3. R(f)
  <2>1. \A k \in 0 .. 8 : f[k] = IF k = 0 THEN 1 ELSE ByteBase * f[k - 1]
    BY <1>2, Base
  <2> QED
    BY <2>1
<1>4. range = CHOOSE g : R(g)
  BY DEF range
<1>5. R(range)
  <2> HIDE DEF R
  <2> QED
    BY <1>3, <1>4
<1>6. \A k \in 0 .. 8 : range[k] \in Nat \ {0}
  <2> DEFINE S == {k \in Nat : k <= 8 => range[k] \in Nat \ {0}}
  <2>1. 0 \in S
    BY <1>5
  <2>2. \A k \in Nat : k \in S => k + 1 \in S
    <3> SUFFICES ASSUME NEW k \in Nat, k + 1 <= 8, range[k] \in Nat \ {0}
                 PROVE  range[k + 1] \in Nat \ {0}
      OBVIOUS
    <3>1. range[k + 1] = ByteBase * range[k]
      BY <1>5
    <3> QED
      BY <3>1, Base
  <2>3. Nat \subseteq S
    <3> HIDE DEF S
    <3> QED
      BY <2>1, <2>2, NatSets
  <2> QED
    BY <2>3
<1> QED
  BY <1>5, <1>6

LEMMA GetDef ==
  ASSUME NEW n \in Nat, NEW net \in Seq(octets), Len(net) = n
  PROVE  \E f \in Chains(n, 0, net) : ua_get(net) = f[n]
<1> DEFINE R(g) == g = [i \in 0 .. Len(net) |->
                          IF i = 0 THEN 0 ELSE g[i - 1] * ByteBase + net[i]]
<1>1. net \in [1 .. n -> Nat]
  <2>1. net \in [1 .. n -> octets]
    OBVIOUS
  <2> QED
    BY <2>1, Base
<1>2. \E f \in [0 .. n -> Nat] :
        f[0] = 0 /\ \A i \in 1 .. n : f[i] = f[i - 1] * ByteBase + net[i]
  <2>1. PICK f \in Chains(n, 0, net) : TRUE
    BY <1>1, Horner
  <2> QED
    BY <2>1 DEF Chains
<1>3. PICK f \in [0 .. n -> Nat] :
        f[0] = 0 /\ \A i \in 1 .. n : f[i] = f[i - 1] * ByteBase + net[i]
  BY <1>2
<1>4. R(f)
  BY <1>3
<1> DEFINE h == CHOOSE g : R(g)
<1>5. R(h)
  <2> HIDE DEF R
  <2> QED
    BY <1>4
<1>6. ua_get(net) = h[n]
  BY DEF ua_get
<1>7. h[0] = 0 /\ \A i \in 1 .. n : h[i] = h[i - 1] * ByteBase + net[i]
  <2> HIDE DEF h
  <2> QED
    BY <1>5
<1>8. h = f
  <2> HIDE DEF h
  <2> DEFINE S == {i \in Nat : i <= n => h[i] = f[i]}
  <2>1. 0 \in S
    BY <1>3, <1>7
  <2>2. \A i \in Nat : i \in S => i + 1 \in S
    <3> SUFFICES ASSUME NEW i \in Nat, i + 1 <= n, h[i] = f[i] PROVE h[i + 1] = f[i + 1]
      OBVIOUS
    <3> QED
      BY <1>3, <1>7
  <2>3. Nat \subseteq S
    <3> HIDE DEF S
    <3> QED
      BY <2>1, <2>2, NatSets
  <2>4. \A i \in 0 .. n : h[i] = f[i]
    BY <2>3
  <2>5. h = [i \in 0 .. n |-> h[i]]
    BY <1>5
  <2> QED
    BY <2>4, <2>5
<1> HIDE DEF h
<1>9. f \in Chains(n, 0, net)
  BY <1>3 DEF Chains
<1> QED
  BY <1>6, <1>8, <1>9

LEMMA RangeStep ==
  ASSUME NEW k \in 0 .. 7
  PROVE  /\ range[k] \in Nat \ {0} /\ range[k + 1] \in Nat \ {0}
         /\ range[k + 1] = ByteBase * range[k]
BY RangeDef

\* A shift by one byte more.
LEMMA ShiftStep ==
  ASSUME NEW v \in Nat, NEW k \in 0 .. 7
  PROVE  /\ v \div range[k] \in Nat
         /\ v \div range[k + 1] = (v \div range[k]) \div ByteBase
<1>1. /\ range[k] \in Nat \ {0} /\ range[k + 1] = ByteBase * range[k]
      /\ ByteBase \in Nat \ {0}
  BY RangeStep, Base
<1>2. v \div (ByteBase * range[k]) = (v \div range[k]) \div ByteBase
  BY <1>1, TwoShifts
<1> QED
  BY <1>1, <1>2, Division

\* What is put into a field.
LEMMA PutBytes ==
  ASSUME NEW n \in 0 .. 8, NEW v \in Nat
  PROVE  /\ ua_put(n, v) \in Seq(octets) /\ Len(ua_put(n, v)) = n
         /\ \A i \in 1 .. n : ua_put(n, v)[i] = byte(v, n - i)
<1>1. \A k \in 0 .. 8 : byte(v, k) \in octets
  BY RangeDef, Base, Division DEF byte, octets
<1>2. \A i \in 1 .. n : n - i \in 0 .. 8
  OBVIOUS
<1>3. ua_put(n, v) \in [1 .. n -> octets]
  BY <1>1, <1>2 DEF ua_put
<1> QED
  BY <1>3 DEF ua_put

\* A value that fits in the field comes back from it.
LEMMA GetPut ==
  ASSUME NEW n \in 0 .. 8, NEW v \in Values(n)
  PROVE  ua_get(ua_put(n, v)) = v
<1> DEFINE net == ua_put(n, v)
<1>1. v \in Nat /\ range[n] \in Nat /\ v < range[n] /\ n \in Nat
  BY RangeDef DEF Values
<1>2. net \in Seq(octets) /\ Len(net) = n /\ \A i \in 1 .. n : net[i] = byte(v, n - i)
  BY <1>1, PutBytes
<1> HIDE DEF net
<1>3. PICK f \in Chains(n, 0, net) : ua_get(net) = f[n]
  BY <1>1, <1>2, GetDef
<1> DEFINE S == {i \in Nat : i <= n => f[i] = v \div range[n - i]}
<1>4. 0 \in S
  <2>1. f[0] = 0
    BY <1>3 DEF Chains
  <2>2. v \div range[n] = 0
    BY <1>1, NoQuotient
  <2> QED
    BY <1>1, <2>1, <2>2
<1>5. ASSUME NEW i \in Nat, i + 1 <= n, f[i] = v \div range[n - i]
      PROVE  f[i + 1] = v \div range[n - (i + 1)]
  <2> DEFINE k == n - (i + 1)
             q == v \div range[k]
  <2>1. k \in 0 .. 7 /\ k + 1 = n - i
    BY <1>5
  <2>2. f[i + 1] = f[i] * ByteBase + net[i + 1]
    <3>1. i + 1 \in 1 .. n /\ (i + 1) - 1 = i
      BY <1>5
    <3> QED
      BY <1>3, <3>1 DEF Chains
  <2>3. net[i + 1] = q % ByteBase
    BY <1>2, <1>5 DEF byte
  <2> HIDE DEF k
  <2>4. q \in Nat /\ f[i] = q \div ByteBase
    BY <1>1, <1>5, <2>1, ShiftStep
  <2> HIDE DEF q
  <2>5. f[i + 1] = q
    BY <2>2, <2>3, <2>4, Division, Base
  <2> QED
    BY <2>5 DEF q, k
<1>6. Nat \subseteq S
  <2>1. \A i \in Nat : i \in S => i + 1 \in S
    BY <1>5
  <2> HIDE DEF S
  <2> QED
    BY <1>4, <2>1, NatSets
<1>7. f[n] = v \div range[0]
  BY <1>1, <1>6
<1> QED
  BY <1>1, <1>3, <1>7, RangeDef DEF net

\* The bytes of a field come back from its value.
LEMMA PutGet ==
  ASSUME NEW n \in 0 .. 8, NEW net \in Seq(octets), Len(net) = n
  PROVE  ua_get(net) \in Values(n) /\ ua_put(n, ua_get(net)) = net
<1>1. n \in Nat
  OBVIOUS
<1>2. PICK f \in Chains(n, 0, net) : ua_get(net) = f[n]
  BY <1>1, GetDef
<1>3. ASSUME NEW i \in 1 .. n
      PROVE  /\ f[i] = f[i - 1] * ByteBase + net[i] /\ f[i - 1] \in Nat
             /\ net[i] \in 0 .. ByteBase - 1
  <2>1. f \in [0 .. n -> Nat] /\ f[i] = f[i - 1] * ByteBase + net[i]
    BY <1>2 DEF Chains
  <2>2. i - 1 \in 0 .. n /\ net[i] \in octets
    OBVIOUS
  <2> QED
    BY <2>1, <2>2 DEF octets
<1> DEFINE v == f[n]
<1>4. f[0] = 0 /\ v \in Nat
  <2>1. f[0] = 0 /\ f \in [0 .. n -> Nat] /\ n \in 0 .. n
    BY <1>2 DEF Chains
  <2> QED
    BY <2>1
<1>5. v < range[n]
  <2> DEFINE S == {i \in Nat : i <= n => f[i] < range[i]}
  <2>1. 0 \in S
    BY <1>4, RangeDef
  <2>2. ASSUME NEW i \in Nat, i + 1 <= n, f[i] < range[i]
        PROVE  f[i + 1] < range[i + 1]
    <3>1. i + 1 \in 1 .. n /\ (i + 1) - 1 = i /\ i \in 0 .. 7
      BY <2>2
    <3>2. /\ f[i + 1] = f[i] * ByteBase + net[i + 1]
          /\ net[i + 1] \in 0 .. ByteBase - 1 /\ f[i] \in Nat
      BY <1>3, <3>1
    <3>3. range[i] \in Nat /\ range[i + 1] = ByteBase * range[i]
      BY <3>1, RangeStep
    <3>4. \A a, r, b, d \in Nat : a < r /\ d < b => a * b + d < b * r
      <4> SUFFICES ASSUME NEW a \in Nat, NEW r \in Nat, NEW b \in Nat, NEW d \in Nat,
                          a < r, d < b
                   PROVE  a * b + d < b * r
        OBVIOUS
      <4>1. b * (a + 1) <= b * r
        OBVIOUS
      <4>2. b * (a + 1) = a * b + b
        OBVIOUS
      <4> QED
        BY <4>1, <4>2
    <3>5. net[i + 1] \in Nat /\ net[i + 1] < ByteBase /\ ByteBase \in Nat
      BY <3>2, Base
    <3> QED
      BY <2>2, <3>2, <3>3, <3>4, <3>5
  <2>3. Nat \subseteq S
    <3>1. \A i \in Nat : i \in S => i + 1 \in S
      BY <2>2
    <3> HIDE DEF S
    <3> QED
      BY <2>1, <3>1, NatSets
  <2> QED
    BY <2>3
<1>6. \A k \in 0 .. n : v \div range[k] = f[n - k]
  <2> DEFINE S == {k \in Nat : k <= n => v \div range[k] = f[n - k]}
  <2>1. 0 \in S
    BY <1>4, RangeDef
  <2>2. ASSUME NEW k \in Nat, k + 1 <= n, v \div range[k] = f[n - k]
        PROVE  v \div range[k + 1] = f[n - (k + 1)]
    <3> DEFINE i == n - k
    <3>1. i \in 1 .. n /\ k \in 0 .. 7 /\ n - (k + 1) = i - 1
      BY <2>2
    <3> HIDE DEF v
    <3>2. v \div range[k + 1] = f[i] \div ByteBase
      BY <1>4, <2>2, <3>1, ShiftStep
    <3> HIDE DEF i
    <3>3. /\ f[i] = f[i - 1] * ByteBase + net[i] /\ f[i - 1] \in Nat
          /\ net[i] \in 0 .. ByteBase - 1
      BY <1>3, <3>1
    <3>4. f[i] \div ByteBase = f[i - 1]
      BY <3>3, Quotient, Base
    <3> QED
      BY <3>1, <3>2, <3>4
  <2>3. Nat \subseteq S
    <3>1. \A k \in Nat : k \in S => k + 1 \in S
      BY <2>2
    <3> HIDE DEF S
    <3> QED
      BY <2>1, <3>1, NatSets
  <2> HIDE DEF v
  <2> QED
    BY <2>3
<1> HIDE DEF v
<1>7. \A i \in 1 .. n : ua_put(n, v)[i] = net[i]
  <2> SUFFICES ASSUME NEW i \in 1 .. n PROVE byte(v, n - i) = net[i]
    BY <1>4, PutBytes
  <2>1. v \div range[n - i] = f[i]
    <3>1. n - i \in 0 .. n /\ n - (n - i) = i
      OBVIOUS
    <3> QED
      BY <1>6, <3>1
  <2>2. /\ f[i] = f[i - 1] * ByteBase + net[i] /\ f[i - 1] \in Nat
        /\ net[i] \in 0 .. ByteBase - 1
    BY <1>3
  <2>3. f[i] % ByteBase = net[i]
    <3>1. \A a \in Nat : \A r \in 0 .. ByteBase - 1 : (a * ByteBase + r) % ByteBase = r
      BY Quotient, Base
    <3> QED
      BY <2>2, <3>1
  <2> QED
    BY <2>1, <2>3 DEF byte
<1>8. ua_put(n, v) = net
  <2>1. ua_put(n, v) \in Seq(octets) /\ Len(ua_put(n, v)) = n
    BY <1>4, PutBytes
  <2> QED
    BY <1>7, <2>1
<1>9. v \in Values(n)
  <2>1. range[n] \in Nat
    BY RangeDef
  <2> QED
    BY <1>4, <1>5, <2>1 DEF v, Values
<1> QED
  BY <1>2, <1>8, <1>9 DEF v

\* A value that fits has nothing to mask in its first byte.
LEMMA InitPut ==
  ASSUME NEW n \in 1 .. 8, NEW v \in Values(n)
  PROVE  UA_NET_INIT(n, v) = ua_put(n, v)
<1> DEFINE r == range[n - 1]
           q == v \div r
<1>1. n - 1 \in 0 .. 7 /\ (n - 1) + 1 = n
  OBVIOUS
<1>2. r \in Nat \ {0} /\ v \in Nat /\ v < ByteBase * r
  BY <1>1, RangeStep DEF Values
<1>3. q \in Nat /\ v = q * r + (v % r) /\ v % r \in 0 .. r - 1
  BY <1>2, Division
<1>4. q < ByteBase
  <2> HIDE DEF q, r
  <2>1. SUFFICES ASSUME ByteBase <= q PROVE FALSE
    BY <1>3, Base
  <2>2. ByteBase * r <= q * r
    BY <1>2, <1>3, <2>1, Base
  <2> QED
    BY <1>2, <1>3, <2>2, Base
<1>5. byte(v, n - 1) = q
  <2>1. \A a \in Nat, b \in Nat : a < b => a % b = a
    OBVIOUS
  <2> HIDE DEF q
  <2>2. q % ByteBase = q
    BY <1>3, <1>4, <2>1, Base
  <2> QED
    BY <2>2 DEF byte, q
<1> QED
  BY <1>5 DEF UA_NET_INIT, ua_put

LEMMA Turned ==
  ASSUME NEW net \in Seq(octets)
  PROVE  /\ Reverse(net) \in Seq(octets)
         /\ Len(Reverse(net)) = Len(net)
         /\ Reverse(Reverse(net)) = net
BY DEF Reverse

\* Bytes that the host turns twice are as they were.
LEMMA HostPut ==
  ASSUME NEW n \in 0 .. 8, NEW v \in Values(n)
  PROVE  host_put(n, swap(n, v)) = ua_put(n, v)
<1>1. v \in Nat
  BY RangeDef DEF Values
<1>2. ua_put(n, v) \in Seq(octets) /\ Len(ua_put(n, v)) = n
  BY <1>1, PutBytes
<1>3. ua_put(n, ua_get(Reverse(ua_put(n, v)))) = Reverse(ua_put(n, v))
  BY <1>2, Turned, PutGet
<1> QED
  BY <1>2, <1>3, Turned DEF host_put, swap

LEMMA HostGet ==
  ASSUME NEW n \in 0 .. 8, NEW net \in Seq(octets), Len(net) = n
  PROVE  swap(n, host_get(net)) = ua_get(net)
<1>1. ua_put(n, ua_get(Reverse(net))) = Reverse(net)
  BY Turned, PutGet
<1> QED
  BY <1>1, Turned DEF host_get, swap

LEMMA DigitAdded ==
  ASSUME NEW x \in Nat, NEW y \in Nat, NEW z \in Nat, NEW b \in Nat, NEW d \in Nat
  PROVE  (x * y + z) * b + d = x * (b * y) + (z * b + d)
OBVIOUS

\* Eight bytes as two words.
LEMMA TwoWords ==
  ASSUME NEW a \in Seq(octets), NEW c \in Seq(octets), Len(a) = 4, Len(c) = 4
  PROVE  ua_get(a \o c) = ua_get(a) * range[4] + ua_get(c)
<1> DEFINE m == a \o c
<1>1. /\ m \in Seq(octets) /\ Len(m) = 8
      /\ \A i \in 1 .. 4 : m[i] = a[i] /\ m[4 + i] = c[i]
      /\ \A i \in 1 .. 4 : c[i] \in octets
  <2>1. /\ m \in Seq(octets) /\ Len(m) = Len(a) + Len(c)
        /\ \A i \in 1 .. Len(a) + Len(c) : m[i] =
             IF i <= Len(a) THEN a[i] ELSE c[i - Len(a)]
    BY ConcatProperties, Zenon
  <2>2. m \in Seq(octets) /\ Len(m) = 8
    <3> HIDE DEF m
    <3> QED
      BY <2>1
  <2>3. \A i \in 1 .. 4 : c[i] \in octets
    BY ElementOfSeq
  <2>4. \A i \in 1 .. 8 : m[i] = IF i <= 4 THEN a[i] ELSE c[i - 4]
    <3> HIDE DEF m
    <3> QED
      BY <2>1
  <2>5. \A i \in 1 .. 4 : /\ i \in 1 .. 8 /\ i <= 4 /\ 4 + i \in 1 .. 8
                         /\ ~(4 + i <= 4) /\ (4 + i) - 4 = i
    OBVIOUS
  <2> HIDE DEF m
  <2> QED
    BY <2>2, <2>3, <2>4, <2>5
<1> HIDE DEF m
<1>2. PICK f \in Chains(8, 0, m) : ua_get(m) = f[8]
  BY <1>1, GetDef
<1>3. PICK g \in Chains(4, 0, a) : ua_get(a) = g[4]
  BY GetDef
<1>4. PICK h \in Chains(4, 0, c) : ua_get(c) = h[4]
  BY GetDef
<1>5. f[4] = g[4]
  BY <1>1, <1>2, <1>3 DEF Chains
<1>6. g[4] \in Nat /\ \A j \in 0 .. 4 : h[j] \in Nat
  BY <1>3, <1>4 DEF Chains
<1> DEFINE S == {j \in Nat : j <= 4 => f[4 + j] = g[4] * range[j] + h[j]}
<1>7. 0 \in S
  <2>1. h[0] = 0 /\ range[0] = 1
    BY <1>4, RangeDef DEF Chains
  <2> QED
    BY <1>5, <1>6, <2>1
<1>8. ASSUME NEW j \in Nat, j + 1 <= 4, f[4 + j] = g[4] * range[j] + h[j]
      PROVE  f[4 + (j + 1)] = g[4] * range[j + 1] + h[j + 1]
  <2>1. j \in 0 .. 7 /\ j + 1 \in 1 .. 4 /\ 4 + (j + 1) \in 1 .. 8
    BY <1>8
  <2>2. f[4 + (j + 1)] = f[4 + j] * ByteBase + c[j + 1]
    <3>1. f[4 + (j + 1)] = f[(4 + (j + 1)) - 1] * ByteBase + m[4 + (j + 1)]
      BY <1>2, <2>1 DEF Chains
    <3>2. (4 + (j + 1)) - 1 = 4 + j /\ m[4 + (j + 1)] = c[j + 1]
      BY <1>1, <2>1
    <3> QED
      BY <3>1, <3>2
  <2>3. h[j + 1] = h[j] * ByteBase + c[j + 1]
    <3>1. h[j + 1] = h[(j + 1) - 1] * ByteBase + c[j + 1]
      BY <1>4, <2>1 DEF Chains
    <3> QED
      BY <3>1
  <2>4. range[j] \in Nat /\ range[j + 1] = ByteBase * range[j]
    BY <2>1, RangeStep
  <2>5. h[j] \in Nat /\ c[j + 1] \in Nat
    <3>1. j \in 0 .. 4 /\ c[j + 1] \in octets
      BY <1>1, <2>1
    <3> QED
      BY <1>6, <3>1, Base
  <2>6. (g[4] * range[j] + h[j]) * ByteBase + c[j + 1]
          = g[4] * (ByteBase * range[j]) + (h[j] * ByteBase + c[j + 1])
    <3>1. g[4] \in Nat /\ range[j] \in Nat /\ ByteBase \in Nat
      BY <1>6, <2>4, Base
    <3> DEFINE x == g[4]
               y == range[j]
               z == h[j]
               d == c[j + 1]
    <3>2. x \in Nat /\ y \in Nat /\ z \in Nat /\ d \in Nat
      BY <2>5, <3>1
    <3> HIDE DEF x, y, z, d
    <3>3. (x * y + z) * ByteBase + d = x * (ByteBase * y) + (z * ByteBase + d)
      BY <3>1, <3>2, DigitAdded
    <3> QED
      BY <3>3 DEF x, y, z, d
  <2> QED
    BY <1>8, <2>2, <2>3, <2>4, <2>6
<1>9. Nat \subseteq S
  <2>1. \A j \in Nat : j \in S => j + 1 \in S
    BY <1>8
  <2> HIDE DEF S
  <2> QED
    BY <1>7, <2>1, NatSets
<1>10. f[8] = g[4] * range[4] + h[4]
  BY <1>9
<1> QED
  BY <1>2, <1>3, <1>4, <1>10 DEF m

\* The halves of eight bytes, and the value as two words.
LEMMA Halves ==
  ASSUME NEW net \in Seq(octets), Len(net) = 8
  PROVE  LET a == SubSeq(net, 1, 4)
             c == SubSeq(net, 5, 8)
         IN  /\ a \in Seq(octets) /\ Len(a) = 4 /\ c \in Seq(octets) /\ Len(c) = 4
             /\ net = a \o c
             /\ ua_get(net) = ua_get(a) * range[4] + ua_get(c)
<1> DEFINE a == SubSeq(net, 1, 4)
           c == SubSeq(net, 5, 8)
<1>1. a \in Seq(octets) /\ Len(a) = 4 /\ c \in Seq(octets) /\ Len(c) = 4
  <2>1. \A i \in 1 .. 8 : net[i] \in octets
    BY ElementOfSeq
  <2> QED
    BY <2>1, SubSeqProperties
<1>2. net = a \o c
  <2>1. SubSeq(net, 1, 4) \o SubSeq(net, 4 + 1, 8) = SubSeq(net, 1, 8)
    BY ConcatAdjacentSubSeq
  <2> QED
    BY <2>1, SubSeqFull
<1> HIDE DEF a, c
<1>3. ua_get(net) = ua_get(a) * range[4] + ua_get(c)
  BY <1>1, <1>2, TwoWords
<1> QED
  BY <1>1, <1>2, <1>3 DEF a, c

\* The aligned accessors do what the byte-aligned ones do.
LEMMA NetPut ==
  ASSUME NEW n \in net_widths, NEW v \in Values(n)
  PROVE  net_put(n, v) = ua_put(n, v)
<1>1. n \in 0 .. 8 /\ n \in Nat /\ v \in Nat
  BY RangeDef DEF net_widths, Values
<1>2. CASE n < 8
  BY <1>1, <1>2, HostPut DEF net_put
<1>3. CASE n = 8
  <2> DEFINE m == ua_put(8, v)
             a == SubSeq(m, 1, 4)
             c == SubSeq(m, 5, 8)
  <2>1. m \in Seq(octets) /\ Len(m) = 8
    BY <1>1, PutBytes
  <2>2. ua_get(m) = v
    BY <1>3, GetPut
  <2> HIDE DEF m
  <2>3. /\ a \in Seq(octets) /\ Len(a) = 4 /\ c \in Seq(octets) /\ Len(c) = 4
        /\ m = a \o c
        /\ v = ua_get(a) * range[4] + ua_get(c)
    BY <2>1, <2>2, Halves
  <2> HIDE DEF a, c
  <2>4. /\ ua_get(a) \in Values(4) /\ ua_put(4, ua_get(a)) = a
        /\ ua_get(c) \in Values(4) /\ ua_put(4, ua_get(c)) = c
    BY <2>3, PutGet
  <2>5. range[4] \in Nat \ {0} /\ ua_get(a) \in Nat /\ ua_get(c) \in 0 .. range[4] - 1
    BY <2>4, RangeDef DEF Values
  <2>6. v \div range[4] = ua_get(a) /\ v % range[4] = ua_get(c)
    BY <2>3, <2>5, Quotient
  <2>7. net_put(n, v) = a \o c
    BY <1>3, <2>4, <2>6, HostPut DEF net_put
  <2> QED
    BY <1>3, <2>3, <2>7 DEF m
<1> QED
  BY <1>1, <1>2, <1>3

LEMMA NetGet ==
  ASSUME NEW n \in net_widths, NEW net \in Seq(octets), Len(net) = n
  PROVE  net_get(n, net) = ua_get(net)
<1>1. CASE n < 8
  <2>1. n \in 0 .. 8
    BY DEF net_widths
  <2> QED
    BY <1>1, <2>1, HostGet DEF net_get
<1>2. CASE n = 8
  <2> DEFINE a == SubSeq(net, 1, 4)
             c == SubSeq(net, 5, 8)
  <2>1. /\ a \in Seq(octets) /\ Len(a) = 4 /\ c \in Seq(octets) /\ Len(c) = 4
        /\ ua_get(net) = ua_get(a) * range[4] + ua_get(c)
    BY <1>2, Halves
  <2>2. net_get(n, net) = swap(4, host_get(a)) * range[4] + swap(4, host_get(c))
    BY <1>2 DEF net_get
  <2> HIDE DEF a, c
  <2>3. swap(4, host_get(a)) = ua_get(a) /\ swap(4, host_get(c)) = ua_get(c)
    BY <2>1, HostGet
  <2> QED
    BY <2>1, <2>2, <2>3
<1> QED
  BY <1>1, <1>2 DEF net_widths

\* The field holds the bytes of its value, the highest first.
WireInv ==
  /\ width \in ua_widths
  /\ field.val \in Values(width)
  /\ field.mem = ua_put(width, field.val)

LEMMA WireInitInv ==
  cleared(8).val \in Values(8) /\ cleared(8).mem = ua_put(8, cleared(8).val)
BY RangeDef DEF cleared, Values

LEMMA WireNextInv ==
  ASSUME WireInv, [WireNext]_wireVars
  PROVE  WireInv'
<1>1. CASE Put
  <2>1. PICK v \in Values(width') : field' \in Stored(width', v)
    BY <1>1 DEF Put
  <2>2. width' \in ua_widths
    BY <1>1 DEF Put
  <2>3. field'.val = v /\ field'.mem = ua_put(width', v)
    <3>1. UA_NET_INIT(width', v) = ua_put(width', v)
      BY <2>2, InitPut DEF ua_widths
    <3>2. width' \in net_widths => net_put(width', v) = ua_put(width', v)
      BY NetPut
    <3>3. width' = 8 => copy_wwn(v) = ua_put(width', v)
      BY DEF copy_wwn
    <3> QED
      BY <2>1, <3>1, <3>2, <3>3 DEF Stored
  <2> QED
    BY <2>2, <2>3 DEF WireInv
<1>2. CASE Clear
  BY <1>2, WireInitInv DEF Clear, WireInv, ua_widths
<1>3. CASE UNCHANGED wireVars
  BY <1>3 DEF wireVars, WireInv
<1> QED
  BY <1>1, <1>2, <1>3 DEF WireNext

\* The accessors of net_types.h and copy_wwn agree: a field that any of them has
\* put is read back by any other, on a host of either byte order.
THEOREM FieldsReadBack == WireSpec => []ReadsBack
<1>1. WireInit => WireInv
  BY WireInitInv DEF WireInit, WireInv, ua_widths
<1>2. WireInv /\ [WireNext]_wireVars => WireInv'
  BY WireNextInv
<1>3. ASSUME WireInv PROVE ReadsBack
  <2>1. width \in 0 .. 8 /\ field.val \in Values(width) /\ field.val \in Nat
    BY <1>3, RangeDef DEF WireInv, ua_widths, Values
  <2>2. field.mem \in Seq(octets) /\ Len(field.mem) = width
    BY <1>3, <2>1, PutBytes DEF WireInv
  <2>3. ua_get(field.mem) = field.val
    BY <1>3, <2>1, GetPut DEF WireInv
  <2> QED
    BY <2>2, <2>3, NetGet DEF ReadsBack
<1> QED
  BY <1>1, <1>2, <1>3, PTL DEF WireSpec

=============================================================================
