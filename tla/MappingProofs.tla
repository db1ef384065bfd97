--------------------------- MODULE MappingProofs ---------------------------
(***************************************************************************)
(* Theorems about the walk over the SCSI devices and about the SCSI calls  *)
(* built on it, for every set of LUNs, of generic device names and of      *)
(* remote ports, every room a caller makes, and every order in which LUNs  *)
(* come and go.                                                            *)
(***************************************************************************)
EXTENDS ScsiCommand, FiniteSetTheorems, TLAPS

----------------------------------------------------------------------------
(* The inductive invariant of the walk *)

\* The contexts the three calls fill in.
MapCtxt ==
  [call : {"v1"}, oc_ver : {1}, oc_limit : Nat, oc_rport : {NULL},
   oc_port : {any}, oc_target : {any}, oc_lun : {any}]
  \cup
  [call : {"v2"}, oc_ver : {2}, oc_limit : Nat, oc_rport : {NULL},
   oc_port : {0}, oc_target : {any}, oc_lun : {any}]

SgCtxt ==
  {c \in [call : {"sg"}, oc_ver : {1}, oc_limit : {1}, oc_rport : Rport,
          oc_port : {0}, oc_target : 0 .. any - 1, oc_lun : 0 .. any,
          fc_lun : Nat] :
     c.oc_target = c.oc_rport.tgt /\ c.oc_lun = c.fc_lun % IntRange}

Entry == [lun : Lun, rport : Rport \cup {NULL}, luid : Lun \cup {NULL}]

\* The entry at oc_count is being filled in.
filling == pc \in {"names", "luid"}

\* How much of the caller's array is filled.
stored ==
  IF filling THEN oc_count + 1
  ELSE IF ctxt.call # "none" /\ ctxt.oc_limit < oc_count THEN ctxt.oc_limit
  ELSE oc_count

WalkTypes ==
  /\ sg_of \in [Lun -> SgName \cup {"absent", NULL}]
  /\ pc \in {"idle", "dir", "names", "luid", "done"}
  /\ ctxt \in {no_ctxt} \cup MapCtxt \cup SgCtxt
  /\ oc_count \in Nat
  /\ oc_sg \in SgName \cup {NULL}
  /\ entries \in [0 .. stored - 1 -> Entry]
  /\ todo \subseteq Lun
  /\ seen \subseteq Lun /\ IsFiniteSet(seen)
  /\ stayed \subseteq Lun
  /\ status \in {"OK", "MORE_DATA", "INVALID_HANDLE", "ILLEGAL_WWN", "ENOENT"}

\* A generic device name belongs to one LUN.
NamesDiffer ==
  \A k, l \in Lun : sg_of[k] \in SgName /\ sg_of[k] = sg_of[l] => k = l

\* Between the calls there is no context, and nothing of the last one is left.
CallPhases ==
  /\ walking => ctxt.call # "none"
  /\ pc = "idle" => ctxt.call = "none" /\ status = "OK"
  /\ ~walking => todo = {}
  /\ ctxt.call = "none" =>
       oc_count = 0 /\ oc_sg = NULL /\ seen = {} /\ stayed = {}

\* An entry of the directory is read once, and a LUN that stays is read.
ReadOnce ==
  /\ todo \cap seen = {}
  /\ stayed \subseteq todo \cup seen
  /\ stayed \subseteq scsi_device

\* oc_count counts the matching entries read, the one being filled in aside.
Counted ==
  LET hits == {l \in seen : matches(ctxt, l)}
  IN  /\ ctxt.call # "none" =>
           Cardinality(hits) = IF filling THEN oc_count + 1 ELSE oc_count
      /\ filling => oc_count < ctxt.oc_limit

\* What is stored are different matching entries that were read.
StoredDiffer ==
  /\ \A i \in 0 .. stored - 1 :
       entries[i].lun \in seen /\ matches(ctxt, entries[i].lun)
  /\ \A i, j \in 0 .. stored - 1 : entries[i].lun = entries[j].lun => i = j

\* The parts of an entry belong together.
PartsAgree ==
  ctxt.call \in {"v1", "v2"} =>
    \A i \in 0 .. stored - 1 :
      /\ entries[i].rport # NULL =>
           entries[i].lun.chan = 0 /\ entries[i].rport.tgt = entries[i].lun.tgt
      /\ entries[i].lun \in stayed => entries[i].luid \in {NULL, entries[i].lun}

\* The name in the context is that of the last entry stored.
LastName ==
  /\ pc = "names" => oc_sg = NULL
  /\ pc = "luid" => oc_sg # NULL
  /\ stored > 0 /\ entries[stored - 1].lun \in stayed =>
       oc_sg \in {NULL, sg_of[entries[stored - 1].lun]}

\* What a finished call returns.
DoneStatus ==
  pc = "done" =>
    /\ ctxt.call \in {"v1", "v2"} =>
         status = IF oc_count > ctxt.oc_limit THEN "MORE_DATA" ELSE "OK"
    /\ ctxt.call = "sg" => status = IF oc_count = 1 THEN "OK" ELSE "ENOENT"
    /\ ctxt.call = "none" => status \notin {"OK", "MORE_DATA"}

\* The LUNs a mapping call of this version reports, among those there are and
\* those a walk in progress has read or will read.
Asked(call) ==
  {l \in scsi_device \cup todo \cup seen :
     l.hba = ad_kern_index /\ (call = "v2" => l.chan = 0)}

\* The room a caller was told suffices for what a walk can come across.
EnoughRoom ==
  enough # NULL =>
    /\ enough[1] \in {"v1", "v2"}
    /\ enough[2] \in Nat
    /\ IsFiniteSet(Asked(enough[1]))
    /\ Cardinality(Asked(enough[1])) <= enough[2]

MapInv ==
  /\ WalkTypes
  /\ NamesDiffer
  /\ CallPhases
  /\ ReadOnce
  /\ Counted
  /\ StoredDiffer
  /\ PartsAgree
  /\ LastName
  /\ DoneStatus
  /\ EnoughRoom

----------------------------------------------------------------------------
(* Facts about the operators *)

\* One more entry that was not among those read.
LEMMA OneMore ==
  ASSUME NEW S, IsFiniteSet(S), NEW x, x \notin S
  PROVE  /\ IsFiniteSet(S \cup {x})
         /\ Cardinality(S \cup {x}) = Cardinality(S) + 1
BY FS_AddElement

\* A port found for a target has that target.
LEMMA TargetPort ==
  ASSUME NEW chan, NEW tgt
  PROVE  LET r == adapter_get_rport_target(chan, tgt)
         IN  /\ r \in Rport \cup {NULL}
             /\ r # NULL => chan = 0 /\ r.tgt = tgt
<1>1. CASE {r \in Rport : r.tgt = tgt} = {}
  BY <1>1 DEF adapter_get_rport_target
<1>2. CASE {r \in Rport : r.tgt = tgt} # {}
  <2>1. (CHOOSE r \in {r \in Rport : r.tgt = tgt} : TRUE)
          \in {r \in Rport : r.tgt = tgt}
    BY <1>2
  <2> QED
    BY <1>2, <2>1 DEF adapter_get_rport_target
<1> QED
  BY <1>1, <1>2

\* A context a call filled in has room for a number of entries.
LEMMA CtxtRoom ==
  ASSUME WalkTypes, ctxt.call # "none"
  PROVE  /\ ctxt \in MapCtxt \cup SgCtxt
         /\ ctxt.oc_limit \in Nat
         /\ ctxt.call \in {"v1", "v2", "sg"}
         /\ ctxt.oc_ver \in {1, 2}
         /\ ctxt.call # "sg" => ctxt.oc_rport = NULL
         /\ ctxt.call = "sg" => ctxt.oc_rport \in Rport
BY DEF WalkTypes, MapCtxt, SgCtxt, no_ctxt

----------------------------------------------------------------------------
(* The walk starts with no context. *)

LEMMA MapInit == Init => MapInv
<1> SUFFICES ASSUME Init PROVE MapInv
  OBVIOUS
<1>1. stored = 0 /\ ~filling /\ ~walking /\ ctxt.call = "none"
  BY DEF Init, stored, filling, walking, no_ctxt
<1>2. entries \in [0 .. stored - 1 -> Entry]
  BY <1>1 DEF Init
<1>3. WalkTypes
  BY <1>2, FS_EmptySet DEF Init, WalkTypes
<1>4. NamesDiffer /\ CallPhases /\ ReadOnce /\ Counted /\ DoneStatus
  BY <1>1 DEF Init, NamesDiffer, CallPhases, ReadOnce, Counted, DoneStatus
<1>5. StoredDiffer /\ PartsAgree /\ LastName /\ EnoughRoom
  BY <1>1 DEF Init, StoredDiffer, PartsAgree, LastName, EnoughRoom
<1> QED
  BY <1>3, <1>4, <1>5 DEF MapInv

----------------------------------------------------------------------------
(* The kernel *)

\* What the call has stored and counted does not change when the kernel acts.
LEMMA KernelStored ==
  ASSUME MapInv, UNCHANGED <<pc, ctxt, oc_count, oc_sg, entries, seen, status>>
  PROVE  stored' = stored /\ filling' = filling /\ walking' = walking
         /\ Counted' /\ StoredDiffer' /\ DoneStatus'
<1>1. stored' = stored /\ filling' = filling /\ walking' = walking
  BY DEF stored, filling, walking
<1>2. Counted' /\ DoneStatus'
  BY <1>1 DEF MapInv, Counted, DoneStatus
<1>3. StoredDiffer'
  BY <1>1 DEF MapInv, StoredDiffer
<1> QED
  BY <1>1, <1>2, <1>3

\* A LUN that appears was not there when the call began, has a name of its own
\* and has not been read.
LEMMA AddLunPreserves ==
  ASSUME MapInv, NEW l \in Lun, AddLun(l)
  PROVE  MapInv'
<1> USE DEF AddLun
<1>1. /\ stored' = stored /\ filling' = filling /\ walking' = walking
      /\ Counted' /\ StoredDiffer' /\ DoneStatus'
  BY KernelStored
<1>2. PICK name \in {NULL} \cup (SgName \ {sg_of[k] : k \in Lun}) :
        sg_of' = [sg_of EXCEPT ![l] = name]
  OBVIOUS
<1>3. l \notin stayed
  BY DEF MapInv, ReadOnce, scsi_device
<1>4. WalkTypes'
  BY <1>1, <1>2 DEF MapInv, WalkTypes
<1>5. NamesDiffer'
  BY <1>2, NameAssumption DEF MapInv, WalkTypes, NamesDiffer
<1>6. CallPhases'
  BY <1>1 DEF MapInv, CallPhases
<1>7. ReadOnce'
  <2>1. \A k \in Lun : k # l => sg_of'[k] = sg_of[k]
    BY <1>2 DEF MapInv, WalkTypes
  <2>2. stayed' \subseteq scsi_device'
    BY <1>3, <2>1 DEF MapInv, WalkTypes, ReadOnce, scsi_device
  <2> QED
    BY <2>2 DEF MapInv, ReadOnce
<1>8. PartsAgree'
  BY <1>1 DEF MapInv, PartsAgree
<1>9. LastName'
  <2>1. \A k \in stayed : sg_of'[k] = sg_of[k]
    BY <1>2, <1>3 DEF MapInv, WalkTypes
  <2> QED
    BY <1>1, <2>1 DEF MapInv, LastName
<1>10. EnoughRoom'
  BY DEF EnoughRoom
<1> QED
  BY <1>1, <1>4, <1>5, <1>6, <1>7, <1>8, <1>9, <1>10 DEF MapInv

\* A LUN that goes has not stayed, and asks for no room.
LEMMA RemoveLunPreserves ==
  ASSUME MapInv, NEW l \in Lun, RemoveLun(l)
  PROVE  MapInv'
<1> USE DEF RemoveLun
<1>1. /\ stored' = stored /\ filling' = filling /\ walking' = walking
      /\ Counted' /\ StoredDiffer' /\ DoneStatus'
  BY KernelStored
<1>2. \A k \in Lun : sg_of'[k] = IF k = l THEN "absent" ELSE sg_of[k]
  BY DEF MapInv, WalkTypes
<1>4. WalkTypes'
  BY <1>1 DEF MapInv, WalkTypes
<1>5. NamesDiffer'
  BY <1>2, NameAssumption DEF MapInv, WalkTypes, NamesDiffer
<1>6. CallPhases'
  BY <1>1 DEF MapInv, CallPhases
<1>7. ReadOnce'
  BY <1>2 DEF MapInv, WalkTypes, ReadOnce, scsi_device
<1>8. PartsAgree'
  BY <1>1 DEF MapInv, PartsAgree
<1>9. LastName'
  <2>1. \A k \in stayed' : k \in stayed /\ sg_of'[k] = sg_of[k]
    BY <1>2 DEF MapInv, WalkTypes
  <2> QED
    BY <1>1, <2>1 DEF MapInv, LastName
<1>10. EnoughRoom'
  <2> SUFFICES ASSUME enough # NULL
               PROVE  /\ IsFiniteSet(Asked(enough[1])')
                      /\ Cardinality(Asked(enough[1])') <= enough[2]
    BY DEF MapInv, EnoughRoom
  <2>1. scsi_device' \subseteq scsi_device
    BY <1>2 DEF scsi_device
  <2>2. Asked(enough[1])' \subseteq Asked(enough[1])
    BY <2>1 DEF Asked
  <2>3. IsFiniteSet(Asked(enough[1])) /\ Cardinality(Asked(enough[1])) <= enough[2]
        /\ enough[2] \in Nat
    BY DEF MapInv, EnoughRoom
  <2>4. /\ IsFiniteSet(Asked(enough[1])')
        /\ Cardinality(Asked(enough[1])') <= Cardinality(Asked(enough[1]))
    BY <2>2, <2>3, FS_Subset
  <2> QED
    BY <2>3, <2>4, FS_CardinalityType
<1> QED
  BY <1>1, <1>4, <1>5, <1>6, <1>7, <1>8, <1>9, <1>10 DEF MapInv

----------------------------------------------------------------------------
(* The calls *)

\* A call begins with a zeroed context and owes the LUNs it will come across.
LEMMA BeginPreserves ==
  ASSUME MapInv, NEW c \in MapCtxt \cup SgCtxt, BeginWalk(c)
  PROVE  MapInv'
<1> USE DEF BeginWalk
<1>1. /\ ctxt.call = "none" /\ oc_count = 0 /\ oc_sg = NULL
      /\ seen = {} /\ stored = 0 /\ todo = {}
  BY DEF MapInv, CallPhases, stored, filling, walking
<1>2. c.call \in {"v1", "v2", "sg"} /\ c.oc_limit \in Nat
  BY DEF MapCtxt, SgCtxt
<1>3. ~filling' /\ stored' = 0 /\ walking'
  BY <1>1, <1>2 DEF stored, filling, walking
<1>4. todo' \subseteq scsi_device /\ scsi_device \subseteq Lun
  BY DEF scsi_device
<1>5. WalkTypes'
  BY <1>1, <1>3, <1>4 DEF MapInv, WalkTypes
<1>6. NamesDiffer'
  BY DEF MapInv, NamesDiffer
<1>7. CallPhases'
  BY <1>2, <1>3 DEF CallPhases
<1>8. ReadOnce'
  BY <1>1, <1>4 DEF ReadOnce, scsi_device
<1>9. Counted'
  <2>1. {l \in seen' : matches(ctxt, l)'} = {}
    BY <1>1
  <2> QED
    BY <1>1, <1>3, <2>1, FS_EmptySet DEF Counted
<1>10. StoredDiffer' /\ PartsAgree' /\ LastName'
  BY <1>3 DEF StoredDiffer, PartsAgree, LastName
<1>11. DoneStatus'
  BY DEF DoneStatus
<1>12. EnoughRoom'
  <2>1. Asked(enough[1])' = Asked(enough[1])
    BY <1>1, <1>4 DEF Asked, scsi_device
  <2> QED
    BY <2>1 DEF MapInv, EnoughRoom
<1> QED
  BY <1>5, <1>6, <1>7, <1>8, <1>9, <1>10, <1>11, <1>12 DEF MapInv

\* A call that fails at once leaves no context.
LEMMA FailPreserves ==
  ASSUME MapInv, pc = "idle", pc' = "done",
         status' \in {"INVALID_HANDLE", "ILLEGAL_WWN", "ENOENT"},
         UNCHANGED <<sg_of, walkVars, stayed, enough>>
  PROVE  MapInv'
<1> USE DEF walkVars
<1>1. /\ ctxt.call = "none" /\ oc_count = 0 /\ oc_sg = NULL /\ seen = {}
      /\ stored = 0 /\ ~filling /\ ~walking
  BY DEF MapInv, CallPhases, stored, filling, walking
<1>2. stored' = 0 /\ ~filling' /\ ~walking'
  BY <1>1 DEF stored, filling, walking
<1>3. WalkTypes'
  BY <1>1, <1>2 DEF MapInv, WalkTypes
<1>4. NamesDiffer' /\ CallPhases' /\ ReadOnce'
  BY <1>1, <1>2 DEF MapInv, NamesDiffer, CallPhases, ReadOnce, scsi_device
<1>5. Counted' /\ StoredDiffer' /\ PartsAgree' /\ LastName' /\ DoneStatus'
  BY <1>1, <1>2 DEF Counted, StoredDiffer, PartsAgree, LastName, DoneStatus
<1>6. EnoughRoom'
  BY DEF MapInv, EnoughRoom, Asked, scsi_device
<1> QED
  BY <1>3, <1>4, <1>5, <1>6 DEF MapInv

LEMMA CallPreserves ==
  ASSUME MapInv, MappingCall \/ SgNameCall
  PROVE  MapInv'
<1>1. ASSUME NEW limit \in 0 .. MaxLimit, get_binding_target_mapping_v1(limit)
      PROVE  MapInv'
  <2>1. [call |-> "v1", oc_ver |-> 1, oc_limit |-> limit, oc_rport |-> NULL,
         oc_port |-> any, oc_target |-> any, oc_lun |-> any] \in MapCtxt
    BY IntAssumption DEF MapCtxt
  <2> QED
    BY <1>1, <2>1, BeginPreserves DEF get_binding_target_mapping_v1
<1>2. ASSUME NEW limit \in 0 .. MaxLimit, get_binding_target_mapping_v2(limit)
      PROVE  MapInv'
  <2>1. [call |-> "v2", oc_ver |-> 2, oc_limit |-> limit, oc_rport |-> NULL,
         oc_port |-> 0, oc_target |-> any, oc_lun |-> any] \in MapCtxt
    BY IntAssumption DEF MapCtxt
  <2> QED
    BY <1>2, <2>1, BeginPreserves DEF get_binding_target_mapping_v2
<1>3. ASSUME NEW rp \in Rport, NEW fc_lun \in 0 .. 2 * IntRange - 1,
             get_binding_sg_name(rp, fc_lun)
      PROVE  MapInv'
  <2>1. /\ rp.tgt \in 0 .. any - 1 /\ fc_lun \in Nat
        /\ fc_lun % IntRange \in 0 .. any
    BY <1>3, IntAssumption, TargetAssumption DEF get_binding_sg_name, any
  <2>2. [call |-> "sg", oc_ver |-> 1, oc_limit |-> 1, oc_rport |-> rp,
         oc_port |-> 0, oc_target |-> rp.tgt,
         oc_lun |-> fc_lun % IntRange, fc_lun |-> fc_lun] \in SgCtxt
    BY <2>1 DEF SgCtxt
  <2> QED
    BY <1>3, <2>2, BeginPreserves DEF get_binding_sg_name
<1>4. CASE MappingFails
  BY <1>4, FailPreserves DEF MappingFails
<1>5. ASSUME NEW rp \in Rport \cup {NULL}, SgNameFails(rp)
      PROVE  MapInv'
  BY <1>5, FailPreserves DEF SgNameFails
<1> QED
  BY <1>1, <1>2, <1>3, <1>4, <1>5 DEF MappingCall, SgNameCall

----------------------------------------------------------------------------
(* The walk *)

\* Reading an entry moves it from those to come to those read.
LEMMA ReadMoves ==
  ASSUME MapInv, NEW l \in todo, todo' = todo \ {l}, seen' = seen \cup {l},
         UNCHANGED <<sg_of, ctxt, stayed, enough, status>>, pc = "dir",
         pc' \in {"dir", "names"}
  PROVE  /\ todo' \subseteq Lun /\ seen' \subseteq Lun /\ IsFiniteSet(seen')
         /\ l \in Lun /\ l \notin seen
         /\ ctxt.call # "none"
         /\ NamesDiffer' /\ CallPhases' /\ ReadOnce' /\ DoneStatus' /\ EnoughRoom'
<1>1. l \in Lun /\ l \notin seen /\ walking /\ walking' /\ ctxt.call # "none"
  BY DEF MapInv, WalkTypes, ReadOnce, CallPhases, walking
<1>2. todo' \subseteq Lun /\ seen' \subseteq Lun /\ IsFiniteSet(seen')
  BY <1>1, FS_AddElement DEF MapInv, WalkTypes
<1>3. NamesDiffer' /\ CallPhases' /\ DoneStatus'
  BY <1>1 DEF MapInv, NamesDiffer, CallPhases, DoneStatus
<1>4. ReadOnce'
  BY DEF MapInv, ReadOnce, scsi_device
<1>5. EnoughRoom'
  <2>1. todo' \cup seen' = todo \cup seen
    OBVIOUS
  <2>2. Asked(enough[1])' = Asked(enough[1])
    BY <2>1 DEF Asked, scsi_device
  <2> QED
    BY <2>2 DEF MapInv, EnoughRoom
<1> QED
  BY <1>1, <1>2, <1>3, <1>4, <1>5

LEMMA SkipPreserves ==
  ASSUME MapInv, NEW l \in Lun, SkipEntry(l)
  PROVE  MapInv'
<1> USE DEF SkipEntry
<1>1. /\ todo' \subseteq Lun /\ seen' \subseteq Lun /\ IsFiniteSet(seen')
      /\ NamesDiffer' /\ CallPhases' /\ ReadOnce' /\ DoneStatus' /\ EnoughRoom'
  BY ReadMoves
<1>2. stored' = stored /\ filling' = filling
  BY DEF stored, filling
<1>3. WalkTypes'
  BY <1>1, <1>2 DEF MapInv, WalkTypes
<1>4. Counted'
  <2>1. {k \in seen' : matches(ctxt, k)'} = {k \in seen : matches(ctxt, k)}
    OBVIOUS
  <2> QED
    BY <1>2, <2>1 DEF MapInv, Counted
<1>5. StoredDiffer' /\ PartsAgree' /\ LastName'
  BY <1>2 DEF MapInv, StoredDiffer, PartsAgree, LastName
<1> QED
  BY <1>1, <1>3, <1>4, <1>5 DEF MapInv

LEMMA OverflowPreserves ==
  ASSUME MapInv, NEW l \in Lun, OverflowEntry(l)
  PROVE  MapInv'
<1> USE DEF OverflowEntry, CountEntry
<1>1. /\ todo' \subseteq Lun /\ seen' \subseteq Lun /\ IsFiniteSet(seen')
      /\ l \notin seen /\ ctxt.call # "none"
      /\ NamesDiffer' /\ CallPhases' /\ ReadOnce' /\ DoneStatus' /\ EnoughRoom'
  BY ReadMoves
<1>2. ctxt.oc_limit \in Nat /\ oc_count \in Nat
  BY <1>1, CtxtRoom DEF MapInv, WalkTypes
<1>3. stored' = stored /\ ~filling' /\ ~filling
  BY <1>1, <1>2 DEF stored, filling, room
<1>4. WalkTypes'
  BY <1>1, <1>2, <1>3 DEF MapInv, WalkTypes
<1>5. Counted'
  <2> DEFINE hits == {k \in seen : matches(ctxt, k)}
  <2>1. IsFiniteSet(hits) /\ l \notin hits
    BY <1>1, FS_Subset DEF MapInv, WalkTypes
  <2>2. {k \in seen' : matches(ctxt, k)'} = hits \cup {l}
    OBVIOUS
  <2>3. Cardinality(hits) = oc_count
    BY <1>1, <1>3 DEF MapInv, Counted
  <2> QED
    BY <1>3, <2>1, <2>2, <2>3, OneMore DEF Counted
<1>6. StoredDiffer' /\ PartsAgree' /\ LastName'
  BY <1>3 DEF MapInv, StoredDiffer, PartsAgree, LastName
<1> QED
  BY <1>1, <1>4, <1>5, <1>6 DEF MapInv

LEMMA StorePreserves ==
  ASSUME MapInv, NEW l \in Lun, StoreEntry(l)
  PROVE  MapInv'
<1> USE DEF StoreEntry, cleared_sg
<1>1. /\ todo' \subseteq Lun /\ seen' \subseteq Lun /\ IsFiniteSet(seen')
      /\ l \notin seen /\ ctxt.call # "none"
      /\ NamesDiffer' /\ CallPhases' /\ ReadOnce' /\ DoneStatus' /\ EnoughRoom'
  BY ReadMoves
<1>2. /\ ctxt.oc_limit \in Nat /\ oc_count \in Nat /\ oc_count < ctxt.oc_limit
      /\ ctxt.call # "sg" => ctxt.oc_rport = NULL
      /\ ctxt.call = "sg" => ctxt.oc_rport \in Rport
  BY <1>1, CtxtRoom DEF MapInv, WalkTypes, room
<1>3. stored = oc_count /\ stored' = oc_count + 1 /\ filling' /\ ~filling
  BY <1>2 DEF stored, filling
<1>4. entry_of(l) \in Entry /\ entry_of(l).lun = l /\ entry_of(l).luid = NULL
  BY <1>1, <1>2, TargetPort DEF entry_of, Entry
<1>5. DOMAIN entries = 0 .. oc_count - 1
  BY <1>3 DEF MapInv, WalkTypes
<1>6. /\ entries' \in [0 .. stored' - 1 -> Entry]
      /\ entries'[oc_count] = entry_of(l)
      /\ \A i \in 0 .. oc_count - 1 : entries'[i] = entries[i]
  BY <1>2, <1>3, <1>4, <1>5 DEF MapInv, WalkTypes
<1>7. WalkTypes'
  BY <1>1, <1>2, <1>6 DEF MapInv, WalkTypes
<1>8. Counted'
  <2> DEFINE hits == {k \in seen : matches(ctxt, k)}
  <2>1. IsFiniteSet(hits) /\ l \notin hits
    BY <1>1, FS_Subset DEF MapInv, WalkTypes
  <2>2. {k \in seen' : matches(ctxt, k)'} = hits \cup {l}
    OBVIOUS
  <2>3. Cardinality(hits) = oc_count
    BY <1>1, <1>3 DEF MapInv, Counted
  <2> QED
    BY <1>2, <1>3, <2>1, <2>2, <2>3, OneMore DEF Counted
<1>9. StoredDiffer'
  <2>1. \A i \in 0 .. oc_count : i = oc_count \/ i \in 0 .. oc_count - 1
    BY <1>2
  <2>2. \A i \in 0 .. oc_count - 1 :
          entries[i].lun \in seen /\ matches(ctxt, entries[i].lun)
    BY <1>3 DEF MapInv, StoredDiffer
  <2>3. \A i, j \in 0 .. oc_count - 1 : entries[i].lun = entries[j].lun => i = j
    BY <1>3 DEF MapInv, StoredDiffer
  <2>4. stored' - 1 = oc_count
    BY <1>2, <1>3
  <2> QED
    BY <1>1, <1>4, <1>6, <2>1, <2>2, <2>3, <2>4 DEF StoredDiffer
<1>10. PartsAgree'
  <2> SUFFICES ASSUME ctxt.call \in {"v1", "v2"}, NEW i \in 0 .. oc_count
               PROVE  LET e == entries'[i]
                      IN  /\ e.rport # NULL =>
                               e.lun.chan = 0 /\ e.rport.tgt = e.lun.tgt
                          /\ e.lun \in stayed => e.luid \in {NULL, e.lun}
    BY <1>2, <1>3 DEF PartsAgree
  <2>1. CASE i = oc_count
    <3>1. entry_of(l).rport = adapter_get_rport_target(l.chan, l.tgt)
      BY <1>2 DEF entry_of
    <3> QED
      BY <1>4, <1>6, <2>1, <3>1, TargetPort
  <2>2. CASE i \in 0 .. oc_count - 1
    BY <1>3, <1>6, <2>2 DEF MapInv, PartsAgree
  <2> QED
    BY <1>2, <2>1, <2>2
<1>11. LastName'
  BY DEF LastName
<1> QED
  BY <1>1, <1>7, <1>8, <1>9, <1>10, <1>11 DEF MapInv

\* The last entry is complete: it is counted, and nothing else of the array
\* changes its place.
LEMMA FillEnds ==
  ASSUME MapInv, filling, pc' = "dir", oc_count' = oc_count + 1,
         UNCHANGED ctxt
  PROVE  /\ stored' = stored /\ stored = oc_count + 1 /\ ~filling'
         /\ oc_count \in Nat /\ oc_count < ctxt.oc_limit /\ ctxt.call # "none"
<1>1. ctxt.call # "none" /\ oc_count \in Nat /\ oc_count < ctxt.oc_limit
  BY DEF MapInv, WalkTypes, CallPhases, walking, filling, Counted
<1>2. ctxt.oc_limit \in Nat
  BY <1>1, CtxtRoom DEF MapInv
<1> QED
  BY <1>1, <1>2 DEF stored, filling

LEMMA FindNamesPreserves ==
  ASSUME MapInv, FindNames
  PROVE  MapInv'
<1> USE DEF FindNames
<1> DEFINE cur == entries[oc_count].lun
<1>1. filling /\ stored = oc_count + 1 /\ walking /\ walking'
  BY DEF filling, stored, walking
<1>2. /\ oc_count \in Nat /\ oc_count < ctxt.oc_limit /\ ctxt.call # "none"
      /\ oc_sg = NULL
  BY <1>1 DEF MapInv, WalkTypes, CallPhases, Counted, LastName
<1>3. cur \in Lun
  BY <1>1, <1>2 DEF MapInv, WalkTypes, Entry
<1>4. oc_sg' \in {NULL} \cup ({sg_of[cur]} \cap SgName)
  BY <1>2
<1>5. \/ pc' = "luid" /\ oc_sg' # NULL /\ UNCHANGED oc_count
      \/ pc' = "dir" /\ oc_count' = oc_count + 1
  BY DEF CountEntry
<1>6. stored' = stored
  <2>1. CASE pc' = "luid" /\ UNCHANGED oc_count
    BY <2>1, <1>1 DEF stored, filling
  <2>2. CASE pc' = "dir" /\ oc_count' = oc_count + 1
    BY <2>2, <1>1, FillEnds
  <2> QED
    BY <1>5, <2>1, <2>2
<1>7. WalkTypes'
  BY <1>2, <1>4, <1>5, <1>6 DEF MapInv, WalkTypes
<1>8. NamesDiffer' /\ CallPhases' /\ ReadOnce' /\ DoneStatus'
  BY <1>1, <1>2, <1>5
     DEF MapInv, NamesDiffer, CallPhases, ReadOnce, DoneStatus, scsi_device
<1>9. Counted'
  BY <1>1, <1>2, <1>5 DEF MapInv, Counted, filling
<1>10. StoredDiffer' /\ PartsAgree'
  BY <1>6 DEF MapInv, StoredDiffer, PartsAgree
<1>11. LastName'
  BY <1>1, <1>2, <1>4, <1>5, <1>6 DEF LastName
<1>12. EnoughRoom'
  BY DEF MapInv, EnoughRoom, Asked, scsi_device
<1> QED
  BY <1>7, <1>8, <1>9, <1>10, <1>11, <1>12 DEF MapInv

\* The LUN that answers to the name has it now; the entry's LUN has had it
\* since the name was read, if it stayed, and a name belongs to one LUN.
LEMMA ReadDevIdPreserves ==
  ASSUME MapInv, ReadDevId
  PROVE  MapInv'
<1> USE DEF ReadDevId, CountEntry
<1> DEFINE cur == entries[oc_count].lun
<1>1. filling /\ walking /\ walking'
  BY DEF filling, walking
<1>2. /\ stored' = stored /\ stored = oc_count + 1 /\ ~filling'
      /\ oc_count \in Nat /\ oc_count < ctxt.oc_limit /\ ctxt.call # "none"
  BY <1>1, FillEnds
<1>3. PICK luid \in {NULL} \cup {l \in Lun : sg_of[l] = oc_sg} :
        entries' = [entries EXCEPT ![oc_count].luid = luid]
  OBVIOUS
<1>4. oc_count \in 0 .. stored - 1 /\ entries[oc_count] \in Entry /\ cur \in Lun
  BY <1>2 DEF MapInv, WalkTypes, Entry
<1>5. /\ entries' \in [0 .. stored - 1 -> Entry]
      /\ entries'[oc_count] = [entries[oc_count] EXCEPT !.luid = luid]
      /\ \A i \in 0 .. stored - 1 : i # oc_count => entries'[i] = entries[i]
  BY <1>3, <1>4 DEF MapInv, WalkTypes, Entry
<1>6. /\ entries'[oc_count].luid = luid
      /\ \A i \in 0 .. stored - 1 : /\ entries'[i].lun = entries[i].lun
                                    /\ entries'[i].rport = entries[i].rport
  BY <1>4, <1>5 DEF Entry
<1>7. oc_sg # NULL /\ oc_sg \in SgName
  BY DEF MapInv, WalkTypes, LastName
<1>8. cur \in stayed => luid \in {NULL, cur}
  <2> SUFFICES ASSUME cur \in stayed, luid # NULL PROVE luid = cur
    OBVIOUS
  <2>1. oc_count = stored - 1
    BY <1>2
  <2>2. sg_of[cur] = oc_sg
    BY <1>2, <1>7, <2>1 DEF MapInv, LastName
  <2> QED
    BY <1>3, <1>4, <1>7, <2>2 DEF MapInv, NamesDiffer
<1>9. WalkTypes'
  BY <1>2, <1>5 DEF MapInv, WalkTypes
<1>10. NamesDiffer' /\ CallPhases' /\ ReadOnce' /\ DoneStatus'
  BY <1>1, <1>2
     DEF MapInv, NamesDiffer, CallPhases, ReadOnce, DoneStatus, scsi_device
<1>11. Counted'
  BY <1>1, <1>2 DEF MapInv, Counted
<1>12. StoredDiffer'
  BY <1>2, <1>6 DEF MapInv, StoredDiffer
<1>13. PartsAgree'
  BY <1>2, <1>4, <1>5, <1>6, <1>8 DEF MapInv, PartsAgree
<1>14. LastName'
  BY <1>2, <1>4, <1>6 DEF MapInv, LastName
<1>15. EnoughRoom'
  BY DEF MapInv, EnoughRoom, Asked, scsi_device
<1> QED
  BY <1>9, <1>10, <1>11, <1>12, <1>13, <1>14, <1>15 DEF MapInv

LEMMA EndPreserves ==
  ASSUME MapInv, EndWalk
  PROVE  MapInv'
<1> USE DEF EndWalk, walkVars
<1>1. ~filling /\ ~filling' /\ walking /\ ~walking' /\ stored' = stored
  BY DEF filling, walking, stored
<1>2. ctxt.call \in {"v1", "v2", "sg"}
  BY <1>1, CtxtRoom DEF MapInv, CallPhases
<1>3. WalkTypes'
  BY <1>1 DEF MapInv, WalkTypes
<1>4. NamesDiffer' /\ CallPhases' /\ ReadOnce'
  BY <1>1, <1>2 DEF MapInv, NamesDiffer, CallPhases, ReadOnce, scsi_device
<1>5. Counted' /\ StoredDiffer' /\ PartsAgree' /\ LastName'
  BY <1>1 DEF MapInv, Counted, StoredDiffer, PartsAgree, LastName
<1>6. DoneStatus'
  BY <1>2 DEF DoneStatus, more_data
<1>7. EnoughRoom'
  BY DEF MapInv, EnoughRoom, Asked, scsi_device
<1> QED
  BY <1>3, <1>4, <1>5, <1>6, <1>7 DEF MapInv

\* The LUNs there are were all read and counted, or the caller knows nothing.
LEMMA ReturnPreserves ==
  ASSUME MapInv, Return
  PROVE  MapInv'
<1> USE DEF Return
<1>1. /\ ~filling' /\ ~walking' /\ ~walking /\ ~filling /\ stored' = 0
      /\ ctxt'.call = "none" /\ todo = {}
  BY DEF filling, walking, stored, no_ctxt, MapInv, CallPhases
<1>2. entries' \in [0 .. stored' - 1 -> Entry]
  BY <1>1
<1>3. WalkTypes'
  BY <1>2, FS_EmptySet DEF MapInv, WalkTypes
<1>4. NamesDiffer' /\ CallPhases' /\ ReadOnce' /\ DoneStatus'
  BY <1>1 DEF MapInv, NamesDiffer, CallPhases, ReadOnce, DoneStatus
<1>5. Counted' /\ StoredDiffer' /\ PartsAgree' /\ LastName'
  BY <1>1 DEF Counted, StoredDiffer, PartsAgree, LastName
<1>6. EnoughRoom'
  <2>1. CASE status # "MORE_DATA"
    <3>1. Asked(enough[1])' \subseteq Asked(enough[1])
      BY <1>1, <2>1 DEF Asked, scsi_device
    <3> SUFFICES ASSUME enough # NULL
                 PROVE  /\ IsFiniteSet(Asked(enough[1])')
                        /\ Cardinality(Asked(enough[1])') <= enough[2]
      BY <2>1 DEF MapInv, EnoughRoom
    <3>2. IsFiniteSet(Asked(enough[1])) /\ Cardinality(Asked(enough[1])) <= enough[2]
          /\ enough[2] \in Nat
      BY DEF MapInv, EnoughRoom
    <3>3. /\ IsFiniteSet(Asked(enough[1])')
          /\ Cardinality(Asked(enough[1])') <= Cardinality(Asked(enough[1]))
      BY <3>1, <3>2, FS_Subset
    <3> QED
      BY <3>2, <3>3, FS_CardinalityType
  <2>2. CASE status = "MORE_DATA" /\ scsi_device \subseteq seen
    <3> DEFINE hits == {l \in seen : matches(ctxt, l)}
    <3>1. ctxt.call \in {"v1", "v2"}
      BY <2>2, CtxtRoom DEF MapInv, DoneStatus
    <3>2. enough' = <<ctxt.call, oc_count>>
      BY <2>2
    <3>3. enough'[1] = ctxt.call /\ enough'[2] = oc_count
      BY <3>2
    <3>4. IsFiniteSet(hits) /\ Cardinality(hits) = oc_count /\ oc_count \in Nat
      BY <1>1, <3>1, FS_Subset DEF MapInv, WalkTypes, Counted
    <3>5. Asked(enough[1])' \subseteq hits
      <4> SUFFICES ASSUME NEW l \in scsi_device, l.hba = ad_kern_index,
                          ctxt.call = "v2" => l.chan = 0
                   PROVE  l \in hits
        BY <1>1, <3>3 DEF Asked, scsi_device
      <4>1. \/ ctxt.oc_port = any
            \/ ctxt.call = "v2" /\ ctxt.oc_port = 0
        BY <3>1 DEF MapInv, WalkTypes, MapCtxt, SgCtxt, no_ctxt
      <4>2. ctxt.oc_target = any /\ ctxt.oc_lun = any
        BY <3>1 DEF MapInv, WalkTypes, MapCtxt, SgCtxt, no_ctxt
      <4> QED
        BY <2>2, <4>1, <4>2 DEF matches
    <3>6. IsFiniteSet(Asked(enough[1])') /\ Cardinality(Asked(enough[1])') <= oc_count
      BY <3>4, <3>5, FS_Subset
    <3> QED
      BY <3>1, <3>3, <3>4, <3>6 DEF EnoughRoom
  <2>3. CASE status = "MORE_DATA" /\ ~(scsi_device \subseteq seen)
    BY <2>3 DEF EnoughRoom
  <2> QED
    BY <2>1, <2>2, <2>3
<1> QED
  BY <1>3, <1>4, <1>5, <1>6 DEF MapInv

LEMMA MapNext ==
  ASSUME MapInv, [Next]_vars
  PROVE  MapInv'
<1>1. CASE UNCHANGED vars
  BY <1>1 DEF vars, walkVars, MapInv, WalkTypes, NamesDiffer, CallPhases,
              ReadOnce, Counted, StoredDiffer, PartsAgree, LastName, DoneStatus,
              EnoughRoom, stored, filling, walking, Asked, scsi_device
<1>2. CASE Kernel
  BY <1>2, AddLunPreserves, RemoveLunPreserves DEF Kernel
<1>3. CASE MappingCall \/ SgNameCall
  BY <1>3, CallPreserves
<1>4. CASE ReadEntry
  BY <1>4, SkipPreserves, OverflowPreserves, StorePreserves DEF ReadEntry
<1>5. CASE FindNames \/ ReadDevId
  BY <1>5, FindNamesPreserves, ReadDevIdPreserves
<1>6. CASE EndWalk \/ Return
  BY <1>6, EndPreserves, ReturnPreserves
<1> QED
  BY <1>1, <1>2, <1>3, <1>4, <1>5, <1>6 DEF Next, Step

\* The invariant holds in every behaviour of the walk, whatever LUNs do.
THEOREM MapInvariance == Spec => []MapInv
<1>1. MapInv /\ [Next]_vars => MapInv'
  BY MapNext
<1> QED
  BY MapInit, <1>1, PTL DEF Spec

----------------------------------------------------------------------------
(* What the invariant says of a finished call *)

\* The LUNs stored are as many as the filled places.
LEMMA StoredCount ==
  ASSUME MapInv
  PROVE  LET got == {entries[i].lun : i \in DOMAIN entries}
         IN  IsFiniteSet(got) /\ Cardinality(got) = stored /\ stored \in Nat
             /\ Cardinality(DOMAIN entries) = stored
<1> DEFINE got == {entries[i].lun : i \in DOMAIN entries}
           f   == [i \in 0 .. stored - 1 |-> entries[i].lun]
<1>1. DOMAIN entries = 0 .. stored - 1
  BY DEF MapInv, WalkTypes
<1>2. stored \in Nat
  <2>1. oc_count \in Nat /\ (ctxt.call # "none" => ctxt.oc_limit \in Nat)
    BY CtxtRoom DEF MapInv, WalkTypes
  <2> QED
    BY <2>1 DEF stored
<1>3. IsFiniteSet(0 .. stored - 1) /\ Cardinality(0 .. stored - 1) = stored
  BY <1>2, FS_Interval
<1>4. f \in Bijection(0 .. stored - 1, got)
  <2>1. \A i, j \in 0 .. stored - 1 : f[i] = f[j] => i = j
    BY DEF MapInv, StoredDiffer
  <2>2. f \in [0 .. stored - 1 -> got]
    BY <1>1
  <2>3. \A x \in got : \E i \in 0 .. stored - 1 : f[i] = x
    BY <1>1
  <2> QED
    BY <2>1, <2>2, <2>3
       DEF Bijection, Injection, Surjection, IsInjective
<1>5. IsFiniteSet(got) /\ Cardinality(got) = Cardinality(0 .. stored - 1)
  BY <1>3, <1>4, FS_Bijection DEF ExistsBijection
<1> QED
  BY <1>1, <1>2, <1>3, <1>5

\* A finished walk has read every LUN that stayed, and counts the matching ones.
LEMMA WalkCounts ==
  ASSUME MapInv, pc = "done", ctxt.call # "none"
  PROVE  LET hits == {l \in seen : matches(ctxt, l)}
         IN  /\ IsFiniteSet(hits) /\ Cardinality(hits) = oc_count
             /\ stayed \subseteq seen
             /\ {entries[i].lun : i \in DOMAIN entries} \subseteq hits
<1>1. ~filling /\ ~walking
  BY DEF filling, walking
<1>2. IsFiniteSet({l \in seen : matches(ctxt, l)})
  BY FS_Subset DEF MapInv, WalkTypes
<1>3. Cardinality({l \in seen : matches(ctxt, l)}) = oc_count
  BY <1>1 DEF MapInv, Counted
<1>4. stayed \subseteq seen
  BY <1>1 DEF MapInv, CallPhases, ReadOnce
<1>5. {entries[i].lun : i \in DOMAIN entries} \subseteq {l \in seen : matches(ctxt, l)}
  <2>1. DOMAIN entries = 0 .. stored - 1
    BY DEF MapInv, WalkTypes
  <2> QED
    BY <2>1 DEF MapInv, StoredDiffer
<1> QED
  BY <1>2, <1>3, <1>4, <1>5

\* A finished mapping call (get_binding_target_mapping_v1 and v2) has filled the
\* array from its start with different LUNs of the adapter and never past its
\* end, NumberOfEntries counts every LUN that stayed, and "OK" means that all of
\* them were stored, for every number of LUNs and every room.
THEOREM MappingIsComplete == Spec => []MappingComplete
<1>1. ASSUME MapInv PROVE MappingComplete
  <2> SUFFICES ASSUME mapped PROVE MappingComplete
    BY DEF MappingComplete
  <2> DEFINE owed == {l \in stayed : matches(ctxt, l)}
             got  == {entries[i].lun : i \in DOMAIN entries}
             hits == {l \in seen : matches(ctxt, l)}
  <2>1. pc = "done" /\ ctxt.call \in {"v1", "v2"} /\ ~filling
    BY DEF mapped, filling
  <2>2. /\ IsFiniteSet(hits) /\ Cardinality(hits) = oc_count
        /\ owed \subseteq hits /\ got \subseteq hits
    BY <1>1, <2>1, WalkCounts
  <2>3. /\ IsFiniteSet(got) /\ Cardinality(got) = stored /\ stored \in Nat
        /\ Cardinality(DOMAIN entries) = stored
    BY <1>1, StoredCount
  <2>4. oc_count \in Nat /\ ctxt.oc_limit \in Nat
    BY <1>1, <2>1, CtxtRoom DEF MapInv, WalkTypes
  <2>5. stored = IF ctxt.oc_limit < oc_count THEN ctxt.oc_limit ELSE oc_count
    BY <2>1 DEF stored
  <2>6. status = IF oc_count > ctxt.oc_limit THEN "MORE_DATA" ELSE "OK"
    BY <1>1, <2>1 DEF MapInv, DoneStatus
  <2>7. \E n \in 0 .. ctxt.oc_limit : DOMAIN entries = 0 .. n - 1
    <3>1. stored \in 0 .. ctxt.oc_limit /\ DOMAIN entries = 0 .. stored - 1
      BY <1>1, <2>3, <2>4, <2>5 DEF MapInv, WalkTypes
    <3> QED
      BY <3>1
  <2>8. \A l \in got : l.hba = ad_kern_index
    BY <2>2 DEF matches
  <2>9. Cardinality(owed \cup got) <= oc_count
    <3>1. owed \cup got \subseteq hits
      BY <2>2
    <3> QED
      BY <2>2, <3>1, FS_Subset
  <2>10. status = "OK" <=> Cardinality(got) = oc_count
    BY <2>3, <2>4, <2>5, <2>6
  <2>11. status = "OK" => owed \subseteq got
    <3> SUFFICES ASSUME Cardinality(got) = Cardinality(hits) PROVE got = hits
      BY <2>2, <2>10
    <3> QED
      BY <2>2, FS_Subset
  <2> QED
    BY <2>3, <2>7, <2>8, <2>9, <2>10, <2>11 DEF MappingComplete
<1> QED
  BY <1>1, MapInvariance, PTL

\* A caller told HBA_STATUS_ERROR_MORE_DATA that asks again with the room it was
\* told is answered "OK", unless a LUN appeared since.
THEOREM RetryAlwaysFits == Spec => []RetryFits
<1>1. ASSUME MapInv PROVE RetryFits
  <2> SUFFICES ASSUME mapped, enough # NULL, enough[1] = ctxt.call,
                      enough[2] <= ctxt.oc_limit
               PROVE  status = "OK"
    BY DEF RetryFits
  <2> DEFINE hits == {l \in seen : matches(ctxt, l)}
  <2>1. pc = "done" /\ ctxt.call \in {"v1", "v2"}
    BY DEF mapped
  <2>2. IsFiniteSet(hits) /\ Cardinality(hits) = oc_count
    BY <1>1, <2>1, WalkCounts
  <2>3. hits \subseteq Asked(enough[1])
    <3> SUFFICES ASSUME NEW l \in hits
                 PROVE  l.hba = ad_kern_index /\ (ctxt.call = "v2" => l.chan = 0)
      BY DEF Asked
    <3>1. l \in Lun /\ any > 0
      BY <1>1, LunAssumption, IntAssumption DEF MapInv, WalkTypes, any
    <3>2. ctxt.call = "v2" => ctxt.oc_port = 0
      BY <1>1, <2>1 DEF MapInv, WalkTypes, MapCtxt, SgCtxt, no_ctxt
    <3> QED
      BY <3>1, <3>2 DEF matches
  <2>4. /\ IsFiniteSet(Asked(enough[1])) /\ enough[2] \in Nat
        /\ Cardinality(Asked(enough[1])) <= enough[2]
    BY <1>1 DEF MapInv, EnoughRoom
  <2>5. oc_count <= Cardinality(Asked(enough[1]))
    BY <2>2, <2>3, <2>4, FS_Subset
  <2>6. oc_count \in Nat /\ ctxt.oc_limit \in Nat
    BY <1>1, <2>1, CtxtRoom DEF MapInv, WalkTypes
  <2>7. Cardinality(Asked(enough[1])) \in Nat
    BY <2>4, FS_CardinalityType
  <2>8. status = IF oc_count > ctxt.oc_limit THEN "MORE_DATA" ELSE "OK"
    BY <1>1, <2>1 DEF MapInv, DoneStatus
  <2> QED
    BY <2>4, <2>5, <2>6, <2>7, <2>8
<1> QED
  BY <1>1, MapInvariance, PTL

\* The remote port of an entry is the one its LUN was reached through, and its
\* identifier the LUN's own if the LUN stayed, although the entry is put together
\* in three steps between which generic device names change owners.
THEOREM EntriesConsistent == Spec => []EntryConsistent
<1>1. ASSUME MapInv PROVE EntryConsistent
  <2>1. DOMAIN entries = 0 .. stored - 1
    BY <1>1 DEF MapInv, WalkTypes
  <2> QED
    BY <1>1, <2>1 DEF MapInv, PartsAgree, EntryConsistent, mapped
<1> QED
  BY <1>1, MapInvariance, PTL

\* What the invariant says of a finished lookup of a name.
LEMMA SgNameFromInv ==
  ASSUME MapInv
  PROVE  SgNameOfLun
<1> SUFFICES ASSUME named, ctxt.fc_lun < any
             PROVE  /\ entries[0].lun = requested
                    /\ requested \in stayed => oc_sg \in {NULL, sg_of[requested]}
  BY DEF SgNameOfLun
<1>1. /\ pc = "done" /\ ctxt.call = "sg" /\ status = "OK" /\ ~filling
  BY DEF named, filling
<1>2. oc_count = 1 /\ ctxt \in SgCtxt
  BY <1>1 DEF MapInv, DoneStatus, WalkTypes, MapCtxt, SgCtxt, no_ctxt
<1>3. stored = 1
  BY <1>1, <1>2 DEF stored, SgCtxt
<1>4. entries[0].lun \in Lun /\ matches(ctxt, entries[0].lun)
  BY <1>3 DEF MapInv, WalkTypes, StoredDiffer, Entry
<1>5. any \in Nat /\ ctxt.fc_lun \in Nat /\ ctxt.oc_lun = ctxt.fc_lun
  BY <1>2, IntAssumption DEF SgCtxt, any
<1>6. /\ ctxt.oc_port = 0 /\ ctxt.oc_target \in 0 .. any - 1
      /\ any > 0 /\ ctxt.oc_lun # any
  BY <1>2, <1>5 DEF SgCtxt
<1>7. /\ entries[0].lun.hba = ad_kern_index /\ entries[0].lun.chan = 0
      /\ entries[0].lun.tgt = ctxt.oc_target
      /\ entries[0].lun.lun = ctxt.fc_lun
  BY <1>4, <1>5, <1>6 DEF matches
<1>8. entries[0].lun = requested
  BY <1>4, <1>7, LunAssumption DEF requested
<1>9. entries[0].lun \in stayed => oc_sg \in {NULL, sg_of[entries[0].lun]}
  BY <1>3 DEF MapInv, LastName
<1> QED
  BY <1>8, <1>9

\* get_binding_sg_name finds the LUN that was asked for, if its number fits an
\* int and is not -1, and the name is that LUN's own if the LUN stayed.
THEOREM SgNameIsOfLun == Spec => []SgNameOfLun
<1>1. MapInv => SgNameOfLun
  BY SgNameFromInv
<1> QED
  BY <1>1, MapInvariance, PTL

----------------------------------------------------------------------------
(* The SCSI calls *)

\* Each step of a SCSI call is a step of the walk or leaves the walk alone.
LEMMA CmdStepIsWalkStep ==
  ASSUME [CmdNext]_allVars
  PROVE  [Next]_vars
<1>1. CASE UNCHANGED allVars
  BY <1>1 DEF allVars
<1>2. CASE KernelStep
  BY <1>2 DEF KernelStep, Next
<1>3. ASSUME NEW op \in Operation, NEW ver \in {1, 2}, NoPort(op, ver)
      PROVE  UNCHANGED vars
  BY <1>3 DEF NoPort
<1>4. ASSUME NEW op \in Operation, NEW ver \in {1, 2}, Begin(op, ver)
      PROVE  SgNameCall
  BY <1>4 DEF Begin, SgNameCall
<1>5. CASE WalkStep
  BY <1>5 DEF WalkStep, Next
<1>6. CASE NameFails \/ Open \/ OpenFails \/ Execute \/ ExecuteFails
  BY <1>6 DEF NameFails, Open, OpenFails, Execute, ExecuteFails
<1>7. CASE Finish
  BY <1>7 DEF Finish, Next
<1> QED
  BY <1>1, <1>2, <1>3, <1>4, <1>5, <1>6, <1>7 DEF CmdNext, CallStep, Next

\* The SCSI calls use the walk as it is specified: what is proved of every walk
\* (get_binding_sg_name) holds of the walks that scsi.c starts.
THEOREM CmdImplementsWalk == CmdSpec => Spec
<1>1. CmdInit => Init
  BY DEF CmdInit
<1>2. [CmdNext]_allVars => [Next]_vars
  BY CmdStepIsWalkStep
<1> QED
  BY <1>1, <1>2, PTL DEF CmdSpec, Spec

CmdTypes ==
  /\ cpc \in {"none", "naming", "open", "replied"}
  /\ cpc # "none" => cmd \in [op : Operation, ver : {1, 2}]
  /\ fd \in Lun \cup {NULL}
  /\ left \in BOOLEAN

\* The walk is the first part of a call, and only the lookup of a name.
CmdPhases ==
  /\ ctxt.call \in {"none", "sg"}
  /\ pc # "luid"
  /\ walking => cpc = "naming"
  /\ cpc = "none" => pc = "idle"
  /\ cpc = "naming" => pc # "idle"
  /\ cpc = "open" => ctxt.call = "sg" /\ ~walking
  /\ cpc \in {"none", "naming"} => fd = NULL
  /\ cpc # "replied" => answer = NULL /\ stat # "CHECK"

\* The name read from the LUN asked for is still its name unless it left, even
\* if the LUN appeared while the directory was being read.
NameHeld ==
  ctxt.call = "sg" /\ ~left /\ stored > 0 /\ entries[0].lun = requested =>
    oc_sg \in {NULL, sg_of[requested]}

\* The descriptor leads to the LUN asked for unless it left.
FdHeld ==
  cpc = "open" /\ fd # NULL /\ ctxt.fc_lun < any => fd = requested \/ left

\* The LUN that answered is the one asked for unless it left.
AnswerHeld ==
  cpc = "replied" /\ answer # NULL =>
    ctxt.call = "sg" /\ (ctxt.fc_lun < any => answer.lun = requested \/ left)

CmdInv ==
  /\ MapInv
  /\ CmdTypes
  /\ CmdPhases
  /\ NameHeld
  /\ FdHeld
  /\ AnswerHeld
  /\ CheckConditionIsReal

LEMMA CmdInitInv == CmdInit => CmdInv
<1> SUFFICES ASSUME CmdInit PROVE CmdInv
  OBVIOUS
<1> USE DEF CmdInit
<1>1. MapInv
  BY MapInit
<1>2. CmdTypes /\ AnswerHeld /\ FdHeld /\ CheckConditionIsReal
  BY DEF CmdTypes, AnswerHeld, FdHeld, CheckConditionIsReal
<1>3. CmdPhases /\ NameHeld
  BY DEF Init, CmdPhases, NameHeld, no_ctxt, walking
<1> QED
  BY <1>1, <1>2, <1>3 DEF CmdInv

\* The array of a lookup has one place.
LEMMA OnePlace ==
  ASSUME MapInv, ctxt.call = "sg"
  PROVE  stored \in {0, 1} /\ ctxt \in SgCtxt /\ (filling => oc_count = 0)
<1>1. ctxt \in SgCtxt /\ oc_count \in Nat
  BY DEF MapInv, WalkTypes, MapCtxt, SgCtxt, no_ctxt
<1>2. ctxt.oc_limit = 1
  BY <1>1 DEF SgCtxt
<1>3. filling => oc_count = 0
  BY <1>1, <1>2 DEF MapInv, Counted
<1> QED
  BY <1>1, <1>2, <1>3 DEF stored

\* The kernel takes a LUN away from a call in progress only by removing it.
LEMMA KernelStepPreserves ==
  ASSUME CmdInv, MapInv', KernelStep
  PROVE  CmdInv'
<1> USE DEF KernelStep
<1>1. PICK l \in Lun : AddLun(l) \/ RemoveLun(l)
  BY DEF Kernel
<1>2. UNCHANGED <<pc, ctxt, oc_count, oc_sg, entries, seen, status>>
  BY <1>1 DEF AddLun, RemoveLun
<1>3. /\ stored' = stored /\ walking' = walking /\ requested' = requested
      /\ scsi_device = {k \in Lun : sg_of[k] # "absent"}
  BY <1>2, KernelStored DEF CmdInv, requested, scsi_device
<1>4. CmdTypes'
  BY <1>2 DEF CmdInv, CmdTypes
<1>5. CmdPhases'
  BY <1>2, <1>3 DEF CmdInv, CmdPhases
<1>6. NameHeld'
  <2> SUFFICES ASSUME ctxt.call = "sg", ~left', stored > 0,
                      entries[0].lun = requested
               PROVE  oc_sg \in {NULL, sg_of'[requested]}
    BY <1>2, <1>3 DEF NameHeld
  <2>1. oc_sg \in {NULL, sg_of[requested]} /\ ~left
    BY DEF CmdInv, NameHeld, CmdTypes
  <2>2. requested \in Lun /\ (oc_sg # "absent" \/ oc_sg = NULL)
    BY OnePlace, NameAssumption DEF CmdInv, MapInv, WalkTypes, Entry
  <2>3. CASE sg_of[requested] = "absent"
    BY <2>1, <2>2, <2>3
  <2>4. CASE sg_of[requested] # "absent" /\ requested \in Lun
    <3>1. sg_of'[requested] # "absent"
      BY <1>3, <2>1, <2>4 DEF CmdInv, CmdTypes
    <3>2. sg_of'[requested] = sg_of[requested]
      BY <1>1, <2>4, <3>1 DEF AddLun, RemoveLun, CmdInv, MapInv, WalkTypes
    <3> QED
      BY <2>1, <3>2
  <2> QED
    BY <2>2, <2>3, <2>4
<1>7. FdHeld' /\ AnswerHeld'
  BY <1>2, <1>3 DEF CmdInv, FdHeld, AnswerHeld
<1>8. CheckConditionIsReal'
  BY DEF CmdInv, CheckConditionIsReal
<1> QED
  BY <1>4, <1>5, <1>6, <1>7, <1>8 DEF CmdInv

LEMMA BeginCmdPreserves ==
  ASSUME CmdInv, MapInv', NEW op \in Operation, NEW ver \in {1, 2},
         NoPort(op, ver) \/ Begin(op, ver)
  PROVE  CmdInv'
<1>1. pc = "idle" /\ ctxt.call = "none" /\ cpc = "none" /\ answer = NULL /\ fd = NULL
  BY DEF NoPort, Begin, CmdInv, MapInv, CallPhases, CmdPhases
<1>2. CASE NoPort(op, ver)
  BY <1>1, <1>2 DEF NoPort, CmdInv, vars, walkVars, CmdTypes, CmdPhases, NameHeld,
       FdHeld, AnswerHeld, CheckConditionIsReal, walking, requested
<1>3. CASE Begin(op, ver)
  <2> USE <1>3 DEF Begin
  <2>1. /\ ctxt'.call \in {"none", "sg"} /\ pc' \in {"dir", "done"}
        /\ UNCHANGED <<oc_count, oc_sg, entries, sg_of>>
    BY <1>1 DEF get_binding_sg_name, BeginWalk, SgNameFails, walkVars
  <2>2. oc_sg' = NULL
    BY <1>1, <2>1 DEF CmdInv, MapInv, CallPhases
  <2>3. CmdTypes' /\ CheckConditionIsReal' /\ FdHeld' /\ AnswerHeld'
    BY DEF CmdInv, CmdTypes, CheckConditionIsReal, FdHeld, AnswerHeld
  <2>4. CmdPhases'
    BY <1>1, <2>1 DEF CmdPhases, walking
  <2>5. NameHeld'
    BY <2>2 DEF NameHeld
  <2> QED
    BY <2>3, <2>4, <2>5 DEF CmdInv
<1> QED
  BY <1>2, <1>3

LEMMA WalkStepPreserves ==
  ASSUME CmdInv, MapInv', WalkStep
  PROVE  CmdInv'
<1> USE DEF WalkStep, cmdVars
<1>1. UNCHANGED <<sg_of, ctxt>> /\ walking
  BY DEF Step, ReadEntry, SkipEntry, OverflowEntry, StoreEntry, FindNames,
         ReadDevId, EndWalk, walkVars, walking
<1>2. cpc = "naming" /\ ctxt.call = "sg"
  BY <1>1 DEF CmdInv, CmdPhases, MapInv, CallPhases
<1>3. /\ ctxt \in SgCtxt /\ ctxt.oc_ver = 1 /\ ctxt.oc_limit = 1
      /\ stored \in {0, 1} /\ oc_count \in Nat
  BY <1>2, OnePlace DEF CmdInv, SgCtxt, MapInv, WalkTypes
<1>4. CmdTypes' /\ FdHeld' /\ AnswerHeld' /\ CheckConditionIsReal'
  BY <1>2 DEF CmdInv, CmdTypes, FdHeld, AnswerHeld, CheckConditionIsReal
<1>5. CmdPhases'
  BY <1>1, <1>2, <1>3 DEF CmdInv, CmdPhases, walking, Step, ReadEntry, SkipEntry,
       OverflowEntry, StoreEntry, FindNames, ReadDevId, EndWalk
<1>6. NameHeld'
  <2>0. requested' = requested
    BY <1>1 DEF requested
  <2>1. ASSUME NEW l \in Lun, SkipEntry(l) \/ OverflowEntry(l)
        PROVE  NameHeld'
    <3>1. stored' > 0 => stored > 0
      BY <1>2, <1>3, <2>1
         DEF SkipEntry, OverflowEntry, CountEntry, stored, filling, room
    <3> QED
      BY <1>1, <2>0, <2>1, <3>1 DEF CmdInv, NameHeld, SkipEntry, OverflowEntry
  <2>2. ASSUME NEW l \in Lun, StoreEntry(l)
        PROVE  NameHeld'
    BY <2>2 DEF StoreEntry, cleared_sg, NameHeld
  <2>3. CASE FindNames
    <3>1. oc_count = 0 /\ oc_sg = NULL
      BY <1>2, <2>3, OnePlace DEF FindNames, filling, CmdInv, MapInv, LastName
    <3> QED
      BY <1>1, <2>0, <2>3, <3>1 DEF FindNames, NameHeld
  <2>4. CASE ReadDevId
    BY <2>4 DEF ReadDevId, CmdInv, CmdPhases
  <2>5. CASE EndWalk
    <3>1. stored' = stored
      BY <2>5 DEF EndWalk, walkVars, stored, filling
    <3> QED
      BY <1>1, <2>0, <2>5, <3>1 DEF EndWalk, walkVars, CmdInv, NameHeld
  <2> QED
    BY <2>1, <2>2, <2>3, <2>4, <2>5 DEF Step, ReadEntry
<1> QED
  BY <1>4, <1>5, <1>6 DEF CmdInv

\* The device that is opened has the name now, and so it is the LUN asked for,
\* whose name it was and still is unless it left.
LEMMA OpenPreserves ==
  ASSUME CmdInv, MapInv', Open
  PROVE  CmdInv'
<1> USE DEF Open, ClearStat
<1>1. PICK l \in Lun : oc_sg # NULL /\ sg_of[l] = oc_sg /\ fd' = l
  OBVIOUS
<1>2. ctxt.call = "sg"
  BY DEF CmdInv, CmdPhases, MapInv, DoneStatus
<1>3. oc_sg \in SgName /\ oc_count = 1 /\ stored > 0
  <2>1. oc_count = 1 /\ ctxt.oc_limit = 1
    BY <1>2, OnePlace DEF CmdInv, MapInv, DoneStatus, SgCtxt
  <2>2. ~filling
    BY DEF filling
  <2> QED
    BY <1>1, <2>1, <2>2 DEF CmdInv, MapInv, WalkTypes, stored
<1>4. ctxt.fc_lun < any => entries[0].lun = requested /\ requested \in Lun
  <2>1. 0 \in 0 .. stored - 1
    BY <1>2, <1>3, OnePlace DEF CmdInv
  <2>2. entries[0].lun \in Lun
    BY <2>1 DEF CmdInv, MapInv, WalkTypes, Entry
  <2>3. SgNameOfLun
    BY SgNameFromInv DEF CmdInv
  <2> QED
    BY <1>2, <2>2, <2>3 DEF SgNameOfLun, named
<1>5. ctxt.fc_lun < any => l = requested \/ left
  BY <1>1, <1>2, <1>3, <1>4 DEF CmdInv, NameHeld, MapInv, NamesDiffer
<1>6. CmdTypes' /\ CheckConditionIsReal' /\ AnswerHeld'
  BY <1>1 DEF CmdInv, CmdTypes, CheckConditionIsReal, AnswerHeld
<1>7. CmdPhases'
  BY <1>2 DEF CmdInv, CmdPhases, vars, walkVars, walking
<1>8. NameHeld'
  BY DEF CmdInv, NameHeld, vars, walkVars, stored, filling, requested
<1>9. FdHeld'
  BY <1>1, <1>5 DEF FdHeld, vars, walkVars, requested
<1> QED
  BY <1>6, <1>7, <1>8, <1>9 DEF CmdInv

\* A call that ends with an error has no answer.
LEMMA CmdFailPreserves ==
  ASSUME CmdInv, MapInv', NameFails \/ OpenFails \/ ExecuteFails
  PROVE  CmdInv'
<1>1. /\ cpc' = "replied" /\ UNCHANGED <<vars, cmd, fd, answer, left>>
      /\ cpc \in {"naming", "open"} /\ (cpc = "naming" => pc = "done")
  BY DEF NameFails, OpenFails, ExecuteFails
<1>2. answer = NULL /\ ~walking /\ cmd \in [op : Operation, ver : {1, 2}]
  BY <1>1 DEF CmdInv, CmdPhases, CmdTypes, walking
<1>3. result' # "SCSI_CHECK_CONDITION"
  BY <1>2 DEF NameFails, OpenFails, ExecuteFails, Outcome, status_v1
<1>4. CmdTypes' /\ FdHeld' /\ AnswerHeld' /\ CheckConditionIsReal'
  BY <1>1, <1>2, <1>3
     DEF CmdInv, CmdTypes, FdHeld, AnswerHeld, CheckConditionIsReal
<1>5. CmdPhases'
  BY <1>1, <1>2 DEF CmdInv, CmdPhases, vars, walkVars, walking
<1>6. NameHeld'
  BY <1>1 DEF CmdInv, NameHeld, vars, walkVars, stored, filling, requested
<1> QED
  BY <1>4, <1>5, <1>6 DEF CmdInv

\* The LUN behind the descriptor answers.
LEMMA ExecutePreserves ==
  ASSUME CmdInv, MapInv', Execute
  PROVE  CmdInv'
<1> USE DEF Execute
<1>1. PICK st \in {"GOOD", "CHECK", "BUSY"}, lun_answered \in BOOLEAN :
        /\ st # "GOOD" => lun_answered
        /\ stat' = st
        /\ answer' = IF lun_answered THEN [lun |-> fd, stat |-> st] ELSE NULL
        /\ result' = Outcome("OK", st)
  OBVIOUS
<1>2. fd \in Lun /\ ctxt.call = "sg" /\ cmd \in [op : Operation, ver : {1, 2}]
      /\ ~walking
  BY DEF CmdInv, CmdTypes, CmdPhases
<1>3. [lun |-> fd, stat |-> st] # NULL
  BY <1>2, AnswerAssumption
<1>4. CheckConditionIsReal'
  <2>1. (result' = "SCSI_CHECK_CONDITION") <=> (cmd.ver = 1 /\ st = "CHECK")
    BY <1>1 DEF Outcome, status_v1
  <2>2. (answer' # NULL /\ answer'.stat = "CHECK") <=> st = "CHECK"
    BY <1>1, <1>3
  <2> QED
    BY <2>1, <2>2 DEF CheckConditionIsReal
<1>5. CmdTypes' /\ FdHeld'
  BY DEF CmdInv, CmdTypes, FdHeld
<1>6. CmdPhases'
  BY <1>2 DEF CmdInv, CmdPhases, vars, walkVars, walking
<1>7. NameHeld'
  BY DEF CmdInv, NameHeld, vars, walkVars, stored, filling, requested
<1>8. AnswerHeld'
  <2>1. answer' # NULL => answer'.lun = fd
    BY <1>1
  <2>2. ctxt.fc_lun < any => fd = requested \/ left
    BY DEF CmdInv, FdHeld
  <2> QED
    BY <1>2, <2>1, <2>2 DEF AnswerHeld, vars, walkVars, requested
<1> QED
  BY <1>4, <1>5, <1>6, <1>7, <1>8 DEF CmdInv

LEMMA FinishPreserves ==
  ASSUME CmdInv, MapInv', Finish
  PROVE  CmdInv'
<1> USE DEF Finish
<1>1. pc' = "idle" /\ ctxt'.call = "none"
  <2>1. CASE pc = "done"
    BY <2>1 DEF Return, no_ctxt
  <2>2. CASE pc # "done"
    <3>1. pc = "idle"
      BY <2>2 DEF CmdInv, CmdPhases, MapInv, WalkTypes, walking
    <3> QED
      BY <2>2, <3>1 DEF CmdInv, MapInv, CallPhases, vars, walkVars
  <2> QED
    BY <2>1, <2>2
<1>2. CmdTypes' /\ CheckConditionIsReal'
  BY DEF CmdTypes, CheckConditionIsReal
<1>3. CmdPhases' /\ NameHeld' /\ FdHeld' /\ AnswerHeld'
  BY <1>1 DEF CmdPhases, walking, NameHeld, FdHeld, AnswerHeld
<1> QED
  BY <1>2, <1>3 DEF CmdInv

LEMMA CmdNextInv ==
  ASSUME CmdInv, [CmdNext]_allVars
  PROVE  CmdInv'
<1>1. MapInv'
  BY CmdStepIsWalkStep, MapNext DEF CmdInv
<1>2. CASE UNCHANGED allVars
  BY <1>1, <1>2 DEF allVars, vars, walkVars, cmdVars, CmdInv, CmdTypes, CmdPhases,
       NameHeld, FdHeld, AnswerHeld, CheckConditionIsReal, walking, stored,
       filling, requested
<1>3. CASE KernelStep
  BY <1>1, <1>3, KernelStepPreserves
<1>4. ASSUME NEW op \in Operation, NEW ver \in {1, 2},
             NoPort(op, ver) \/ Begin(op, ver)
      PROVE  CmdInv'
  BY <1>1, <1>4, BeginCmdPreserves
<1>5. CASE WalkStep
  BY <1>1, <1>5, WalkStepPreserves
<1>6. CASE Open
  BY <1>1, <1>6, OpenPreserves
<1>7. CASE NameFails \/ OpenFails \/ ExecuteFails
  BY <1>1, <1>7, CmdFailPreserves
<1>8. CASE Execute \/ Finish
  BY <1>1, <1>8, ExecutePreserves, FinishPreserves
<1> QED
  BY <1>2, <1>3, <1>4, <1>5, <1>6, <1>7, <1>8 DEF CmdNext, CallStep

\* The invariant of the SCSI calls.
THEOREM CmdInvariance == CmdSpec => []CmdInv
<1>1. CmdInv /\ [CmdNext]_allVars => CmdInv'
  BY CmdNextInv
<1> QED
  BY CmdInitInv, <1>1, PTL DEF CmdSpec

\* A command of scsi_inquiry, scsi_read_capacity or scsi_report_luns is executed
\* by the LUN the caller asked for, unless that LUN went away during the call.
THEOREM CommandsReachRequestedLun == CmdSpec => []ReachesRequestedLun
<1>1. CmdInv => ReachesRequestedLun
  BY DEF CmdInv, AnswerHeld, ReachesRequestedLun, executed
<1> QED
  BY <1>1, CmdInvariance, PTL

\* Version 1 reports CHECK CONDITION when, and only when, the device reported it
\* for this command, although the status it looks at starts uninitialized.
THEOREM CheckConditionsAreReal == CmdSpec => []CheckConditionIsReal
<1>1. CmdInv => CheckConditionIsReal
  BY DEF CmdInv
<1> QED
  BY <1>1, CmdInvariance, PTL

----------------------------------------------------------------------------
(* A call comes to its end *)

\* A step of a walk reads an entry that was not read before, or does the next
\* thing for the entry it is at, or ends the walk.
Advances ==
  \/ pc = "dir" /\ pc' \in {"dir", "names"} /\ \E l \in Lun \ seen : seen' = seen \cup {l}
  \/ pc = "names" /\ pc' \in {"dir", "luid"} /\ UNCHANGED seen
  \/ pc = "luid" /\ pc' = "dir" /\ UNCHANGED seen
  \/ pc = "dir" /\ pc' = "done"

\* The callback of sa_dir_read is called once for an entry, however the LUNs
\* change, so a walk takes at most three steps for each LUN there can be.
THEOREM WalksWindDown ==
  Spec => [][/\ Step => Advances
             /\ walking /\ ~Step => UNCHANGED <<pc, seen>>]_vars
<1>1. MapInv /\ [Next]_vars =>
        [/\ Step => Advances
         /\ walking /\ ~Step => UNCHANGED <<pc, seen>>]_vars
  <2> SUFFICES ASSUME MapInv, Next
               PROVE  /\ Step => Advances
                      /\ walking /\ ~Step => UNCHANGED <<pc, seen>>
    OBVIOUS
  <2>1. ASSUME ReadEntry PROVE Advances
    <3>1. PICK l \in Lun : SkipEntry(l) \/ OverflowEntry(l) \/ StoreEntry(l)
      BY <2>1 DEF ReadEntry
    <3>2. /\ l \in todo /\ seen' = seen \cup {l}
          /\ pc = "dir" /\ pc' \in {"dir", "names"}
      BY <3>1 DEF SkipEntry, OverflowEntry, StoreEntry
    <3>3. l \notin seen
      BY <3>2 DEF MapInv, ReadOnce
    <3> QED
      BY <3>2, <3>3 DEF Advances
  <2>2. ASSUME FindNames PROVE Advances
    BY <2>2 DEF FindNames, Advances
  <2>3. ASSUME ReadDevId PROVE Advances
    BY <2>3 DEF ReadDevId, Advances
  <2>4. ASSUME EndWalk PROVE Advances
    BY <2>4 DEF EndWalk, Advances
  <2>5. Step => Advances
    BY <2>1, <2>2, <2>3, <2>4 DEF Step
  <2>6. ASSUME walking, ~Step PROVE UNCHANGED <<pc, seen>>
    <3>1. CASE Kernel
      BY <3>1 DEF Kernel, AddLun, RemoveLun
    <3>2. pc # "idle" /\ pc # "done"
      BY <2>6 DEF walking
    <3>3. ~MappingCall /\ ~SgNameCall /\ ~Return
      BY <3>2 DEF MappingCall, SgNameCall, MappingFails, SgNameFails, Return, BeginWalk,
           get_binding_target_mapping_v1, get_binding_target_mapping_v2,
           get_binding_sg_name
    <3> QED
      BY <2>6, <3>1, <3>3 DEF Next
  <2> QED
    BY <2>5, <2>6
<1> QED
  BY <1>1, MapInvariance, PTL DEF Spec

============================================================================
