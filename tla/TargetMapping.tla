--------------------------- MODULE TargetMapping ---------------------------
(***************************************************************************)
(* The walk over the kernel's directory of SCSI devices (bind.c).  One     *)
(* callback serves three calls: the FCP target mapping, in two versions,   *)
(* and the lookup of the generic device name of one LUN.  They share a     *)
(* context that every directory entry reads and writes, and LUNs come and  *)
(* go, and generic device names are used again, while the walk runs.       *)
(*                                                                         *)
(* One adapter with its one port (index 0) is modelled; the other hosts    *)
(* appear through their entries in the directory.  A LUN is named by the   *)
(* four numbers of its entry, <hba>:<chan>:<tgt>:<lun>, and the name also  *)
(* stands for the device identifier the LUN answers with.  The remote      *)
(* ports are the discovered ones, as RportCache leaves them.               *)
(*                                                                         *)
(* Numbers are 32 bits wide; IntRange stands for 2^32, so that -1, which   *)
(* matches everything, is IntRange - 1.                                    *)
(***************************************************************************)
EXTENDS Integers, FiniteSets, TLC

CONSTANTS
  NULL,            \* no value: a null pointer, an empty name
  Lun,             \* the LUNs there can be: records [hba, chan, tgt, lun]
  SgName,          \* names of generic devices
  Rport,           \* discovered remote ports: records with a field tgt
  ad_kern_index,   \* kernel host number of the adapter
  IntRange,        \* 2^32 in the code
  MaxLimit         \* bound on the entries a caller makes room for

any == IntRange - 1

ASSUME IntAssumption == IntRange \in Nat \ {0} /\ MaxLimit \in Nat
ASSUME NameAssumption == NULL \notin SgName /\ "absent" \notin SgName
ASSUME LunAssumption ==
  Lun \subseteq [hba : Nat, chan : Nat, tgt : 0 .. any - 1, lun : 0 .. any - 1]
ASSUME TargetAssumption == NULL \notin Rport /\ \A r \in Rport : r.tgt \in 0 .. any
\* The kernel binds a SCSI target number to one remote port of a host.
ASSUME BindingAssumption ==
  \A r, s \in Rport : r.tgt = s.tgt => r = s \/ r.tgt = any

VARIABLES
  sg_of,      \* kernel: "absent", or the generic device of a LUN, or NULL
  pc,         \* "idle", "dir", "names", "luid" or "done"
  ctxt,       \* the fields of struct binding_context the walk only reads
  oc_count,   \* matching entries so far
  oc_sg,      \* generic device name found for the current entry
  entries,    \* the filled part of the caller's array
  todo,       \* directory entries still to be read
  seen,       \* directory entries already read
  status,     \* what the call returns
  stayed,     \* auxiliary: LUNs present since the call began
  enough      \* auxiliary: room known to suffice for a retry

walkVars == <<ctxt, oc_count, oc_sg, entries, todo, seen>>
vars     == <<sg_of, pc, walkVars, status, stayed, enough>>

scsi_device == {l \in Lun : sg_of[l] # "absent"}

no_ctxt == [call |-> "none"]

Init ==
  /\ sg_of \in [Lun -> SgName \cup {"absent", NULL}]
  /\ \A k, l \in Lun : sg_of[k] \in SgName /\ sg_of[k] = sg_of[l] => k = l
  /\ pc = "idle"
  /\ ctxt = no_ctxt
  /\ oc_count = 0
  /\ oc_sg = NULL
  /\ entries = <<>>
  /\ todo = {}
  /\ seen = {}
  /\ status = "OK"
  /\ stayed = {}
  /\ enough = NULL

----------------------------------------------------------------------------
(* The kernel *)

walking == pc \in {"dir", "names", "luid"}

\* A LUN appears, with a generic device whose name is free or without one.
\* A walk in progress may or may not come across it.
AddLun(l) ==
  /\ sg_of[l] = "absent"
  /\ \E name \in {NULL} \cup (SgName \ {sg_of[k] : k \in Lun}) :
       sg_of' = [sg_of EXCEPT ![l] = name]
  /\ \/ walking /\ l \notin seen /\ todo' = todo \cup {l}
     \/ UNCHANGED todo
  /\ enough' = NULL
  /\ UNCHANGED <<pc, ctxt, oc_count, oc_sg, entries, seen, status, stayed>>

\* A LUN goes away, and its generic device name is free again.
RemoveLun(l) ==
  /\ sg_of[l] # "absent"
  /\ sg_of' = [sg_of EXCEPT ![l] = "absent"]
  /\ todo' \in {todo, todo \ {l}}
  /\ stayed' = stayed \ {l}
  /\ UNCHANGED <<pc, ctxt, oc_count, oc_sg, entries, seen, status, enough>>

Kernel == \E l \in Lun : AddLun(l) \/ RemoveLun(l)

----------------------------------------------------------------------------
(* The calls.  A zeroed context is filled in and the directory is opened,    *)
(* which may fail unnoticed.                                                 *)

BeginWalk(c) ==
  /\ pc = "idle"
  /\ pc' = "dir"
  /\ ctxt' = c
  /\ todo' \in {scsi_device, {}}
  /\ stayed' = todo'
  /\ UNCHANGED <<sg_of, oc_count, oc_sg, entries, seen, status, enough>>

\* Every port of the host.
get_binding_target_mapping_v1(limit) ==
  BeginWalk([call |-> "v1", oc_ver |-> 1, oc_limit |-> limit, oc_rport |-> NULL,
             oc_port |-> any, oc_target |-> any, oc_lun |-> any])

\* The port with the name the caller gave, which has index 0.
get_binding_target_mapping_v2(limit) ==
  BeginWalk([call |-> "v2", oc_ver |-> 2, oc_limit |-> limit, oc_rport |-> NULL,
             oc_port |-> 0, oc_target |-> any, oc_lun |-> any])

\* The handle or the port name is not that of an adapter.
MappingFails ==
  /\ pc = "idle"
  /\ pc' = "done"
  /\ status' = "INVALID_HANDLE"
  /\ UNCHANGED <<sg_of, walkVars, stayed, enough>>

\* One LUN of a discovered port with a SCSI target.  The number is cut to an
\* int, and compared as an unsigned one.
get_binding_sg_name(rp, fc_lun) ==
  /\ rp.tgt # any
  /\ BeginWalk([call |-> "sg", oc_ver |-> 1, oc_limit |-> 1, oc_rport |-> rp,
                oc_port |-> 0, oc_target |-> rp.tgt,
                oc_lun |-> fc_lun % IntRange, fc_lun |-> fc_lun])

\* The name is not that of a discovered port (rp is NULL), or the port had no
\* SCSI target when it was discovered.
SgNameFails(rp) ==
  /\ pc = "idle"
  /\ pc' = "done"
  /\ \/ rp = NULL /\ status' = "ILLEGAL_WWN"
     \/ rp # NULL /\ rp.tgt = any /\ status' = "ENOENT"
  /\ UNCHANGED <<sg_of, walkVars, stayed, enough>>

----------------------------------------------------------------------------
(* get_binding_target_mapping, for one entry *)

\* Slip: the target is not compared.
MatchesAnyTarget(c, l) ==
  /\ l.hba = ad_kern_index
  /\ c.oc_port   \in {l.chan, any}
  /\ c.oc_lun    \in {l.lun, any}

matches(c, l) ==
  /\ l.hba = ad_kern_index
  /\ c.oc_port   \in {l.chan, any}
  /\ c.oc_target \in {l.tgt, any}
  /\ c.oc_lun    \in {l.lun, any}

\* The discovered port with this SCSI target; there is no port but port 0.
adapter_get_rport_target(chan, tgt) ==
  LET found == {r \in Rport : r.tgt = tgt}
  IN  IF chan = 0 /\ found # {} THEN CHOOSE r \in found : TRUE ELSE NULL

\* Slip: the name found for the entry before is kept.
KeepsSgName == oc_sg

\* The name is cleared before the names of an entry are looked up.
cleared_sg == NULL

room == oc_count < ctxt.oc_limit

entry_of(l) ==
  [lun   |-> l,
   rport |-> IF ctxt.oc_rport # NULL THEN ctxt.oc_rport
             ELSE adapter_get_rport_target(l.chan, l.tgt),
   luid  |-> NULL]

\* Slip: an entry is counted only when it is stored.
CountsStored == oc_count' = IF room THEN oc_count + 1 ELSE oc_count

CountEntry == oc_count' = oc_count + 1

\* Another host's LUN, or one the caller did not ask for.
SkipEntry(l) ==
  /\ pc = "dir"
  /\ l \in todo
  /\ ~matches(ctxt, l)
  /\ todo' = todo \ {l}
  /\ seen' = seen \cup {l}
  /\ UNCHANGED <<sg_of, pc, ctxt, oc_count, oc_sg, entries, status, stayed, enough>>

\* A match without room for it is only counted.
OverflowEntry(l) ==
  /\ pc = "dir"
  /\ l \in todo
  /\ matches(ctxt, l)
  /\ ~room
  /\ todo' = todo \ {l}
  /\ seen' = seen \cup {l}
  /\ CountEntry
  /\ UNCHANGED <<sg_of, pc, ctxt, oc_sg, entries, status, stayed, enough>>

\* A match with room: the entry is stored in its place.
StoreEntry(l) ==
  /\ pc = "dir"
  /\ l \in todo
  /\ matches(ctxt, l)
  /\ room
  /\ todo' = todo \ {l}
  /\ seen' = seen \cup {l}
  /\ entries' = [i \in DOMAIN entries \cup {oc_count} |->
                  IF i = oc_count THEN entry_of(l) ELSE entries[i]]
  /\ oc_sg' = cleared_sg
  /\ pc' = "names"
  /\ UNCHANGED <<sg_of, ctxt, oc_count, status, stayed, enough>>

\* get_binding_os_names: the directory of the LUN, if it can still be read,
\* names its generic device, if it has one.
FindNames ==
  /\ pc = "names"
  /\ LET name == sg_of[entries[oc_count].lun]
     IN  \/ name \in SgName /\ oc_sg' = name
         \/ UNCHANGED oc_sg
  /\ IF ctxt.oc_ver = 2 /\ oc_sg' # NULL
     THEN pc' = "luid" /\ UNCHANGED oc_count
     ELSE pc' = "dir" /\ CountEntry
  /\ UNCHANGED <<sg_of, ctxt, entries, todo, seen, status, stayed, enough>>

\* sg_get_dev_id: whichever LUN has the generic device now is asked for its
\* identifier; the command may fail.
ReadDevId ==
  /\ pc = "luid"
  /\ \E luid \in {NULL} \cup {l \in Lun : sg_of[l] = oc_sg} :
       entries' = [entries EXCEPT ![oc_count].luid = luid]
  /\ pc' = "dir"
  /\ CountEntry
  /\ UNCHANGED <<sg_of, ctxt, oc_sg, todo, seen, status, stayed, enough>>

\* Slip: a full array is taken for an overflow.
FullIsMore == oc_count >= ctxt.oc_limit

more_data == oc_count > ctxt.oc_limit

\* The end of the directory; NumberOfEntries is oc_count.
EndWalk ==
  /\ pc = "dir"
  /\ todo = {}
  /\ pc' = "done"
  /\ \/ /\ ctxt.call = "sg"
        /\ status' = IF oc_count = 1 THEN "OK" ELSE "ENOENT"
     \/ /\ ctxt.call # "sg"
        /\ status' = IF more_data THEN "MORE_DATA" ELSE "OK"
  /\ UNCHANGED <<sg_of, walkVars, stayed, enough>>

\* The caller takes the result over, and the context is gone.  A caller that is
\* told MORE_DATA learns how much room suffices, unless a LUN that the walk did
\* not come across has appeared.
Return ==
  /\ pc = "done"
  /\ pc' = "idle"
  /\ ctxt' = no_ctxt
  /\ oc_count' = 0
  /\ oc_sg' = NULL
  /\ entries' = <<>>
  /\ seen' = {}
  /\ stayed' = {}
  /\ status' = "OK"
  /\ enough' = IF status # "MORE_DATA" THEN enough
               ELSE IF scsi_device \subseteq seen THEN <<ctxt.call, oc_count>>
               ELSE NULL
  /\ UNCHANGED <<sg_of, todo>>

ReadEntry ==
  \E l \in Lun : SkipEntry(l) \/ OverflowEntry(l) \/ StoreEntry(l)

Step == ReadEntry \/ FindNames \/ ReadDevId \/ EndWalk

MappingCall ==
  \/ \E limit \in 0 .. MaxLimit : \/ get_binding_target_mapping_v1(limit)
                                  \/ get_binding_target_mapping_v2(limit)
  \/ MappingFails

SgNameCall ==
  \/ \E rp \in Rport, fc_lun \in 0 .. 2 * IntRange - 1 :
       get_binding_sg_name(rp, fc_lun)
  \/ \E rp \in Rport \cup {NULL} : SgNameFails(rp)

Next == Kernel \/ MappingCall \/ SgNameCall \/ Step \/ Return

Spec == Init /\ [][Next]_vars

----------------------------------------------------------------------------
(* Properties *)

mapped == pc = "done" /\ ctxt.call \in {"v1", "v2"}

\* What a finished mapping call hands over.  The array is filled from its
\* start without gaps and never past its end, with different LUNs of the
\* adapter; NumberOfEntries counts every LUN that stayed, stored or not; and
\* when all were stored the call says so.
MappingComplete ==
  mapped =>
    LET owed == {l \in stayed : matches(ctxt, l)}
        got  == {entries[i].lun : i \in DOMAIN entries}
    IN  /\ \E n \in 0 .. ctxt.oc_limit : DOMAIN entries = 0 .. n - 1
        /\ Cardinality(got) = Cardinality(DOMAIN entries)
        /\ \A l \in got : l.hba = ad_kern_index
        /\ Cardinality(owed \cup got) <= oc_count
        /\ status = "OK" <=> Cardinality(got) = oc_count
        /\ status = "OK" => owed \subseteq got

\* A caller that was told MORE_DATA and asks again with the room it was told
\* succeeds, unless a LUN appeared since the walk that counted them.
RetryFits ==
  mapped /\ enough # NULL =>
    (enough[1] = ctxt.call /\ enough[2] <= ctxt.oc_limit => status = "OK")

\* The parts of one entry belong together although they are read in separate
\* steps into a shared context: the remote port is the one the LUN was reached
\* through, and the identifier is the LUN's own if it stayed.
EntryConsistent ==
  mapped =>
    \A i \in DOMAIN entries :
      LET e == entries[i]
      IN  /\ e.rport # NULL => e.lun.chan = 0 /\ e.rport.tgt = e.lun.tgt
          /\ e.lun \in stayed => e.luid \in {NULL, e.lun}

named == pc = "done" /\ ctxt.call = "sg" /\ status = "OK"

requested == [hba |-> ad_kern_index, chan |-> 0, tgt |-> ctxt.oc_target,
              lun |-> ctxt.fc_lun]

\* "Get LUN scsi-generic device name" (bind.c:352): the LUN that was found is
\* the LUN that was asked for.
SgNameOfRequestedLun == named => entries[0].lun = requested

\* The same for numbers an int can hold and that are not -1; and the name is
\* the LUN's own, if the LUN stayed.  It is empty if the LUN has none.
SgNameOfLun ==
  named /\ ctxt.fc_lun < any =>
    /\ entries[0].lun = requested
    /\ requested \in stayed => oc_sg \in {NULL, sg_of[requested]}

============================================================================
