---------------------------- MODULE ScsiCommand ----------------------------
(***************************************************************************)
(* The SCSI calls (scsi.c, sg.c): INQUIRY, READ CAPACITY and REPORT LUNS,  *)
(* each in two versions.  A call finds the name of the LUN's generic       *)
(* device with the walk of TargetMapping, opens the device by that name    *)
(* and sends one command through it.  The walk, the open and the command   *)
(* are separate steps, and LUNs come and go between them.                  *)
(*                                                                         *)
(* Response data is left out.  The room for sense data is kept: it is      *)
(* passed in an 8-bit field, and ByteRange stands for its 2^8.             *)
(***************************************************************************)
EXTENDS TargetMapping

CONSTANT ByteRange   \* 256 in the code

ASSUME ByteAssumption == ByteRange \in Nat \ {0}
ASSUME AnswerAssumption ==
  NULL \notin [lun : Lun, stat : {"GOOD", "CHECK", "BUSY"}]

VARIABLES
  cpc,       \* "none", "naming", "open" or "replied"
  cmd,       \* the call: its command and its version
  sense_len, \* the caller's room for sense data, chosen where it is looked at
  fd,        \* the LUN the open descriptor leads to, NULL once it is gone
  stat,      \* the SCSI status the call hands over or looks at
  answer,    \* auxiliary: the LUN that executed the command and its status
  left,      \* auxiliary: the LUN asked for went away during the call
  mx_sb_len, \* the room for sense data the kernel is told of
  result     \* the HBA_STATUS of the call

cmdVars == <<cpc, cmd, sense_len, fd, stat, answer, left, mx_sb_len, result>>
allVars == <<vars, cmdVars>>

Operation == {"inquiry", "read_capacity", "report_luns"}
no_cmd == [op |-> "none"]

CmdInit ==
  /\ Init
  /\ cpc = "none"
  /\ cmd = no_cmd
  /\ sense_len = 0
  /\ fd = NULL
  /\ stat = "GOOD"
  /\ answer = NULL
  /\ left = FALSE
  /\ mx_sb_len = 0
  /\ result = "OK"

----------------------------------------------------------------------------

\* A descriptor does not follow the name to the next LUN that gets it.
KernelStep ==
  /\ Kernel
  /\ fd' = IF fd # NULL /\ sg_of'[fd] = "absent" THEN NULL ELSE fd
  /\ left' = \/ left
             \/ /\ ctxt.call = "sg"
                /\ requested \in scsi_device
                /\ sg_of'[requested] = "absent"
  /\ UNCHANGED <<cpc, cmd, sense_len, stat, answer, mx_sb_len, result>>

\* scsi_*_v1 and scsi_*_v2 up to the walk.  Version 1 leaves the status
\* uninitialized.  REPORT LUNS always goes to LUN 0.
Begin(op, ver) ==
  /\ cpc = "none"
  /\ cpc' = "naming"
  /\ cmd' = [op |-> op, ver |-> ver]
  /\ stat' = "unset"
  /\ \/ \E rp \in Rport, fc_lun \in 0 .. 2 * IntRange - 1 :
          /\ op = "report_luns" => fc_lun = 0
          /\ get_binding_sg_name(rp, fc_lun)
     \/ \E rp \in Rport \cup {NULL} : SgNameFails(rp)
  /\ UNCHANGED <<sense_len, fd, answer, left, mx_sb_len, result>>

\* No port: a bad handle in version 1, a port name that is not the adapter's
\* in version 2.
NoPort(op, ver) ==
  /\ cpc = "none"
  /\ cpc' = "replied"
  /\ cmd' = [op |-> op, ver |-> ver]
  /\ result' = IF ver = 1 THEN "INVALID_HANDLE" ELSE "ILLEGAL_WWN"
  /\ UNCHANGED <<vars, sense_len, fd, stat, answer, left, mx_sb_len>>

WalkStep == Step /\ UNCHANGED cmdVars

\* Any failure of the walk has the same meaning to the caller.
NameFails ==
  /\ cpc = "naming"
  /\ pc = "done"
  /\ status # "OK"
  /\ cpc' = "replied"
  /\ result' = IF cmd.op = "report_luns" THEN "TARGET_PORT_WWN" ELSE "TARGET_LUN"
  /\ UNCHANGED <<vars, cmd, sense_len, fd, stat, answer, left,
                 mx_sb_len>>

\* INQUIRY clears the status before it opens the device, the others do not.
ClearStat == stat' = IF cmd.op = "inquiry" THEN "GOOD" ELSE stat

\* The device with this name now is opened.
Open ==
  /\ cpc = "naming"
  /\ pc = "done"
  /\ status = "OK"
  /\ cpc' = "open"
  /\ \E l \in Lun : oc_sg # NULL /\ sg_of[l] = oc_sg /\ fd' = l
  /\ ClearStat
  /\ UNCHANGED <<vars, cmd, sense_len, answer, left, mx_sb_len, result>>

\* The name is empty, its device is gone, or it cannot be opened.  READ
\* CAPACITY and REPORT LUNS return the error number as an HBA_STATUS.
OpenFails ==
  /\ cpc = "naming"
  /\ pc = "done"
  /\ status = "OK"
  /\ cpc' = "replied"
  /\ result' = IF cmd.op = "inquiry" THEN "ERROR" ELSE "errno"
  /\ ClearStat
  /\ UNCHANGED <<vars, cmd, sense_len, fd, answer, left, mx_sb_len>>

\* The length in the 8-bit field: INQUIRY limits it, the others cut it.
sense_room(op, len) ==
  IF op = "inquiry" THEN IF len < ByteRange THEN len ELSE ByteRange - 1
  ELSE len % ByteRange

\* Slip: the status is looked at whatever became of the command; one that was
\* not set may be any.
CheckAlways(rc, st) == IF st \in {"CHECK", "unset"} THEN "SCSI_CHECK_CONDITION" ELSE rc

\* Version 1 has no place for the SCSI status and turns one of them into an
\* HBA_STATUS.
status_v1(rc, st) ==
  IF rc = "OK" /\ st = "CHECK" THEN "SCSI_CHECK_CONDITION" ELSE rc

Outcome(rc, st) == IF cmd.ver = 1 THEN status_v1(rc, st) ELSE rc

TellSenseRoom ==
  /\ sense_len' \in {0, ByteRange - 1, ByteRange}
  /\ mx_sb_len' = sense_room(cmd.op, sense_len')

\* SG_IO comes back: the LUN executed the command, or, "GOOD" all the same,
\* the transport failed, which nothing looks at.
Execute ==
  /\ cpc = "open"
  /\ fd # NULL
  /\ \E st \in {"GOOD", "CHECK", "BUSY"}, lun_answered \in BOOLEAN :
       /\ st # "GOOD" => lun_answered
       /\ stat' = st
       /\ answer' = IF lun_answered THEN [lun |-> fd, stat |-> st] ELSE NULL
       /\ result' = Outcome("OK", st)
  /\ TellSenseRoom
  /\ cpc' = "replied"
  /\ UNCHANGED <<vars, cmd, fd, left>>

\* SG_IO fails, as it does when the device is gone.
ExecuteFails ==
  /\ cpc = "open"
  /\ TellSenseRoom
  /\ result' = Outcome("ERROR", stat)
  /\ cpc' = "replied"
  /\ UNCHANGED <<vars, cmd, fd, stat, answer, left>>

\* The caller takes the result over.
Finish ==
  /\ cpc = "replied"
  /\ cpc' = "none"
  /\ IF pc = "done" THEN Return ELSE UNCHANGED vars
  /\ cmd' = no_cmd
  /\ fd' = NULL
  /\ sense_len' = 0
  /\ stat' = "GOOD"
  /\ answer' = NULL
  /\ left' = FALSE
  /\ mx_sb_len' = 0
  /\ result' = "OK"

\* What the thread of a call does once it has begun.
CallStep ==
  \/ WalkStep
  \/ NameFails
  \/ Open \/ OpenFails
  \/ Execute \/ ExecuteFails
  \/ Finish

CmdNext ==
  \/ KernelStep
  \/ \E op \in Operation, ver \in {1, 2} :
       NoPort(op, ver) \/ Begin(op, ver)
  \/ CallStep

CmdSpec == CmdInit /\ [][CmdNext]_allVars

----------------------------------------------------------------------------
(* Properties *)

executed == cpc = "replied" /\ answer # NULL

\* A command is executed by the LUN the caller asked for, unless that LUN went
\* away during the call: the device is found, opened and used in separate
\* steps.
ReachesRequestedLun ==
  executed /\ ctxt.fc_lun < any =>
    answer.lun = requested \/ left

\* CHECK CONDITION is reported by version 1 when, and only when, the device
\* reported it for this command; the status left uninitialized by the calls
\* is never mistaken for one.
CheckConditionIsReal ==
  cpc = "replied" =>
    (result = "SCSI_CHECK_CONDITION" <=>
       cmd.ver = 1 /\ answer # NULL /\ answer.stat = "CHECK")

============================================================================
