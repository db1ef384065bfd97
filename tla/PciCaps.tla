------------------------------ MODULE PciCaps ------------------------------
(***************************************************************************)
(* Hardware information from PCI configuration space (pci.c): the device   *)
(* of a slot is looked up, and its serial number is searched for along two *)
(* lists linked by offsets, the capability list, which must have a PCI     *)
(* Express capability, and then the extended one that starts at 0x100.     *)
(*                                                                         *)
(* The lists are the device's and may be anything, cycles included.  Every *)
(* read of configuration space can fail: the device may go away, and only  *)
(* root can read past the first 64 bytes.                                  *)
(***************************************************************************)
EXTENDS Integers

CONSTANTS
  CapOff,   \* offsets in the first 256 bytes that are led to
  ExtOff    \* offsets that the headers of extended capabilities lead to

ext_start == 256   \* 0x100

\* A header may lead to any offset, also back below 0x100.
ASSUME OffsetAssumption ==
  /\ CapOff \subseteq 1 .. ext_start - 1
  /\ ExtOff \subseteq Nat \ {0}
  /\ ext_start \in ExtOff

\* The content of configuration space; the offset 0 ends a list.  Where both
\* lists lead to an offset its bytes are taken to be anything, once as the one
\* and once as the other: a device's lists are among those.
Config ==
  [cap_ptr : CapOff \cup {0},
   caps : [CapOff -> [id : {"EXP", "other"}, next : CapOff \cup {0}]],
   ext  : [ExtOff -> [id : {"DSN", "other"}, next : ExtOff \cup {0}]]]

VARIABLES
  cfg,              \* the configuration space of the device that was found
  ppc,              \* "idle", "status", "caps", "ext", "dsn" or "done"
  offset,           \* where the search is
  SerialNumber,     \* "empty", "Unknown", or a number and the registers that
                    \* its halves are from
  HardwareVersion,  \* "empty", "read" or "garbage"
  NumberOfPorts,    \* 0 until the device was found
  status,           \* what find_pci_device returns
  failed            \* auxiliary: some read of the search failed, or there is
                    \* no list

pciVars == <<cfg, ppc, offset, SerialNumber, HardwareVersion, NumberOfPorts,
             status, failed>>
info == <<SerialNumber, HardwareVersion, NumberOfPorts>>

\* No device is looked at.
no_config ==
  [cap_ptr |-> 0,
   caps |-> [o \in CapOff |-> [id |-> "other", next |-> 0]],
   ext  |-> [o \in ExtOff |-> [id |-> "other", next |-> 0]]]

no_serial == [text |-> "empty", low |-> 0, high |-> 0]
unknown   == [text |-> "Unknown", low |-> 0, high |-> 0]

PciInit ==
  /\ cfg = no_config
  /\ ppc = "idle"
  /\ offset = 0
  /\ SerialNumber = no_serial
  /\ HardwareVersion = "empty"
  /\ NumberOfPorts = 0
  /\ status = "OK"
  /\ failed = FALSE

----------------------------------------------------------------------------

\* pci_system_init fails.
SystemFails ==
  /\ ppc = "idle"
  /\ ppc' = "done"
  /\ status' = "ERROR"
  /\ failed' = TRUE
  /\ UNCHANGED <<cfg, offset, info>>

\* No device has the slot; hba_info stays zero.
NoDevice ==
  /\ ppc = "idle"
  /\ ppc' = "done"
  /\ failed' = TRUE
  /\ UNCHANGED <<cfg, offset, info, status>>

\* get_pci_device_info.  The result of reading the revision is not looked at.
\* get_device_serial_number begins with its default.
DeviceInfo ==
  /\ ppc = "idle"
  /\ ppc' = "status"
  /\ cfg' \in Config
  /\ HardwareVersion' \in {"read", "garbage"}
  /\ NumberOfPorts' = 1
  /\ SerialNumber' = unknown
  /\ UNCHANGED <<offset, status, failed>>

\* Where the search goes on after a pointer was read.
Follow(next, here) ==
  /\ offset' = next
  /\ ppc' = IF next = 0 THEN "done" ELSE here

\* The device has a capability list, and where it starts.
ReadCapPtr ==
  /\ ppc = "status"
  /\ Follow(cfg.cap_ptr, "caps")
  /\ UNCHANGED <<cfg, info, status, failed>>

\* One turn of the loop over the capability list.
CapStep ==
  /\ ppc = "caps"
  /\ \/ /\ cfg.caps[offset].id = "EXP"
        /\ offset' = ext_start
        /\ ppc' = "ext"
     \/ /\ cfg.caps[offset].id # "EXP"
        /\ Follow(cfg.caps[offset].next, "caps")
  /\ UNCHANGED <<cfg, info, status, failed>>

\* Slip: a header that is not the one looked for ends the search.
StopsAtFirst ==
  /\ ppc = "ext"
  /\ ppc' = IF cfg.ext[offset].id = "DSN" THEN "dsn" ELSE "done"
  /\ UNCHANGED <<cfg, offset, info, status, failed>>

\* Slip: the next capability is looked for where this one is.
StaysAtHeader ==
  /\ ppc = "ext"
  /\ ppc' = IF cfg.ext[offset].id = "DSN" THEN "dsn" ELSE "ext"
  /\ UNCHANGED <<cfg, offset, info, status, failed>>

\* One turn of the loop over the extended capabilities.
ExtStep ==
  /\ ppc = "ext"
  /\ \/ /\ cfg.ext[offset].id = "DSN"
        /\ ppc' = "dsn"
        /\ UNCHANGED offset
     \/ /\ cfg.ext[offset].id # "DSN"
        /\ Follow(cfg.ext[offset].next, "ext")
  /\ UNCHANGED <<cfg, info, status, failed>>

\* The two halves are read and printed.  The results of the reads are not
\* looked at: a half that cannot be read is printed as zeros, here 0.
ReadSerial ==
  /\ ppc = "dsn"
  /\ ppc' = "done"
  /\ \E low, high \in {offset, 0} :
       /\ SerialNumber' = [text |-> "number", low |-> low, high |-> high]
       /\ failed' = (0 \in {low, high})
  /\ UNCHANGED <<cfg, offset, HardwareVersion, NumberOfPorts, status>>

\* A read on the way fails, or the status register says there is no list.
ReadFails ==
  /\ ppc \in {"status", "caps", "ext"}
  /\ ppc' = "done"
  /\ failed' = TRUE
  /\ UNCHANGED <<cfg, offset, info, status>>

\* hba_info is taken over, and zeroed before the next call.
PciReturn ==
  /\ ppc = "done"
  /\ ppc' = "idle"
  /\ offset' = 0
  /\ SerialNumber' = no_serial
  /\ HardwareVersion' = "empty"
  /\ NumberOfPorts' = 0
  /\ status' = "OK"
  /\ failed' = FALSE
  /\ cfg' = no_config

Walk == ReadCapPtr \/ CapStep \/ ExtStep \/ ReadSerial

PciNext == SystemFails \/ NoDevice \/ DeviceInfo \/ Walk \/ ReadFails \/ PciReturn

PciSpec == PciInit /\ [][PciNext]_pciVars

\* The search keeps running; nothing obliges a read to fail.
PciFair == WF_pciVars(Walk)

----------------------------------------------------------------------------
(* Properties *)

\* The set holds the start of the capability list and, with each offset, the
\* one that follows it; 0 is the end.
CapClosed(S) ==
  cfg.cap_ptr \in S /\ \A s \in S \ {0} : cfg.caps[s].next \in S

\* The same for the extended list, up to its first serial number.
ExtClosed(S) ==
  ext_start \in S /\ \A s \in S \ {0} : cfg.ext[s].id # "DSN" => cfg.ext[s].next \in S

\* The offsets a list leads to: those in every closed set.
CapList ==
  {o \in CapOff \cup {0} : \A S \in SUBSET (CapOff \cup {0}) : CapClosed(S) => o \in S}

ExtList ==
  {o \in ExtOff \cup {0} : \A S \in SUBSET (ExtOff \cup {0}) : ExtClosed(S) => o \in S}

\* The device is a PCI Express one.
Express == \E o \in CapOff : cfg.caps[o].id = "EXP" /\ o \in CapList

\* The extended list has a serial number, and o is the first.
FirstSerial(o) == o \in ExtOff /\ cfg.ext[o].id = "DSN" /\ o \in ExtList

\* A number is reported only for a PCI Express device with a serial number, and
\* each half of it is that of the first serial number register, or zeros if
\* that half could not be read; so it is the device's own when every read of
\* the search succeeded.  A device that has one, and answered every read, is
\* never reported as "Unknown"; and nothing is reported for a slot that was not
\* found.  A half of zeros is not told apart from one the device has: with it
\* the number is nobody's, and the code reports it all the same.
SerialIsDevices ==
  ppc = "done" =>
    /\ SerialNumber.text = "number" =>
         /\ Express
         /\ \E o \in ExtOff :
              /\ FirstSerial(o)
              /\ SerialNumber.low \in {o, 0} /\ SerialNumber.high \in {o, 0}
         /\ ~failed => SerialNumber.low # 0 /\ SerialNumber.high # 0
    /\ SerialNumber.text = "Unknown" /\ ~failed =>
         ~Express \/ \A o \in ExtOff : ~FirstSerial(o)
    /\ SerialNumber.text = "empty" <=> NumberOfPorts = 0

\* A list ends, or the search ends before it does.
Ends ==
  /\ Express \/ 0 \in CapList
  /\ (\E o \in ExtOff : FirstSerial(o)) \/ 0 \in ExtList

\* The search returns if the lists end.  The code has no bound of its own: on
\* a list that leads back into itself it goes round for as long as the reads
\* succeed.
SearchReturns == ppc = "status" /\ Ends ~> ppc = "done"

============================================================================
