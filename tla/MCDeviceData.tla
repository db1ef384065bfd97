---------------------------- MODULE MCDeviceData ----------------------------
(* What the library makes of data that a device supplies: designation        *)
(* descriptors (DevId), configuration space (PciCaps) and the byte order of  *)
(* fields and names (WireFormat).  The three share no state, and one of them *)
(* is at work at a time.                                                     *)
EXTENDS DevId, PciCaps, WireFormat

MCCapOff == {64, 80}
MCExtOff == {128, 256, 272}

\* The byte order of the host makes no difference to the other two.
WalkRests == pc = "idle"
PciRests  == ppc = "idle"
WireRests == little_endian /\ width = 8 /\ field = cleared(8)

MCInit == Init /\ PciInit /\ WireInit

MCNext ==
  \/ PciRests /\ WireRests /\ Next /\ UNCHANGED <<pciVars, wireVars>>
  \/ WalkRests /\ WireRests /\ PciNext /\ UNCHANGED <<vars, wireVars>>
  \/ WalkRests /\ PciRests /\ WireNext /\ UNCHANGED <<vars, pciVars>>

MCSpec ==
  MCInit /\ [][MCNext]_<<vars, pciVars, wireVars>> /\ WalkFair /\ PciFair

=============================================================================
