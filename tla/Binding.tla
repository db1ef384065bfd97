------------------------------ MODULE Binding ------------------------------
(***************************************************************************)
(* get_binding_capability, get_binding_support and set_binding_support     *)
(* (bind.c), with the name tables and sa_sys_write_line (utils.c) they     *)
(* use.  The kernel keeps one tgtid_bind_type per host; other programs may *)
(* write it, and the host may go away between any two steps.  Flags are    *)
(* sets of HBA_CAN_BIND_* bits; "other" stands for any bit that is not one *)
(* of BINDING_CAPABILITIES.  The first word of a name stands for the whole *)
(* of it, which is what the kernel prints.                                 *)
(***************************************************************************)
EXTENDS Integers, Sequences, SequencesExt

CONSTANT NULL   \* no value

LineLength == 5   \* of the shortest line, "none"; all that counts is that it is not 0

BINDING_CAPABILITIES == {"D_ID", "WWPN", "WWNN"}
Flags == SUBSET (BINDING_CAPABILITIES \cup {"other"})

\* Slip: two names in each other's place.
swapped_names ==
  << [nv_name |-> "none", nv_val |-> {}], [nv_name |-> "wwnn", nv_val |-> {"WWPN"}],
     [nv_name |-> "wwpn", nv_val |-> {"WWNN"}], [nv_name |-> "port_id", nv_val |-> {"D_ID"}] >>

binding_types_table ==
  << [nv_name |-> "none",    nv_val |-> {}],
     [nv_name |-> "wwpn",    nv_val |-> {"WWPN"}],
     [nv_name |-> "wwnn",    nv_val |-> {"WWNN"}],
     [nv_name |-> "port_id", nv_val |-> {"D_ID"}] >>

\* The kernel's own names (external), and a value it stores for each.
kernel_names == [none |-> {}, wwpn |-> {"WWPN"}, wwnn |-> {"WWNN"}, port_id |-> {"D_ID"}]

\* Slip: only the first letter of a name is compared.
FirstLetter(tp, name, val) ==
  LET i == SelectInSeq(tp, LAMBDA e : e.nv_name = name \/ {e.nv_name, name} = {"wwpn", "wwnn"})
  IN IF i = 0 THEN val ELSE tp[i].nv_val

sa_enum_encode(tp, name, val) ==
  LET i == SelectInSeq(tp, LAMBDA e : e.nv_name = name)
  IN IF i = 0 THEN val ELSE tp[i].nv_val

sa_enum_decode(tp, val) ==
  LET i == SelectInSeq(tp, LAMBDA e : e.nv_val = val)
  IN IF i = 0 THEN "Unknown" ELSE tp[i].nv_name

VARIABLES
  bpc,         \* "idle", "read", "write", "close", "status" or "done"
  op,          \* the call: "none", "capability", "get" or "set"
  flags,       \* flags the caller wants set
  bind,        \* the name to be written
  brc,         \* result of sa_sys_write_line
  bstatus,     \* what the call returns
  capability,  \* the caller's HBA_BIND_CAPABILITY; NULL before the call
  host,        \* the host's files are there
  file,        \* tgtid_bind_type, as the kernel prints it
  stored,      \* auxiliary: the call's own write has reached the kernel
  asked        \* auxiliary: the flags the library has set last, NULL when somebody
               \* else has set the binding since

bindKernel == <<host, file>>
bindVars == <<bpc, op, flags, bind, brc, bstatus, capability, stored, asked, bindKernel>>

BindInit ==
  /\ bpc = "idle" /\ op = "none" /\ flags = {} /\ bind = "none" /\ brc = 0
  /\ bstatus = "none" /\ capability = NULL /\ stored = FALSE /\ asked = NULL
  /\ host = TRUE
  /\ file \in DOMAIN kernel_names

----------------------------------------------------------------------------
(* The kernel and other programs (external) *)

OtherWrites ==
  /\ host
  /\ file' \in DOMAIN kernel_names
  /\ asked' = NULL
  /\ UNCHANGED <<bpc, op, flags, bind, brc, bstatus, capability, stored, host>>

HostLeaves ==
  /\ host
  /\ host' = FALSE
  /\ UNCHANGED <<bpc, op, flags, bind, brc, bstatus, capability, stored, asked, file>>

\* A host starts with the kernel's default.
HostComes ==
  /\ ~host
  /\ host' = TRUE /\ file' = "wwpn" /\ asked' = NULL
  /\ UNCHANGED <<bpc, op, flags, bind, brc, bstatus, capability, stored>>

----------------------------------------------------------------------------
(* The calls *)

lookup_failures == {"AMBIGUOUS_WWN", "ILLEGAL_WWN"}

Refuse(statuses) ==
  /\ bpc' = "done" /\ bstatus' \in statuses
  /\ UNCHANGED <<bind, brc, capability, stored, asked, bindKernel>>

get_binding_capability ==
  /\ bpc = "idle" /\ op' = "capability" /\ UNCHANGED flags
  /\ \/ Refuse(lookup_failures)
     \/ /\ bpc' = "done" /\ bstatus' = "OK"
        /\ capability' = BINDING_CAPABILITIES
        /\ UNCHANGED <<bind, brc, stored, asked, bindKernel>>

get_binding_support ==
  /\ bpc = "idle" /\ op' = "get" /\ UNCHANGED flags
  /\ \/ Refuse(lookup_failures)
     \/ bpc' = "read" /\ UNCHANGED <<bind, brc, bstatus, capability, stored, asked, bindKernel>>

\* The name is read and encoded.  Where it cannot be read, *cp stays as it was,
\* and the call returns OK.
ReadName ==
  /\ bpc = "read"
  /\ bpc' = "done" /\ bstatus' = "OK"
  /\ \/ host /\ capability' = sa_enum_encode(binding_types_table, file, capability)
     \/ UNCHANGED capability
  /\ UNCHANGED <<op, flags, bind, brc, stored, asked, bindKernel>>

\* Slip: any flags within the capabilities will do.
WithinCapabilities(f) == f \subseteq BINDING_CAPABILITIES

\* The flags are bits of BINDING_CAPABILITIES, and the table has a name for
\* just this combination.
supported(f) ==
  /\ f \subseteq BINDING_CAPABILITIES
  /\ sa_enum_decode(binding_types_table, f) # "Unknown"

set_binding_support ==
  /\ bpc = "idle" /\ op' = "set"
  /\ flags' \in Flags
  /\ \/ Refuse(lookup_failures)
     \/ ~supported(flags') /\ Refuse({"NOT_SUPPORTED"})
     \/ /\ supported(flags')
        /\ bpc' = "write"
        /\ bind' = sa_enum_decode(binding_types_table, flags')
        /\ UNCHANGED <<brc, bstatus, capability, stored, asked, bindKernel>>

\* fopen and fprintf, which returns the length of the line.  The line stays in
\* the buffer of the stream.  Opening fails without the host or the right to.
WriteLine ==
  /\ bpc = "write"
  /\ \/ host /\ brc' = LineLength /\ bpc' = "close"
     \/ brc' = -1 /\ bpc' = "status"
  /\ UNCHANGED <<op, flags, bind, bstatus, capability, stored, asked, bindKernel>>

\* fclose hands the line to the kernel, which may refuse it; nobody looks.
CloseFile ==
  /\ bpc = "close"
  /\ bpc' = "status"
  /\ \/ /\ host /\ bind \in DOMAIN kernel_names
        /\ file' = bind /\ stored' = TRUE /\ asked' = flags
     \/ UNCHANGED <<file, stored, asked>>
  /\ UNCHANGED <<op, flags, bind, brc, bstatus, capability, host>>

SetStatus ==
  /\ bpc = "status"
  /\ bpc' = "done"
  /\ bstatus' = IF brc = 0 THEN "INCAPABLE" ELSE "OK"
  /\ UNCHANGED <<op, flags, bind, brc, capability, stored, asked, bindKernel>>

BindReturn ==
  /\ bpc = "done"
  /\ bpc' = "idle" /\ op' = "none" /\ flags' = {} /\ bind' = "none" /\ brc' = 0
  /\ bstatus' = "none" /\ capability' = NULL /\ stored' = FALSE
  /\ UNCHANGED <<asked, bindKernel>>

BindNext ==
  \/ OtherWrites \/ HostLeaves \/ HostComes
  \/ get_binding_capability
  \/ get_binding_support \/ ReadName
  \/ set_binding_support \/ WriteLine \/ CloseFile \/ SetStatus
  \/ BindReturn

BindSpec == BindInit /\ [][BindNext]_bindVars

----------------------------------------------------------------------------
(* Properties *)

\* What set_binding_support has written means to the kernel the flags that the
\* caller gave, for as long as nobody else writes: the two tables of names
\* agree ("must exactly match", bind.c:34).
KernelUnderstands == asked # NULL => kernel_names[file] = asked

\* get_binding_support gives back what set_binding_support has set, when nobody
\* else has written in between, or leaves the caller's variable alone.
RoundTrip ==
  op = "get" /\ bpc = "done" /\ asked # NULL => capability \in {asked, NULL}

\* Only one kind of binding can be set: a combination of kinds that are each
\* supported is refused, and nothing is written.
OneKindOnly ==
  op = "set" /\ (bpc \in {"write", "close", "status"} \/ bstatus = "OK") =>
    \E n \in DOMAIN kernel_names : kernel_names[n] = flags

\* The binding that a caller has set through the library is the one the kernel
\* keeps and the one that is read back, and it is never a mixture.
BindingKept == KernelUnderstands /\ RoundTrip /\ OneKindOnly

\* "Returns 0 or an error number" (utils.c:67): sa_sys_write_line returns 0
\* exactly when the line has been written.
ZeroOrError == bpc = "status" => (brc = 0 <=> stored)

============================================================================
