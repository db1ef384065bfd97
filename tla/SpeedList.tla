----------------------------- MODULE SpeedList -----------------------------
(***************************************************************************)
(* sys_read_speed (lport.c): a line of /sys that lists port speeds becomes *)
(* a set of HBA_PORTSPEED bits.  A line is the sequence of the names in    *)
(* it, and a bit is the name it stands for.  The pointer into              *)
(* port_speeds_table is set once and not put back between two names.       *)
(***************************************************************************)
EXTENDS Naturals, Sequences, SequencesExt

CONSTANT kernel_speeds   \* speeds the kernel may list, in the order it lists them

Unknown == "Unknown"
NotNegotiated == "Not_Negotiated"

\* Slip: the table is in order of speed, not in the kernel's order.
BySpeed == <<Unknown, "1", "2", "4", "8", "10", "16", "20", "32", "40", NotNegotiated>>

port_speeds_table ==
  <<Unknown, "1", "2", "4", "10", "8", "16", "32", "20", "40", NotNegotiated>>

ASSUME SpeedAssumption ==
  /\ kernel_speeds \in Seq(STRING)
  /\ IsInjective(kernel_speeds)
  /\ {Unknown, NotNegotiated} \cap ToSet(kernel_speeds) = {}

VARIABLES
  spc,   \* "idle", "parse" or "done"
  line,  \* the line of the file, and then the line that was read
  kp,    \* kernel: the place in kernel_speeds of the speed listed last
  cp,    \* the name that is parsed next
  tp,    \* place in port_speeds_table
  val    \* the speeds found

speedVars == <<spc, line, kp, cp, tp, val>>

SpeedInit ==
  /\ spc = "idle"
  /\ line = <<>>
  /\ kp = 0
  /\ cp = 1
  /\ tp = 1
  /\ val = {}

\* The kernel writes the line: it goes through its table of speeds and lists
\* those that the port has.
KernelLists ==
  /\ spc = "idle"
  /\ \E k \in kp + 1 .. Len(kernel_speeds) :
       kp' = k /\ line' = Append(line, kernel_speeds[k])
  /\ UNCHANGED <<spc, cp, tp, val>>

\* The file is read, or fails to be (<<>>).  Without a speed the kernel prints one
\* of two words.  A line with Unknown in it is not parsed.
Read ==
  /\ spc = "idle"
  /\ \/ line' \in {line, <<>>}
     \/ line = <<>> /\ line' \in {<<Unknown>>, <<NotNegotiated>>}
  /\ spc' = IF Contains(line', Unknown) THEN "done" ELSE "parse"
  /\ UNCHANGED <<kp, cp, tp, val>>

\* Places, from the current one on, where the table has the name.
matches(name) ==
  {k \in tp .. Len(port_speeds_table) : port_speeds_table[k] = name}

\* The name is found further on in the table.
Found ==
  /\ spc = "parse" /\ cp <= Len(line)
  /\ \E k \in matches(line[cp]) :
       tp' = k /\ val' = val \cup {port_speeds_table[k]}
  /\ cp' = cp + 1
  /\ UNCHANGED <<spc, line, kp>>

\* The line ends, or the table does: then the rest of the line is left.
Stop ==
  /\ spc = "parse"
  /\ IF cp <= Len(line)
     THEN matches(line[cp]) = {} /\ tp' = Len(port_speeds_table) + 1
     ELSE tp' = tp
  /\ spc' = "done"
  /\ UNCHANGED <<line, kp, cp, val>>

SpeedReturn ==
  /\ spc = "done"
  /\ spc' = "idle"
  /\ line' = <<>>
  /\ kp' = 0
  /\ cp' = 1
  /\ tp' = 1
  /\ val' = {}

SpeedNext == KernelLists \/ Read \/ Found \/ Stop \/ SpeedReturn

SpeedSpec == SpeedInit /\ [][SpeedNext]_speedVars

----------------------------------------------------------------------------
(* Properties *)

\* Whatever a line lists is in the result, and nothing else, though the table
\* is passed through once only for the whole line; a line with Unknown in it
\* gives no speed.  Speeds the library does not know are left out.
AllSpeedsRead ==
  spc = "done" =>
    val = IF Contains(line, Unknown) THEN {}
          ELSE ToSet(line) \cap ToSet(port_speeds_table)

\* In the table, x comes before y.
Before(x, y) ==
  \E m, n \in 1 .. Len(port_speeds_table) :
    m < n /\ port_speeds_table[m] = x /\ port_speeds_table[n] = y

\* The table is in the order of the kernel's own, in which the speeds that the
\* library does not know come last.  Without it speeds would be lost.
KernelOrder ==
  \A i, j \in 1 .. Len(kernel_speeds) :
    i < j /\ kernel_speeds[j] \in ToSet(port_speeds_table) =>
      Before(kernel_speeds[i], kernel_speeds[j])

============================================================================
