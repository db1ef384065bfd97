----------------------------- MODULE RportCache -----------------------------
(***************************************************************************)
(* The cache of discovered remote ports (rport.c).                         *)
(*                                                                         *)
(* The first call that needs remote ports reads the kernel's directory of  *)
(* them into one table for the whole library, rports_table.  Every call    *)
(* for a local port then walks that table and moves the remote ports of    *)
(* its host into the port's own table, ap_rports, indexed by the kernel's  *)
(* number.  Meanwhile the kernel adds and removes remote ports, memory     *)
(* runs out, and attribute files cannot be read.                           *)
(*                                                                         *)
(* Calls do not overlap: the tables have no lock and the common HBA-API    *)
(* library, which calls this one, serialises the calls.                    *)
(*                                                                         *)
(* A remote port is named by the three numbers of its directory entry      *)
(* rport-<hba>:<chan>-<num>.  The kernel never uses a number twice on one  *)
(* host, so the name also stands for the struct port_info made from it.    *)
(***************************************************************************)
EXTENDS SaTable

CONSTANTS
  Rport,   \* the remote ports there can be: records [hba, chan, num]
  Port     \* the local ports: records with a field hba

ASSUME RportAssumption == Rport \subseteq [hba : Nat, chan : Nat, num : Nat]
ASSUME PortAssumption ==
  /\ \A p \in Port : p.hba \in Nat
  /\ NULL \notin Port \cup Rport

VARIABLES
  kern,           \* the kernel's view of each remote port
  rports_table,   \* every remote port read from the directory
  ap_adapt,       \* who claimed each remote port, NULL if nobody did
  ap_rports,      \* per local port, its remote ports by number
  pc,             \* where the call in progress is
  cur,            \* the local port it is for
  todo,           \* directory entries still to be read
  ri,             \* index of the walk over rports_table
  expected,       \* auxiliary: the remote ports the scan should have found
  unseen,         \* auxiliary: entries a scan that ran out of memory never read
  served          \* auxiliary: ports answered from a filled cache

cacheVars == <<rports_table, ap_adapt, ap_rports>>
callVars  == <<pc, cur, todo, ri, served>>
auxVars   == <<expected, unseen>>
vars      == <<kern, cacheVars, callVars, auxVars>>

present == {r \in Rport : kern[r] = "present"}

\* Every local port has index 0 on its host: one port per adapter.
ap_index(p) == 0

Init ==
  /\ kern \in [Rport -> {"absent", "present"}]
  /\ rports_table = sa_table_init
  /\ ap_adapt = [r \in Rport |-> NULL]
  /\ ap_rports = [p \in Port |-> sa_table_init]
  /\ pc = "idle"
  /\ cur = NULL
  /\ todo = {}
  /\ ri = 0
  /\ expected = {}
  /\ unseen = {}
  /\ served = {}

----------------------------------------------------------------------------
(* The kernel *)

\* A remote port logs in.  A directory read in progress may or may not
\* return its entry.
HotPlug(r) ==
  /\ kern[r] = "absent"
  /\ kern' = [kern EXCEPT ![r] = "present"]
  /\ \/ pc = "scan" /\ todo' = todo \cup {r}
     \/ UNCHANGED todo
  /\ UNCHANGED <<cacheVars, pc, cur, ri, served, auxVars>>

\* A remote port goes away for good.  A directory read in progress may still
\* return its entry.
Unplug(r) ==
  /\ kern[r] = "present"
  /\ kern' = [kern EXCEPT ![r] = "gone"]
  /\ todo' \in {todo, todo \ {r}}
  /\ expected' = IF pc = "scan" THEN expected \ {r} ELSE expected
  /\ UNCHANGED <<cacheVars, pc, cur, ri, served, unseen>>

----------------------------------------------------------------------------
(* get_rport_info *)

\* Slip: the guard on the cache is lost.
ScanAlways == TRUE

\* The directory is read only while nothing was ever put in the table.
ScanNeeded == rports_table.st_size = 0

\* A call for port p enters get_rport_info.  opendir may fail.
Call(p) ==
  /\ pc = "idle"
  /\ cur' = p
  /\ ri' = 0
  /\ IF ScanNeeded
     THEN /\ pc' = "scan"
          /\ todo' \in {present, {}}
          /\ expected' = todo'
          /\ unseen' = {}
     ELSE /\ pc' = "claim"
          /\ UNCHANGED <<todo, auxVars>>
  /\ UNCHANGED <<kern, cacheVars, served>>

\* Slip: the error of one entry is returned to sa_dir_read.
DropStopsScan(r) ==
  /\ pc = "scan"
  /\ r \in todo
  /\ todo' = {}
  /\ expected' = expected \ {r}
  /\ UNCHANGED <<kern, cacheVars, pc, cur, ri, served, unseen>>

\* sysfs_get_rport cannot read an attribute, or cannot append: the entry is
\* dropped and the directory read goes on.
DropEntry(r) ==
  /\ pc = "scan"
  /\ r \in todo
  /\ todo' = todo \ {r}
  /\ expected' = expected \ {r}
  /\ UNCHANGED <<kern, cacheVars, pc, cur, ri, served, unseen>>

\* sysfs_get_rport cannot allocate the remote port: it returns ENOMEM, which
\* ends the directory read with the other entries unread.
NoMemory(r) ==
  /\ pc = "scan"
  /\ r \in todo
  /\ pc' = "claim"
  /\ todo' = {}
  /\ expected' = expected \ {r}
  /\ unseen' = todo \ {r}
  /\ UNCHANGED <<kern, cacheVars, cur, ri, served>>

\* sysfs_get_rport reads the entry of a remote port that is there and appends
\* a fresh object for it.
AddEntry(r) ==
  /\ pc = "scan"
  /\ r \in todo
  /\ kern[r] = "present"
  /\ todo' = todo \ {r}
  /\ \E ok \in BOOLEAN :
       LET res == sa_table_append(rports_table, r, ok)
       IN  res.rc # -1 /\ rports_table' = res.tp
  /\ ap_adapt' = [ap_adapt EXCEPT ![r] = NULL]
  /\ UNCHANGED <<kern, ap_rports, pc, cur, ri, served, auxVars>>

\* The end of the directory.
CloseDir ==
  /\ pc = "scan"
  /\ todo = {}
  /\ pc' = "claim"
  /\ UNCHANGED <<kern, cacheVars, cur, todo, ri, served, auxVars>>

\* Slip: the channel is not compared.
MatchesHost(r, p) == r.hba = p.hba

\* The remote port was reached through this local port.
Matches(r, p) == r.hba = p.hba /\ r.chan = ap_index(p)

\* Slip: the remote port goes to the end of the port's table.
InsertAtEnd(r, ok) == sa_table_append(ap_rports[cur], r, ok)

InsertAtNumber(r, ok) == sa_table_insert(ap_rports[cur], r.num, r, ok)

Claimable(r) == r # NULL /\ Matches(r, cur) /\ ap_adapt[r] = NULL

\* The remote port is marked as claimed before it is inserted, and the result
\* of the insert is ignored.
Claim(r) ==
  /\ ap_adapt' = [ap_adapt EXCEPT ![r] = cur]
  /\ \E ok \in BOOLEAN :
       LET res == InsertAtNumber(r, ok)
       IN  /\ ap_rports' = [ap_rports EXCEPT ![cur] = res.tp]
           /\ expected' = IF res.rc = -1 THEN expected \ {r} ELSE expected

\* The object under the walk, which runs over every allocated slot.
walked == sa_table_lookup(rports_table, ri)

\* Slip: one turn too many.
WalkingPastEnd == pc = "claim" /\ ri <= rports_table.st_size

Walking == pc = "claim" /\ ri < rports_table.st_size

\* Slip: the walk goes on only from a claim.
AdvanceOnClaim == ri' = IF Claimable(walked) THEN ri + 1 ELSE ri

Advance == ri' = ri + 1

\* One turn of the loop.
WalkStep ==
  /\ Walking
  /\ \/ Claimable(walked) /\ Claim(walked)
     \/ ~Claimable(walked) /\ UNCHANGED <<ap_adapt, ap_rports, expected>>
  /\ Advance
  /\ UNCHANGED <<kern, rports_table, pc, cur, todo, served, unseen>>

Return ==
  /\ pc = "claim"
  /\ ri >= rports_table.st_size
  /\ pc' = "idle"
  /\ cur' = NULL
  /\ ri' = 0
  /\ served' = IF rports_table.st_size > 0 THEN served \cup {cur} ELSE served
  /\ UNCHANGED <<kern, cacheVars, todo, auxVars>>

----------------------------------------------------------------------------

ReadEntry == \E r \in Rport : DropEntry(r) \/ NoMemory(r) \/ AddEntry(r)

\* The steps of a call once it has begun.
Step == ReadEntry \/ CloseDir \/ WalkStep \/ Return

Kernel == \E r \in Rport : HotPlug(r) \/ Unplug(r)

Next ==
  \/ Kernel
  \/ \E p \in Port : Call(p)
  \/ Step

\* A call that has begun keeps running; nobody has to call, and the kernel
\* owes nothing.
Fairness == WF_vars(Step)

Spec == Init /\ [][Next]_vars /\ Fairness

----------------------------------------------------------------------------
(* Properties *)

\* Types.  The index of the walk stays within the allocated slots.
TypeOK ==
  /\ kern \in [Rport -> {"absent", "present", "gone"}]
  /\ IsTable(rports_table, Rport)
  /\ ap_adapt \in [Rport -> Port \cup {NULL}]
  /\ DOMAIN ap_rports = Port
  /\ \A p \in Port : IsTable(ap_rports[p], Rport)
  /\ pc \in {"idle", "scan", "claim"}
  /\ cur \in Port \cup {NULL}
  /\ (cur = NULL) <=> (pc = "idle")
  /\ todo \subseteq Rport
  /\ ri \in 0 .. rports_table.st_size
  /\ expected \subseteq Rport
  /\ unseen \subseteq Rport
  /\ served \subseteq Port

\* A remote port is in the library's table at most once, although a call may
\* read the directory again after a scan that found nothing and a remote port
\* may be read right after it appeared.
NoDuplicates ==
  \A i, j \in UsedSlots(rports_table) :
    rports_table.st_table[i] = rports_table.st_table[j] => i = j

\* A remote port in a port's table was reached through that port, sits at its
\* own number, and was claimed by that port and so by no other.
Ownership ==
  \A p \in Port : \A i \in UsedSlots(ap_rports[p]) :
    LET r == ap_rports[p].st_table[i]
    IN  /\ r.num = i
        /\ Matches(r, p)
        /\ ap_adapt[r] = p
        /\ r \in Entries(rports_table)

\* The message "discovered port exists" of get_rport_info is never printed:
\* no claim overwrites a slot.
SlotFree ==
  Walking /\ Claimable(walked) =>
    sa_table_lookup(ap_rports[cur], walked.num) = NULL

\* The remote ports a call gets to: those the scan should have found, but for
\* the entries it never read because memory ran out at an earlier one.
owed == expected \ unseen

\* What becomes, once a call for a port has returned from a filled cache, of a
\* remote port of its host that stayed in the directory during the scan and
\* met no error of its own.  An entry that cannot be read, or not appended,
\* hides no other: the remote port is in the table of the port that claimed
\* it.  An entry that cannot be allocated hides every entry behind it, and for
\* good: those remote ports are in no table, now or after any later call.
Delivered ==
  \A p \in served : \A r \in expected :
    Matches(r, p) =>
      IF r \in unseen
      THEN r \notin Entries(rports_table)
      ELSE ap_adapt[r] # NULL /\ r \in Entries(ap_rports[ap_adapt[r]])

\* Callers enumerate the remote ports of a port by position, one call per
\* position (adapter_get_rport_n), so the table of a port that was answered
\* once must not change between two calls.
EnumerationStable ==
  [][\A p \in served : UNCHANGED ap_rports[p]]_vars

\* A call returns, even when remote ports keep appearing while the directory
\* is read.
CallReturns == (pc # "idle") ~> (pc = "idle")


----------------------------------------------------------------------------
(* The inductive invariant of the proofs *)

\* The tails of the tables are null (TailIsNull of TableMachine).
TablesClean ==
  /\ IsClean(rports_table)
  /\ \A p \in Port : IsClean(ap_rports[p])

\* Remote ports appear once: those in the table and those still to be read
\* are different, neither can appear again, and what a scan left unread stays
\* out of the table as long as there is one.
ReadOnce ==
  /\ \A r \in todo : kern[r] # "absent" /\ r \notin Entries(rports_table)
  /\ \A r \in Entries(rports_table) : kern[r] # "absent"
  /\ pc # "scan" => todo = {}
  /\ pc = "scan" => unseen = {}
  /\ unseen \cap Entries(rports_table) = {}

\* Only a remote port of the table can be claimed, and it is owed only if it
\* is, or may still come to be, in the table and with its owner.
OwedClaims ==
  /\ \A r \in Rport \ Entries(rports_table) : ap_adapt[r] = NULL
  /\ owed \subseteq Entries(rports_table) \cup todo
  /\ \A r \in owed :
       ap_adapt[r] # NULL => r \in Entries(ap_rports[ap_adapt[r]])

\* The walk leaves nothing of its port unclaimed behind it.
WalkedClaimed ==
  /\ pc # "claim" => ri = 0
  /\ pc = "claim" =>
       \A i \in 0 .. ri - 1 :
         LET r == sa_table_lookup(rports_table, i)
         IN  r # NULL /\ Matches(r, cur) => ap_adapt[r] # NULL

\* A port that was answered from a filled cache has nothing left to claim,
\* and the directory is not read again.
ServedClaimed ==
  /\ served # {} => rports_table.st_size > 0 /\ pc # "scan"
  /\ \A p \in served : \A r \in Entries(rports_table) :
       Matches(r, p) => ap_adapt[r] # NULL

CacheInv ==
  /\ TypeOK
  /\ TablesClean
  /\ NoDuplicates
  /\ Ownership
  /\ ReadOnce
  /\ OwedClaims
  /\ WalkedClaimed
  /\ ServedClaimed

============================================================================
