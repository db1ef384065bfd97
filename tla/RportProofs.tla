---------------------------- MODULE RportProofs ----------------------------
(***************************************************************************)
(* Theorems about the cache of remote ports, for every set of remote ports *)
(* and of local ports, every growth step, every order of kernel events and *)
(* every failing allocation.                                               *)
(***************************************************************************)
EXTENDS RportCache, SaTableProofs, TLAPS

\* The library starts with an empty cache.
LEMMA CacheInit == Init => CacheInv
<1> SUFFICES ASSUME Init PROVE CacheInv
  OBVIOUS
<1>1. /\ IsTable(sa_table_init, Rport) /\ IsClean(sa_table_init)
      /\ Entries(sa_table_init) = {} /\ UsedSlots(sa_table_init) = {}
      /\ sa_table_init.st_size = 0
  BY InitIsTable, InitEntries DEF sa_table_init, UsedSlots
<1>2. rports_table.st_size = 0
  BY <1>1 DEF Init
<1>3. TypeOK
  BY <1>1, <1>2 DEF Init, TypeOK
<1>4. TablesClean /\ NoDuplicates /\ Ownership
  BY <1>1 DEF Init, TablesClean, NoDuplicates, Ownership
<1>5. ReadOnce /\ OwedClaims /\ WalkedClaimed /\ ServedClaimed
  BY <1>1 DEF Init, ReadOnce, OwedClaims, owed, WalkedClaimed, ServedClaimed
<1> QED
  BY <1>3, <1>4, <1>5 DEF CacheInv

\* The parts of the invariant that speak of the tables alone survive a step
\* that changes no table.
LEMMA TablesUnchanged ==
  ASSUME CacheInv, UNCHANGED cacheVars
  PROVE  TablesClean' /\ NoDuplicates' /\ Ownership'
BY DEF CacheInv, TablesClean, NoDuplicates, Ownership, cacheVars

\* Kernel events change no table: a remote port that appears was never read,
\* and one that goes is no longer owed by a scan in progress.
LEMMA KernelPreserves ==
  ASSUME CacheInv, NEW r \in Rport, HotPlug(r) \/ Unplug(r)
  PROVE  CacheInv'
<1>1. TablesClean' /\ NoDuplicates' /\ Ownership'
  BY TablesUnchanged DEF HotPlug, Unplug
<1>2. CASE HotPlug(r)
  <2>1. TypeOK'
    BY <1>2 DEF HotPlug, CacheInv, TypeOK, cacheVars, auxVars
  <2>2. ReadOnce'
    BY <1>2 DEF HotPlug, CacheInv, TypeOK, ReadOnce, cacheVars, auxVars
  <2>3. OwedClaims' /\ WalkedClaimed' /\ ServedClaimed'
    BY <1>2 DEF HotPlug, CacheInv, OwedClaims, owed, WalkedClaimed,
                ServedClaimed, cacheVars, auxVars
  <2> QED
    BY <1>1, <2>1, <2>2, <2>3 DEF CacheInv
<1>3. CASE Unplug(r)
  <2>1. TypeOK'
    BY <1>3 DEF Unplug, CacheInv, TypeOK, cacheVars
  <2>2. ReadOnce'
    BY <1>3 DEF Unplug, CacheInv, TypeOK, ReadOnce, cacheVars
  <2>3. OwedClaims'
    BY <1>3 DEF Unplug, CacheInv, ReadOnce, OwedClaims, owed, cacheVars
  <2>4. WalkedClaimed' /\ ServedClaimed'
    BY <1>3 DEF Unplug, CacheInv, WalkedClaimed, ServedClaimed, cacheVars
  <2> QED
    BY <1>1, <2>1, <2>2, <2>3, <2>4 DEF CacheInv
<1> QED
  BY <1>2, <1>3

\* A call reads the directory only while the table has no slots, and so no
\* entries.
LEMMA CallPreserves ==
  ASSUME CacheInv, NEW p \in Port, Call(p)
  PROVE  CacheInv'
<1>1. TablesClean' /\ NoDuplicates' /\ Ownership'
  BY TablesUnchanged DEF Call
<1>2. rports_table.st_size = 0 => Entries(rports_table) = {}
  BY DEF CacheInv, TypeOK, IsTable, Entries, UsedSlots
<1>3. TypeOK'
  BY PortAssumption
  DEF Call, CacheInv, TypeOK, IsTable, cacheVars, auxVars, present
<1>4. ReadOnce'
  BY <1>2
  DEF Call, ScanNeeded, CacheInv, TypeOK, ReadOnce, cacheVars, auxVars, present
<1>5. OwedClaims'
  <2>1. CASE ScanNeeded
    <3>1. /\ expected' = todo' /\ todo' \subseteq Rport /\ unseen' = {}
          /\ Entries(rports_table) = {}
      BY <1>2, <2>1 DEF Call, ScanNeeded, present
    <3>2. \A r \in Rport : ap_adapt'[r] = NULL
      BY <3>1 DEF Call, CacheInv, OwedClaims, cacheVars
    <3> QED
      BY <3>1, <3>2 DEF Call, OwedClaims, owed, cacheVars
  <2>2. CASE ~ScanNeeded
    BY <2>2 DEF Call, CacheInv, OwedClaims, owed, cacheVars, auxVars
  <2> QED
    BY <2>1, <2>2
<1>6. WalkedClaimed'
  BY DEF Call, CacheInv, WalkedClaimed, cacheVars
<1>7. ServedClaimed'
  BY DEF Call, ScanNeeded, CacheInv, TypeOK, IsTable, ServedClaimed, cacheVars
<1> QED
  BY <1>1, <1>3, <1>4, <1>5, <1>6, <1>7 DEF CacheInv

\* An entry that fails is owed no longer, and neither are those behind it when
\* memory runs out; then the walk begins at once.
LEMMA DropPreserves ==
  ASSUME CacheInv, NEW r \in Rport, DropEntry(r) \/ NoMemory(r)
  PROVE  CacheInv'
<1>1. TablesClean' /\ NoDuplicates' /\ Ownership'
  BY TablesUnchanged DEF DropEntry, NoMemory
<1>2. TypeOK'
  BY DEF DropEntry, NoMemory, CacheInv, TypeOK, cacheVars
<1>3. ReadOnce'
  BY DEF DropEntry, NoMemory, CacheInv, ReadOnce, cacheVars
<1>4. OwedClaims'
  <2>1. owed' \subseteq owed \ (todo \ todo')
    BY DEF DropEntry, NoMemory, CacheInv, ReadOnce, owed
  <2> QED
    BY <2>1 DEF DropEntry, NoMemory, CacheInv, OwedClaims, cacheVars
<1>5. WalkedClaimed' /\ ServedClaimed'
  BY DEF DropEntry, NoMemory, CacheInv, WalkedClaimed, ServedClaimed, cacheVars
<1> QED
  BY <1>1, <1>2, <1>3, <1>4, <1>5 DEF CacheInv

\* The end of the directory starts the walk.
LEMMA ClosePreserves ==
  ASSUME CacheInv, CloseDir
  PROVE  CacheInv'
<1>1. TablesClean' /\ NoDuplicates' /\ Ownership'
  BY TablesUnchanged DEF CloseDir
<1>2. TypeOK'
  BY DEF CloseDir, CacheInv, TypeOK, cacheVars, auxVars
<1>3. ReadOnce' /\ OwedClaims' /\ WalkedClaimed' /\ ServedClaimed'
  BY DEF CloseDir, CacheInv, ReadOnce, OwedClaims, owed, WalkedClaimed,
         ServedClaimed, cacheVars, auxVars
<1> QED
  BY <1>1, <1>2, <1>3 DEF CacheInv

\* When the walk is over, everything of its port is claimed.
LEMMA ReturnPreserves ==
  ASSUME CacheInv, Return
  PROVE  CacheInv'
<1>1. TablesClean' /\ NoDuplicates' /\ Ownership'
  BY TablesUnchanged DEF Return
<1>2. TypeOK'
  BY PortAssumption DEF Return, CacheInv, TypeOK, IsTable, cacheVars, auxVars
<1>3. ReadOnce' /\ OwedClaims' /\ WalkedClaimed'
  BY DEF Return, CacheInv, ReadOnce, OwedClaims, owed, WalkedClaimed, cacheVars,
         auxVars
<1>4. ASSUME NEW r \in Entries(rports_table), Matches(r, cur)
      PROVE  ap_adapt[r] # NULL
  <2>1. PICK i \in UsedSlots(rports_table) : r = rports_table.st_table[i]
    BY <1>4 DEF Entries
  <2>2. IsTable(rports_table, Rport)
    BY DEF CacheInv, TypeOK
  <2>3. /\ i \in 0 .. ri - 1
        /\ sa_table_lookup(rports_table, i) = r
        /\ r # NULL
    BY <2>1, <2>2 DEF Return, CacheInv, TypeOK, IsTable, UsedSlots,
                      sa_table_lookup
  <2> QED
    BY <1>4, <2>3 DEF Return, CacheInv, WalkedClaimed
<1>5. ServedClaimed'
  BY <1>4 DEF Return, CacheInv, TypeOK, IsTable, ServedClaimed, cacheVars
<1> QED
  BY <1>1, <1>2, <1>3, <1>5 DEF CacheInv

\* The entry just read is new to the table, so nobody has claimed it.
LEMMA AddPreserves ==
  ASSUME CacheInv, NEW r \in Rport, AddEntry(r)
  PROVE  CacheInv'
<1> PICK ok \in BOOLEAN :
      LET res == sa_table_append(rports_table, r, ok)
      IN  res.rc # -1 /\ rports_table' = res.tp
  BY DEF AddEntry
<1> DEFINE t == sa_table_append(rports_table, r, ok).tp
           n == rports_table.st_limit
<1>0. /\ IsTable(rports_table, Rport) /\ IsClean(rports_table)
      /\ NULL \notin Rport /\ pc = "scan" /\ n \in Nat
      /\ r \notin Entries(rports_table) /\ r \in todo /\ kern[r] = "present"
      /\ ap_adapt[r] = NULL
  BY PortAssumption DEF CacheInv, TypeOK, TablesClean, ReadOnce, OwedClaims,
                        AddEntry, IsTable
<1>1. /\ IsTable(t, Rport)
      /\ IsClean(t)
      /\ Entries(t) = Entries(rports_table) \cup {r}
      /\ \A j \in Nat : sa_table_lookup(t, j) =
           IF j = n THEN r ELSE sa_table_lookup(rports_table, j)
  BY <1>0, AppendSafe
<1> HIDE DEF t
<1>2. /\ rports_table' = t
      /\ ap_adapt' = ap_adapt
      /\ UNCHANGED <<kern, ap_rports, pc, cur, ri, served, expected, unseen>>
      /\ todo' = todo \ {r}
  BY <1>0 DEF AddEntry, CacheInv, TypeOK, auxVars, t
<1>3. TypeOK'
  <2>1. ri = 0 /\ t.st_size \in Nat
    BY <1>0, <1>1 DEF CacheInv, WalkedClaimed, IsTable
  <2> QED
    BY <1>1, <1>2, <2>1 DEF CacheInv, TypeOK
<1>4. TablesClean'
  BY <1>1, <1>2 DEF CacheInv, TablesClean
<1>5. NoDuplicates'
  <2> SUFFICES ASSUME NEW i \in UsedSlots(t), NEW j \in UsedSlots(t),
                      t.st_table[i] = t.st_table[j]
               PROVE  i = j
    BY <1>2 DEF NoDuplicates
  <2>1. /\ i \in Nat /\ j \in Nat
        /\ sa_table_lookup(t, i) = sa_table_lookup(t, j)
        /\ sa_table_lookup(t, i) # NULL /\ sa_table_lookup(t, j) # NULL
    BY <1>1, UsedLookup
  <2>2. \A k \in Nat : sa_table_lookup(rports_table, k) # r
    BY <1>0, EntriesLookup
  <2>3. CASE i = n \/ j = n
    BY <1>1, <2>1, <2>2, <2>3
  <2>4. CASE i # n /\ j # n
    <3>1. /\ sa_table_lookup(rports_table, i) = sa_table_lookup(rports_table, j)
          /\ sa_table_lookup(rports_table, i) # NULL
      BY <1>1, <2>1, <2>4
    <3>2. /\ i \in UsedSlots(rports_table) /\ j \in UsedSlots(rports_table)
          /\ rports_table.st_table[i] = rports_table.st_table[j]
      BY <1>0, <2>1, <3>1, UsedLookup
    <3> QED
      BY <3>2 DEF CacheInv, NoDuplicates
  <2> QED
    BY <2>3, <2>4
<1>6. Ownership'
  BY <1>1, <1>2 DEF CacheInv, Ownership
<1>7. ReadOnce'
  BY <1>0, <1>1, <1>2 DEF CacheInv, ReadOnce
<1>8. OwedClaims'
  BY <1>0, <1>1, <1>2 DEF CacheInv, OwedClaims, owed
<1>9. WalkedClaimed'
  BY <1>0, <1>2 DEF CacheInv, WalkedClaimed
<1>10. ServedClaimed'
  BY <1>0, <1>2 DEF CacheInv, ServedClaimed
<1> QED
  BY <1>3, <1>4, <1>5, <1>6, <1>7, <1>8, <1>9, <1>10 DEF CacheInv

\* A claim never finds its slot taken: the object in it would be the same
\* remote port, and claimed.
LEMMA ClaimFindsSlotFree ==
  ASSUME CacheInv, Walking, Claimable(walked)
  PROVE  /\ walked \in Entries(rports_table) /\ walked \in Rport
         /\ cur \in Port
         /\ sa_table_lookup(ap_rports[cur], walked.num) = NULL
<1>1. /\ IsTable(rports_table, Rport) /\ ri \in Nat /\ cur \in Port
      /\ IsTable(ap_rports[cur], Rport)
  BY DEF CacheInv, TypeOK, Walking, IsTable
<1>2. walked \in Rport /\ walked \in Entries(rports_table)
  BY <1>1, LookupType, EntriesLookup DEF Claimable, walked
<1>3. walked \in [hba : Nat, chan : Nat, num : Nat]
  BY <1>2, RportAssumption
<1>4. ASSUME sa_table_lookup(ap_rports[cur], walked.num) # NULL
      PROVE  FALSE
  <2> DEFINE s == sa_table_lookup(ap_rports[cur], walked.num)
  <2>1. /\ walked.num \in UsedSlots(ap_rports[cur])
        /\ s = ap_rports[cur].st_table[walked.num]
        /\ s \in Rport
    BY <1>1, <1>3, <1>4, UsedLookup, LookupType
  <2>2. s.num = walked.num /\ Matches(s, cur) /\ ap_adapt[s] = cur
    BY <1>1, <2>1 DEF CacheInv, Ownership
  <2>3. s \in [hba : Nat, chan : Nat, num : Nat]
    BY <2>1, RportAssumption
  <2> HIDE DEF s
  <2>4. s = walked
    BY <1>3, <2>2, <2>3 DEF Claimable, Matches
  <2> QED
    BY <1>1, <2>2, <2>4, PortAssumption DEF Claimable
<1> QED
  BY <1>1, <1>2, <1>4

\* A turn of the walk that claims nothing.
LEMMA SkipPreserves ==
  ASSUME CacheInv, WalkStep, ~Claimable(walked)
  PROVE  CacheInv'
<1>0. /\ UNCHANGED <<kern, cacheVars, pc, cur, todo, served, expected, unseen>>
      /\ Walking /\ ri' = ri + 1
  BY DEF WalkStep, Advance, cacheVars
<1>1. TablesClean' /\ NoDuplicates' /\ Ownership'
  BY <1>0, TablesUnchanged
<1>2. TypeOK'
  BY <1>0 DEF CacheInv, TypeOK, IsTable, cacheVars, Walking
<1>3. ReadOnce' /\ OwedClaims' /\ ServedClaimed'
  BY <1>0 DEF CacheInv, ReadOnce, OwedClaims, owed, ServedClaimed, cacheVars
<1>4. WalkedClaimed'
  <2>1. ri \in Nat
    BY DEF CacheInv, TypeOK, IsTable
  <2>2. ASSUME NEW i \in 0 .. ri,
               LET r == sa_table_lookup(rports_table, i)
               IN  r # NULL /\ Matches(r, cur)
        PROVE  ap_adapt[sa_table_lookup(rports_table, i)] # NULL
    BY <1>0, <2>1, <2>2 DEF CacheInv, WalkedClaimed, Walking, Claimable, walked
  <2> QED
    BY <1>0, <2>1, <2>2 DEF WalkedClaimed, Walking, cacheVars
<1> QED
  BY <1>1, <1>2, <1>3, <1>4 DEF CacheInv

\* A turn of the walk that claims: the remote port goes to a free slot, or is
\* owed no longer.
LEMMA ClaimPreserves ==
  ASSUME CacheInv, WalkStep, Claimable(walked)
  PROVE  CacheInv'
<1> DEFINE r == walked
<1>0. /\ r \in Entries(rports_table) /\ r \in Rport /\ cur \in Port
      /\ sa_table_lookup(ap_rports[cur], r.num) = NULL
      /\ r.num \in Nat /\ NULL \notin Rport /\ cur # NULL /\ Matches(r, cur)
      /\ ap_adapt[r] = NULL /\ ri \in Nat /\ IsTable(rports_table, Rport)
      /\ IsTable(ap_rports[cur], Rport) /\ IsClean(ap_rports[cur])
      /\ pc = "claim"
  BY ClaimFindsSlotFree, RportAssumption, PortAssumption
  DEF WalkStep, Walking, Claimable, CacheInv, TypeOK, TablesClean, IsTable
<1> PICK ok \in BOOLEAN :
      LET res == sa_table_insert(ap_rports[cur], r.num, r, ok)
      IN  /\ ap_rports' = [ap_rports EXCEPT ![cur] = res.tp]
          /\ expected' = IF res.rc = -1 THEN expected \ {r} ELSE expected
  BY DEF WalkStep, Claim, InsertAtNumber
<1> DEFINE res == sa_table_insert(ap_rports[cur], r.num, r, ok)
           t   == res.tp
<1>1. /\ UNCHANGED <<kern, rports_table, pc, cur, todo, served, unseen>>
      /\ ri' = ri + 1 /\ ri < rports_table.st_size
      /\ ap_adapt' = [ap_adapt EXCEPT ![r] = cur]
      /\ ap_rports' = [ap_rports EXCEPT ![cur] = t]
      /\ expected' \subseteq expected
      /\ res.rc = -1 => r \notin expected'
  BY DEF WalkStep, Claim, Advance, Walking
<1>2. /\ IsTable(t, Rport) /\ IsClean(t)
      /\ \/ res.rc = -1 /\ t = ap_rports[cur]
         \/ /\ res.rc # -1
            /\ \A j \in Nat : sa_table_lookup(t, j) =
                 IF j = r.num THEN r ELSE sa_table_lookup(ap_rports[cur], j)
  BY <1>0, InsertSafe
<1>3. res.rc # -1 => Entries(t) = Entries(ap_rports[cur]) \cup {r}
  BY <1>0, InsertFree
<1> HIDE DEF r, res, t
<1>4. TypeOK'
  <2>1. ri' \in 0 .. rports_table'.st_size
    BY <1>0, <1>1 DEF IsTable
  <2>2. \A p \in Port : IsTable(ap_rports'[p], Rport)
    BY <1>1, <1>2 DEF CacheInv, TypeOK
  <2>3. ap_adapt' \in [Rport -> Port \cup {NULL}]
    BY <1>0, <1>1 DEF CacheInv, TypeOK
  <2> QED
    BY <1>1, <2>1, <2>2, <2>3 DEF CacheInv, TypeOK
<1>5. TablesClean'
  BY <1>1, <1>2 DEF CacheInv, TypeOK, TablesClean
<1>6. NoDuplicates' /\ ReadOnce'
  BY <1>0, <1>1 DEF CacheInv, NoDuplicates, ReadOnce
<1>7. Ownership'
  <2> SUFFICES ASSUME NEW p \in Port, NEW i \in UsedSlots(ap_rports'[p])
               PROVE  LET s == ap_rports'[p].st_table[i]
                      IN  /\ s.num = i
                          /\ Matches(s, p)
                          /\ ap_adapt'[s] = p
                          /\ s \in Entries(rports_table)
    BY <1>1 DEF Ownership, Matches, ap_index
  <2>1. CASE i \in UsedSlots(ap_rports[p])
             /\ ap_rports'[p].st_table[i] = ap_rports[p].st_table[i]
    <3> DEFINE s == ap_rports[p].st_table[i]
    <3>1. /\ s.num = i /\ Matches(s, p) /\ ap_adapt[s] = p
          /\ s \in Entries(rports_table)
      BY <2>1 DEF CacheInv, Ownership
    <3>2. s # r
      BY <1>0, <3>1, PortAssumption
    <3>3. ap_adapt'[s] = p
      <4> HIDE DEF s
      <4>1. s \in Rport
        <5>1. \A e : e \in Entries(rports_table) =>
                 e # NULL /\ \E k \in Nat : sa_table_lookup(rports_table, k) = e
          BY <1>0, EntriesLookup
        <5> QED
          BY <1>0, <3>1, <5>1, LookupType
      <4> QED
        BY <1>1, <3>1, <3>2, <4>1 DEF CacheInv, TypeOK
    <3> QED
      BY <2>1, <3>1, <3>3
  <2>2. CASE p # cur \/ res.rc = -1
    <3>1. ap_rports'[p] = ap_rports[p]
      BY <1>0, <1>1, <1>2, <2>2 DEF CacheInv, TypeOK
    <3> QED
      BY <2>1, <3>1
  <2>3. CASE p = cur /\ res.rc # -1
    <3>1. ap_rports'[p] = t
      BY <1>0, <1>1, <2>3 DEF CacheInv, TypeOK
    <3>2. /\ i \in Nat /\ t.st_table[i] = sa_table_lookup(t, i)
          /\ sa_table_lookup(t, i) # NULL
      BY <1>2, <3>1, UsedLookup
    <3>3. CASE i = r.num
      <4>1. ap_rports'[p].st_table[i] = r
        BY <1>0, <1>2, <2>3, <3>1, <3>2, <3>3
      <4>2. ap_adapt'[r] = cur
        BY <1>0, <1>1 DEF CacheInv, TypeOK
      <4> QED
        BY <1>0, <2>3, <3>3, <4>1, <4>2
    <3>4. CASE i # r.num
      <4>1. sa_table_lookup(t, i) = sa_table_lookup(ap_rports[cur], i)
        BY <1>2, <2>3, <3>2, <3>4
      <4>2. /\ i \in UsedSlots(ap_rports[cur])
            /\ ap_rports[cur].st_table[i] = sa_table_lookup(ap_rports[cur], i)
        BY <1>0, <3>2, <4>1, UsedLookup
      <4> QED
        BY <2>1, <2>3, <3>1, <3>2, <4>1, <4>2
    <3> QED
      BY <3>3, <3>4
  <2> QED
    BY <2>2, <2>3
<1>8. OwedClaims'
  <2>1. \A s \in Rport \ Entries(rports_table) : ap_adapt'[s] = NULL
    BY <1>0, <1>1 DEF CacheInv, TypeOK, OwedClaims
  <2>2. owed' \subseteq Entries(rports_table) \cup todo
    BY <1>1 DEF CacheInv, OwedClaims, owed
  <2>3. ASSUME NEW s \in owed', ap_adapt'[s] # NULL
        PROVE  s \in Entries(ap_rports'[ap_adapt'[s]])
    <3>1. s \in owed /\ s \in expected' /\ s \in Rport
      BY <1>1 DEF CacheInv, TypeOK, owed
    <3>2. CASE s = r
      <4>1. res.rc # -1 /\ ap_adapt'[s] = cur /\ ap_rports'[cur] = t
        BY <1>0, <1>1, <3>1, <3>2, <2>3 DEF CacheInv, TypeOK
      <4> QED
        BY <1>3, <3>2, <4>1
    <3>3. CASE s # r
      <4>1. ap_adapt'[s] = ap_adapt[s] /\ ap_adapt[s] \in Port
        BY <1>0, <1>1, <2>3, <3>1, <3>3 DEF CacheInv, TypeOK
      <4>2. s \in Entries(ap_rports[ap_adapt[s]])
        BY <2>3, <3>1, <4>1 DEF CacheInv, OwedClaims
      <4>3. CASE ap_adapt[s] = cur
        BY <1>0, <1>1, <1>2, <1>3, <4>1, <4>2, <4>3 DEF CacheInv, TypeOK
      <4>4. CASE ap_adapt[s] # cur
        BY <1>0, <1>1, <4>1, <4>2, <4>4 DEF CacheInv, TypeOK
      <4> QED
        BY <4>3, <4>4
    <3> QED
      BY <3>2, <3>3
  <2> QED
    BY <1>1, <2>1, <2>2, <2>3 DEF OwedClaims
<1>9. \A s \in Rport : ap_adapt[s] # NULL \/ s = r => ap_adapt'[s] # NULL
  BY <1>0, <1>1 DEF CacheInv, TypeOK
<1>10. \A s \in Entries(rports_table) : s \in Rport
  <2>1. \A e : e \in Entries(rports_table) =>
           e # NULL /\ \E k \in Nat : sa_table_lookup(rports_table, k) = e
    BY <1>0, EntriesLookup
  <2> QED
    BY <1>0, <2>1, LookupType
<1>11. WalkedClaimed'
  <2>1. ASSUME NEW i \in 0 .. ri,
               sa_table_lookup(rports_table, i) # NULL,
               Matches(sa_table_lookup(rports_table, i), cur)
        PROVE  ap_adapt'[sa_table_lookup(rports_table, i)] # NULL
    <3>1. sa_table_lookup(rports_table, i) \in Rport /\ i \in Nat
      BY <1>0, <2>1, LookupType
    <3>2. CASE i = ri
      BY <1>9, <3>1, <3>2 DEF r, walked
    <3>3. CASE i # ri
      <4>1. i \in 0 .. ri - 1
        BY <1>0, <3>3
      <4> QED
        BY <1>0, <1>9, <2>1, <3>1, <4>1 DEF CacheInv, WalkedClaimed
    <3> QED
      BY <3>2, <3>3
  <2> QED
    BY <1>0, <1>1, <2>1 DEF WalkedClaimed, Matches, ap_index
<1>12. ServedClaimed'
  BY <1>0, <1>1, <1>9, <1>10
  DEF CacheInv, ServedClaimed, Matches, ap_index
<1> QED
  BY <1>4, <1>5, <1>6, <1>7, <1>8, <1>11, <1>12 DEF CacheInv

----------------------------------------------------------------------------
(* The theorems *)

\* Every step of the cache keeps the invariant.
LEMMA StepPreserves == CacheInv /\ [Next]_vars => CacheInv'
<1> SUFFICES ASSUME CacheInv, [Next]_vars PROVE CacheInv'
  OBVIOUS
<1>1. CASE Kernel
  BY <1>1, KernelPreserves DEF Kernel
<1>2. CASE \E p \in Port : Call(p)
  BY <1>2, CallPreserves
<1>3. CASE ReadEntry
  BY <1>3, DropPreserves, AddPreserves DEF ReadEntry
<1>4. CASE CloseDir
  BY <1>4, ClosePreserves
<1>5. CASE WalkStep
  BY <1>5, SkipPreserves, ClaimPreserves
<1>6. CASE Return
  BY <1>6, ReturnPreserves
<1>7. CASE UNCHANGED vars
  <2>1. TablesClean' /\ NoDuplicates' /\ Ownership'
    BY <1>7, TablesUnchanged DEF vars
  <2>2. TypeOK' /\ ReadOnce' /\ OwedClaims' /\ WalkedClaimed' /\ ServedClaimed'
    BY <1>7 DEF vars, cacheVars, callVars, auxVars, CacheInv, TypeOK, ReadOnce,
                OwedClaims, owed, WalkedClaimed, ServedClaimed
  <2> QED
    BY <2>1, <2>2 DEF CacheInv
<1> QED
  BY <1>1, <1>2, <1>3, <1>4, <1>5, <1>6, <1>7 DEF Next, Step

\* The cache stays consistent whatever the kernel and the allocator do.
THEOREM CacheInvariant == Spec => []CacheInv
BY CacheInit, StepPreserves, PTL DEF Spec

\* What is owed to a port that was answered from a filled cache is in the
\* table of some port.
LEMMA OwedDelivered ==
  ASSUME CacheInv, NEW p \in served, NEW r \in owed, Matches(r, p)
  PROVE  ap_adapt[r] # NULL /\ r \in Entries(ap_rports[ap_adapt[r]])
<1>1. todo = {}
  BY DEF CacheInv, ServedClaimed, ReadOnce
<1>2. r \in Entries(rports_table)
  BY <1>1 DEF CacheInv, OwedClaims
<1>3. ap_adapt[r] # NULL
  BY <1>2 DEF CacheInv, ServedClaimed
<1> QED
  BY <1>3 DEF CacheInv, OwedClaims

\* What the invariant says of a state.
LEMMA CacheIsRight ==
  ASSUME CacheInv
  PROVE  Ownership /\ NoDuplicates /\ SlotFree /\ Delivered
<1>1. Ownership /\ NoDuplicates
  BY DEF CacheInv
<1>2. SlotFree
  BY ClaimFindsSlotFree DEF SlotFree
<1>3. ASSUME NEW p \in served, NEW r \in expected, Matches(r, p)
      PROVE  IF r \in unseen
             THEN r \notin Entries(rports_table)
             ELSE ap_adapt[r] # NULL /\ r \in Entries(ap_rports[ap_adapt[r]])
  <2>1. CASE r \in unseen
    BY <2>1 DEF CacheInv, ReadOnce
  <2>2. CASE r \notin unseen
    <3>1. r \in owed
      BY <2>2 DEF owed
    <3> QED
      BY <1>3, <2>2, <3>1, OwedDelivered
  <2> QED
    BY <2>1, <2>2
<1> QED
  BY <1>1, <1>2, <1>3 DEF Delivered

\* Every remote port of a port's table belongs to the port, sits at its number
\* and has no other owner.
THEOREM OwnershipTheorem == Spec => []Ownership
BY CacheIsRight, CacheInvariant, PTL

\* No remote port is read into the cache twice.
THEOREM NoDuplicatesTheorem == Spec => []NoDuplicates
BY CacheIsRight, CacheInvariant, PTL

\* "discovered port exists" is never printed.
THEOREM SlotFreeTheorem == Spec => []SlotFree
BY CacheIsRight, CacheInvariant, PTL

\* A port that was answered from a filled cache has all it is owed, one bad
\* entry hides no other, and what running out of memory hid stays hidden.
THEOREM DeliveredTheorem == Spec => []Delivered
BY CacheIsRight, CacheInvariant, PTL

LEMMA AnsweredStays ==
  ASSUME CacheInv, [Next]_vars
  PROVE  [\A p \in served : UNCHANGED ap_rports[p]]_vars
<1> SUFFICES ASSUME Next, NEW p \in served
             PROVE  ap_rports'[p] = ap_rports[p]
  OBVIOUS
<1>1. CASE WalkStep /\ Claimable(walked)
  <2>1. Matches(walked, cur) /\ ap_adapt[walked] = NULL
        /\ walked \in Entries(rports_table)
    BY <1>1, ClaimFindsSlotFree DEF WalkStep, Claimable
  <2>2. p # cur
    BY <2>1 DEF CacheInv, ServedClaimed
  <2> QED
    BY <1>1, <2>2 DEF WalkStep, Claim, CacheInv, TypeOK
<1>2. CASE ~(WalkStep /\ Claimable(walked))
  <2>1. ap_rports' = ap_rports
    BY <1>2 DEF Next, Step, Kernel, HotPlug, Unplug, Call, ReadEntry,
                DropEntry, NoMemory, AddEntry, CloseDir, WalkStep, Return,
                cacheVars
  <2> QED
    BY <2>1
<1> QED
  BY <1>1, <1>2

\* The table of a port that was answered once from a filled cache never
\* changes again, so an enumeration by position sees each remote port once.
THEOREM EnumerationStableTheorem == Spec => EnumerationStable
BY AnsweredStays, CacheInvariant, PTL DEF Spec, EnumerationStable

\* The tables stay consistent with their arrays, a call in progress has a port,
\* and the walk over the table of the library stays within its slots.
THEOREM CacheTypesTheorem == Spec => []TypeOK
<1>1. CacheInv => TypeOK
  BY DEF CacheInv
<1> QED
  BY <1>1, CacheInvariant, PTL


----------------------------------------------------------------------------
(* A call comes to its end *)

\* Remote ports that a directory read in progress may still come across.
unread == {r \in Rport : kern[r] = "absent"} \cup todo

\* A step of a call leads on to the second part, or to the end, or leaves less
\* of its part: fewer remote ports to come across, fewer slots to walk over.
Advances ==
  \/ pc = "scan" /\ pc' = "claim"
  \/ pc = "scan" /\ pc' = "scan" /\ unread' \subseteq unread /\ unread' # unread
  \/ /\ pc = "claim" /\ pc' = "claim"
     /\ ri < ri' /\ ri' <= rports_table'.st_size
     /\ UNCHANGED rports_table
  \/ pc = "claim" /\ pc' = "idle"

\* What the kernel does sets no call back.
NotSetBack == unread' \subseteq unread /\ UNCHANGED <<pc, ri, rports_table>>

LEMMA ReadingAdvances ==
  ASSUME CacheInv, ReadEntry
  PROVE  Advances
<1>1. PICK r \in Rport : DropEntry(r) \/ NoMemory(r) \/ AddEntry(r)
  BY DEF ReadEntry
<1>2. /\ pc = "scan" /\ pc' \in {"scan", "claim"} /\ kern' = kern
      /\ r \in todo /\ todo' \subseteq todo \ {r}
  BY <1>1 DEF DropEntry, NoMemory, AddEntry
<1>3. kern[r] # "absent"
  BY <1>2 DEF CacheInv, ReadOnce
<1>4. r \in unread /\ r \notin unread' /\ unread' \subseteq unread
  BY <1>2, <1>3 DEF unread
<1> QED
  BY <1>2, <1>4 DEF Advances

LEMMA KernelSetsNotBack ==
  ASSUME CacheInv, Kernel
  PROVE  NotSetBack
<1>1. PICK r \in Rport : HotPlug(r) \/ Unplug(r)
  BY DEF Kernel
<1>2. UNCHANGED <<pc, ri, rports_table>>
  BY <1>1 DEF HotPlug, Unplug, cacheVars
<1>3. CASE HotPlug(r)
  <2>1. kern[r] = "absent" /\ todo' \subseteq todo \cup {r}
    BY <1>3 DEF HotPlug
  <2>2. \A q \in Rport : kern'[q] = "absent" => kern[q] = "absent"
    BY <1>3 DEF HotPlug, CacheInv, TypeOK
  <2>3. unread' \subseteq unread
    BY <2>1, <2>2 DEF unread
  <2> QED
    BY <1>2, <2>3 DEF NotSetBack
<1>4. CASE Unplug(r)
  <2>1. todo' \subseteq todo
    BY <1>4 DEF Unplug
  <2>2. \A q \in Rport : kern'[q] = "absent" => kern[q] = "absent"
    BY <1>4 DEF Unplug, CacheInv, TypeOK
  <2>3. unread' \subseteq unread
    BY <2>1, <2>2 DEF unread
  <2> QED
    BY <1>2, <2>3 DEF NotSetBack
<1> QED
  BY <1>1, <1>3, <1>4

LEMMA StepWindsDown ==
  ASSUME CacheInv, [Next]_vars
  PROVE  [/\ Step => Advances
          /\ pc # "idle" /\ ~Step => NotSetBack]_vars
<1> SUFFICES ASSUME Next
             PROVE  /\ Step => Advances
                    /\ pc # "idle" /\ ~Step => NotSetBack
  OBVIOUS
<1>1. CASE ReadEntry
  BY <1>1, ReadingAdvances DEF Step
<1>2. CASE CloseDir
  BY <1>2 DEF CloseDir, Advances, Step
<1>3. CASE WalkStep
  <2>1. ri \in Nat /\ rports_table.st_size \in Nat
    BY DEF CacheInv, TypeOK, IsTable
  <2>2. ri < ri' /\ ri' <= rports_table.st_size
    BY <1>3, <2>1 DEF WalkStep, Walking, Advance
  <2> QED
    BY <1>3, <2>2 DEF WalkStep, Walking, Advances, Step
<1>4. CASE Return
  BY <1>4 DEF Return, Advances, Step
<1>5. CASE Kernel
  <2>1. Step => Advances
    BY <1>1, <1>2, <1>3, <1>4 DEF Step
  <2> QED
    BY <1>5, <2>1, KernelSetsNotBack
<1>6. CASE \E p \in Port : Call(p)
  <2>1. pc = "idle"
    BY <1>6 DEF Call
  <2>2. Step => Advances
    BY <1>1, <1>2, <1>3, <1>4 DEF Step
  <2> QED
    BY <2>1, <2>2
<1> QED
  BY <1>1, <1>2, <1>3, <1>4, <1>5, <1>6 DEF Next, Step

\* get_rport_info cannot go on for ever: every step of a call comes nearer to its
\* end, and remote ports that log in while the directory is read do not move the
\* end away.
THEOREM CallsWindDown ==
  Spec => [][/\ Step => Advances
             /\ pc # "idle" /\ ~Step => NotSetBack]_vars
BY StepWindsDown, CacheInvariant, PTL DEF Spec

============================================================================
