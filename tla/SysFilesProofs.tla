--------------------------- MODULE SysFilesProofs ---------------------------
(***************************************************************************)
(* Theorems about the files the kernel keeps for a host: the statistics,   *)
(* for every set of counters a driver keeps, however they move and         *)
(* whichever files cannot be read; the kind of binding, whoever else       *)
(* writes it; and the lists of speeds, whatever speeds the kernel lists.   *)
(***************************************************************************)
EXTENDS PortStats, Binding, SpeedList, SequenceTheorems, TLAPS

----------------------------------------------------------------------------
(* The lists of files *)

\* A list of different files.
IsList(s) ==
  /\ s \in Seq(Files)
  /\ \A i, j \in 1 .. Len(s) : s[i] = s[j] => i = j

\* The frames of a direction come before its words.
InOrder(s, frames, words) ==
  \A i, j \in 1 .. Len(s) : s[i] = frames /\ s[j] = words => i < j

\* What a list holds are files.
LEMMA ListFiles ==
  ASSUME NEW s, IsList(s)
  PROVE  ToSet(s) \subseteq Files
BY LenProperties DEF IsList, ToSet

\* What is left of a list after its first file.
LEMMA RestOfList ==
  ASSUME NEW s, IsList(s), s # <<>>
  PROVE  /\ IsList(Tail(s))
         /\ Head(s) \in Files
         /\ Head(s) \in ToSet(s)
         /\ ToSet(Tail(s)) = ToSet(s) \ {Head(s)}
         /\ \A f, w : InOrder(s, f, w) => InOrder(Tail(s), f, w)
<1> USE DEF IsList
<1>1. Len(s) \in Nat /\ Len(s) > 0 /\ Head(s) = s[1] /\ DOMAIN s = 1 .. Len(s)
  BY EmptySeq, LenProperties
<1>2. /\ Tail(s) \in Seq(Files) /\ Len(Tail(s)) = Len(s) - 1
      /\ DOMAIN Tail(s) = 1 .. Len(Tail(s))
      /\ \A i \in 1 .. Len(Tail(s)) : Tail(s)[i] = s[i + 1]
  BY <1>1
<1>3. IsList(Tail(s))
  BY <1>1, <1>2
<1>4. Head(s) \in Files /\ Head(s) \in ToSet(s)
  BY <1>1 DEF ToSet
<1>5. ToSet(Tail(s)) = ToSet(s) \ {Head(s)}
  <2>1. ASSUME NEW x \in ToSet(Tail(s)) PROVE x \in ToSet(s) \ {Head(s)}
    <3>1. PICK i \in 1 .. Len(Tail(s)) : x = Tail(s)[i]
      BY <1>2 DEF ToSet
    <3>2. i + 1 \in 1 .. Len(s) /\ x = s[i + 1] /\ i + 1 # 1
      BY <1>1, <1>2, <3>1
    <3> QED
      BY <1>1, <3>2 DEF ToSet
  <2>2. ASSUME NEW x \in ToSet(s) \ {Head(s)} PROVE x \in ToSet(Tail(s))
    <3>1. PICK i \in 1 .. Len(s) : x = s[i]
      BY <1>1 DEF ToSet
    <3>2. i # 1
      BY <1>1, <3>1
    <3>3. PICK k \in 1 .. Len(Tail(s)) : i = k + 1
      <4>1. i - 1 \in 1 .. Len(Tail(s)) /\ i = (i - 1) + 1
        BY <1>1, <1>2, <3>2
      <4> QED
        BY <4>1
    <3>4. x = Tail(s)[k]
      BY <1>2, <3>1, <3>3
    <3> QED
      BY <1>2, <3>3, <3>4 DEF ToSet
  <2> QED
    BY <2>1, <2>2
<1>6. ASSUME NEW f, NEW w, InOrder(s, f, w) PROVE InOrder(Tail(s), f, w)
  BY <1>1, <1>2, <1>6 DEF InOrder
<1> QED
  BY <1>3, <1>4, <1>5, <1>6

\* The files of the two calls.
LEMMA PortStatsList ==
  /\ IsList(port_stats)
  /\ InOrder(port_stats, "tx_frames", "tx_words")
  /\ InOrder(port_stats, "rx_frames", "rx_words")
  /\ {"tx_frames", "tx_words", "rx_frames", "rx_words"} \subseteq ToSet(port_stats)
<1>1. Len(port_stats) = 15 /\ DOMAIN port_stats = 1 .. 15
  BY DEF port_stats
<1>2. \A i \in 1 .. 15 : port_stats[i] \in Files
  BY <1>1 DEF Files, ToSet
<1>3. port_stats \in Seq(Files)
  <2>1. port_stats \in Seq({port_stats[i] : i \in 1 .. 15})
    BY <1>1 DEF port_stats
  <2> QED
    BY <1>1, <1>2, <2>1
<1>4. \A i, j \in 1 .. 15 : port_stats[i] = port_stats[j] => i = j
  BY DEF port_stats
<1>5. port_stats[2] = "tx_frames" /\ port_stats[3] = "tx_words"
      /\ port_stats[4] = "rx_frames" /\ port_stats[5] = "rx_words"
  BY DEF port_stats
<1>6. \A i, j \in 1 .. 15 : /\ port_stats[i] = "tx_frames" /\ port_stats[j] = "tx_words" => i < j
                            /\ port_stats[i] = "rx_frames" /\ port_stats[j] = "rx_words" => i < j
  BY <1>4, <1>5
<1> QED
  BY <1>1, <1>3, <1>4, <1>5, <1>6 DEF IsList, InOrder, ToSet

LEMMA Fc4StatsList ==
  /\ IsList(fc4_stats)
  /\ {"tx_frames", "tx_words", "rx_frames", "rx_words"} \cap ToSet(fc4_stats) = {}
<1>1. Len(fc4_stats) = 5 /\ DOMAIN fc4_stats = 1 .. 5
  BY DEF fc4_stats
<1>2. \A i \in 1 .. 5 : fc4_stats[i] \in Files
  BY <1>1 DEF Files, ToSet
<1>3. fc4_stats \in Seq(Files)
  <2>1. fc4_stats \in Seq({fc4_stats[i] : i \in 1 .. 5})
    BY <1>1 DEF fc4_stats
  <2> QED
    BY <1>1, <1>2, <2>1
<1>4. \A i, j \in 1 .. 5 : fc4_stats[i] = fc4_stats[j] => i = j
  BY DEF fc4_stats
<1>5. \A i \in 1 .. 5 :
        fc4_stats[i] \notin {"tx_frames", "tx_words", "rx_frames", "rx_words"}
  BY DEF fc4_stats
<1> QED
  BY <1>1, <1>3, <1>4, <1>5 DEF IsList, ToSet

----------------------------------------------------------------------------
(* The statistics *)

StatsTypes ==
  /\ pc \in {"idle", "read", "done"}
  /\ counter \in [Files -> Int]
  /\ start \in [Files -> Int]
  /\ sp \in [Files -> Int]
  /\ rc \in {0, -1}
  /\ IsList(files)
  /\ missed \subseteq Files /\ got \subseteq Files
  /\ resets \in BOOLEAN

\* Counters the driver keeps are not negative, and a direction has no fewer
\* words than frames.
CountersOK ==
  /\ \A f \in Files : IF f \in Unsupported THEN counter[f] = -1 ELSE counter[f] >= 0
  /\ counter["tx_frames"] <= counter["tx_words"]
  /\ counter["rx_frames"] <= counter["rx_words"]

\* Nothing of the last call is left, and a call that is over has no files left.
StatsPhases ==
  /\ pc = "idle" => sp = Untouched /\ missed = {} /\ rc = 0 /\ ~resets
  /\ pc # "read" => files = <<>>
  /\ pc # "done" => status = "none"
  /\ pc = "done" => status = IF rc = 0 THEN status ELSE "ERROR"
  /\ rc = 0 <=> missed = {}

\* A file still to be read has no value yet.
Unread == \A f \in ToSet(files) : sp[f] = -1 /\ f \notin missed

\* Without a reset the counters have only grown.
Grown == ~resets /\ pc # "idle" => \A f \in Files : start[f] <= counter[f]

\* Every file of the call's list is still to be read, missed, or reported.
Reported(list) ==
  /\ ToSet(files) \subseteq ToSet(list)
  /\ missed \subseteq ToSet(list)
  /\ \A f \in Files : f \notin ToSet(list) => sp[f] = -1
  /\ \A f \in ToSet(list) \ (ToSet(files) \cup missed \cup Unsupported) : sp[f] # -1

Progress ==
  pc = "read" \/ (pc = "done" /\ (status = "OK" \/ missed # {})) =>
    \E list \in {port_stats, fc4_stats} : Reported(list)

\* What was read and what was missed is all of the call's list that is not still
\* to be read, and the status of a call that is over tells which.
Told ==
  /\ got \cap missed = {} /\ got \cap ToSet(files) = {}
  /\ \A f \in got \ Unsupported : sp[f] # -1
  /\ pc = "idle" => got = {}
  /\ pc = "read" => \E K \in Kinds : got \cup missed \cup ToSet(files) = K
  /\ pc = "done" => \/ got = {} /\ missed = {} /\ status # "OK"
                    \/ /\ got \cup missed \in Kinds
                       /\ status = "OK" <=> missed = {}

\* A direction's words are not read before its frames, and cover them.
Covered(frames, words) ==
  /\ InOrder(files, frames, words)
  /\ sp[words] # -1 => frames \notin ToSet(files)
  /\ frames \in Unsupported => sp[frames] = -1
  /\ sp[words] >= -1
  /\ ~resets => sp[frames] = -1 \/ sp[words] = -1 \/ sp[frames] <= sp[words]

StatsInv ==
  /\ StatsTypes
  /\ CountersOK
  /\ StatsPhases
  /\ Unread
  /\ Grown
  /\ ValuesFromTheCall
  /\ Progress
  /\ Told
  /\ Covered("tx_frames", "tx_words")
  /\ Covered("rx_frames", "rx_words")

\* The counters of frames and words are files.
LEMMA FrameFiles == {"tx_frames", "tx_words", "rx_frames", "rx_words"} \subseteq Files
BY PortStatsList DEF Files

\* An empty list.
LEMMA NoFiles ==
  /\ IsList(<<>>) /\ ToSet(<<>>) = {}
  /\ \A f, w : InOrder(<<>>, f, w)
BY DEF IsList, ToSet, InOrder

LEMMA StatsInit == Init => StatsInv
<1> SUFFICES ASSUME Init PROVE StatsInv
  OBVIOUS
<1> USE DEF Init
<1>1. StatsTypes
  <2>1. counter \in [Files -> Int] /\ start \in [Files -> Int]
    OBVIOUS
  <2>2. sp \in [Files -> Int]
    BY DEF Untouched
  <2>3. IsList(files)
    BY NoFiles
  <2> QED
    BY <2>1, <2>2, <2>3 DEF StatsTypes
<1>2. CountersOK
  <2>1. counter["tx_frames"] <= counter["tx_words"]
    BY FrameFiles, DriverAssumption
  <2>2. counter["rx_frames"] <= counter["rx_words"]
    BY FrameFiles, DriverAssumption
  <2> QED
    BY <2>1, <2>2 DEF CountersOK
<1>3. StatsPhases /\ Unread /\ Grown /\ Progress
  BY NoFiles DEF StatsPhases, Unread, Grown, Progress
<1>4. ValuesFromTheCall
  BY DEF ValuesFromTheCall, Untouched
<1>5. Covered("tx_frames", "tx_words") /\ Covered("rx_frames", "rx_words")
  BY NoFiles, FrameFiles DEF Covered, Untouched
<1>6. Told
  BY NoFiles DEF Told
<1> QED
  BY <1>1, <1>2, <1>3, <1>4, <1>5, <1>6 DEF StatsInv

\* A step of the kernel in which no counter goes back leaves the call's part of
\* the invariant alone.
LEMMA CountingPreserves ==
  ASSUME StatsInv, UNCHANGED <<resets, call>>, counter' \in [Files -> Int],
         CountersOK', \A f \in Files : counter[f] <= counter'[f]
  PROVE  StatsInv'
<1> USE DEF call
<1>1. StatsTypes' /\ StatsPhases' /\ Unread'
  BY DEF StatsInv, StatsTypes, StatsPhases, Unread
<1>2. Grown'
  BY DEF StatsInv, StatsTypes, Grown
<1>3. ValuesFromTheCall'
  BY DEF StatsInv, StatsTypes, ValuesFromTheCall
<1>4. Progress'
  BY DEF StatsInv, Progress, Reported
<1>5. Covered("tx_frames", "tx_words")' /\ Covered("rx_frames", "rx_words")'
  BY DEF StatsInv, Covered
<1>6. Told'
  BY DEF StatsInv, Told
<1> QED
  BY <1>1, <1>2, <1>3, <1>4, <1>5, <1>6 DEF StatsInv

LEMMA FramePreserves ==
  ASSUME StatsInv,
         Frame("tx_frames", "tx_words") \/ Frame("rx_frames", "rx_words")
  PROVE  StatsInv'
<1>1. PICK d \in {<<"tx_frames", "tx_words">>, <<"rx_frames", "rx_words">>} :
        Frame(d[1], d[2])
  OBVIOUS
<1>2. /\ d[1] \in Files \ Unsupported /\ d[2] \in Files \ Unsupported /\ d[1] # d[2]
      /\ counter' = [counter EXCEPT ![d[1]] = @ + 1, ![d[2]] = @ + 1]
  BY <1>1, FrameFiles, StatsAssumption, DriverAssumption DEF Frame
<1>3. /\ counter' \in [Files -> Int]
      /\ \A f \in Files : counter'[f] = IF f \in {d[1], d[2]} THEN counter[f] + 1
                                        ELSE counter[f]
  BY <1>2 DEF StatsInv, StatsTypes
<1>4. CountersOK'
  BY <1>1, <1>2, <1>3, FrameFiles DEF StatsInv, StatsTypes, CountersOK
<1>5. \A f \in Files : counter[f] <= counter'[f]
  BY <1>3 DEF StatsInv, StatsTypes
<1> QED
  BY <1>1, <1>3, <1>4, <1>5, CountingPreserves DEF Frame

LEMMA EventPreserves ==
  ASSUME StatsInv, NEW f \in Counting, Event(f)
  PROVE  StatsInv'
<1>1. f \in Files \ Unsupported
  BY StatsAssumption
<1>2. /\ counter' \in [Files -> Int]
      /\ \A g \in Files : counter'[g] = IF g = f THEN counter[g] + 1 ELSE counter[g]
  BY <1>1 DEF Event, StatsInv, StatsTypes
<1>3. CountersOK'
  BY <1>1, <1>2, FrameFiles DEF Event, StatsInv, StatsTypes, CountersOK
<1>4. \A g \in Files : counter[g] <= counter'[g]
  BY <1>2 DEF StatsInv, StatsTypes
<1> QED
  BY <1>2, <1>3, <1>4, CountingPreserves DEF Event

\* Reset or not, between the calls there is nothing to keep; during a call only
\* what does not depend on the counters remains.
LEMMA ResetPreserves ==
  ASSUME StatsInv, Reset
  PROVE  StatsInv'
<1> USE DEF Reset, call
<1>1. StatsTypes' /\ Unread'
  BY DEF StatsInv, StatsTypes, Unread
<1>2. CountersOK'
  <2>1. counter'["tx_frames"] <= counter'["tx_words"]
    BY FrameFiles, DriverAssumption
  <2>2. counter'["rx_frames"] <= counter'["rx_words"]
    BY FrameFiles, DriverAssumption
  <2> QED
    BY <2>1, <2>2 DEF CountersOK
<1>3. StatsPhases'
  BY DEF StatsInv, StatsPhases
<1>4. Grown'
  BY DEF Grown
<1>5. ValuesFromTheCall'
  BY DEF StatsInv, StatsPhases, ValuesFromTheCall, Untouched
<1>6. Progress'
  BY DEF StatsInv, Progress, Reported
<1>7. Covered("tx_frames", "tx_words")' /\ Covered("rx_frames", "rx_words")'
  BY FrameFiles DEF StatsInv, Covered, StatsPhases, Untouched
<1>8. Told'
  BY DEF StatsInv, Told
<1> QED
  BY <1>1, <1>2, <1>3, <1>4, <1>5, <1>6, <1>7, <1>8 DEF StatsInv

\* A call begins with all files of its list to be read, in their order.
LEMMA BeginPreserves ==
  ASSUME StatsInv, NEW list \in {port_stats, fc4_stats}, NEW refusals,
         "OK" \notin refusals, Begin(list, refusals)
  PROVE  StatsInv'
<1> USE DEF Begin
<1>1. sp' = Untouched /\ missed = {} /\ rc = 0 /\ pc = "idle"
  BY DEF StatsInv, StatsPhases
<1>2. files' \in {list, <<>>} /\ IsList(list)
  BY PortStatsList, Fc4StatsList
<1>3. StatsTypes'
  <2>1. IsList(files')
    BY <1>2, NoFiles
  <2>2. sp' \in [Files -> Int]
    BY <1>1 DEF Untouched
  <2> QED
    BY <1>1, <2>1, <2>2 DEF StatsInv, StatsTypes
<1>4. CountersOK'
  BY DEF StatsInv, CountersOK
<1>5. StatsPhases'
  BY <1>1 DEF StatsPhases
<1>6. Unread'
  <2>1. ToSet(list) \subseteq Files
    BY DEF Files
  <2> QED
    BY <1>1, <1>2, <2>1, NoFiles DEF Unread, Untouched
<1>7. Grown' /\ ValuesFromTheCall'
  BY DEF StatsInv, StatsTypes, Grown, ValuesFromTheCall, Untouched
<1>8. Progress'
  BY <1>1 DEF Progress, Reported, Untouched
<1>9. ASSUME NEW d \in {<<"tx_frames", "tx_words">>, <<"rx_frames", "rx_words">>}
      PROVE  Covered(d[1], d[2])'
  <2>1. InOrder(list, d[1], d[2])
    <3>1. CASE list = port_stats
      BY <3>1, PortStatsList
    <3>2. CASE list = fc4_stats
      <4>1. \A i \in 1 .. Len(list) : list[i] \in ToSet(list)
        BY <1>2 DEF IsList, ToSet
      <4> QED
        BY <3>2, <4>1, Fc4StatsList DEF InOrder
    <3> QED
      BY <3>1, <3>2
  <2>2. InOrder(files', d[1], d[2])
    BY <1>2, <2>1, NoFiles
  <2>3. sp'[d[1]] = -1 /\ sp'[d[2]] = -1
    BY <1>1, FrameFiles DEF Untouched
  <2> QED
    BY <2>2, <2>3 DEF Covered
<1>10. Covered("tx_frames", "tx_words")' /\ Covered("rx_frames", "rx_words")'
  BY <1>9
<1>11. Told'
  <2>1. got = {} /\ got' = {} /\ missed' = {}
    BY <1>1 DEF StatsInv, Told
  <2> QED
    BY <1>1, <2>1 DEF Told, Kinds
<1> QED
  BY <1>3, <1>4, <1>5, <1>6, <1>7, <1>8, <1>10, <1>11 DEF StatsInv

\* One file is read or missed: what is left keeps its order, and the words of a
\* direction are read when its frames have been.
LEMMA ReadFilePreserves ==
  ASSUME StatsInv, ReadFile
  PROVE  StatsInv'
<1> USE DEF ReadFile, kernel
<1> DEFINE f == Head(files)
<1>1. /\ IsList(Tail(files)) /\ f \in Files /\ f \in ToSet(files)
      /\ ToSet(Tail(files)) = ToSet(files) \ {f}
      /\ \A g, w : InOrder(files, g, w) => InOrder(Tail(files), g, w)
  BY RestOfList DEF StatsInv, StatsTypes
<1>2. sp[f] = -1 /\ f \notin missed
  BY <1>1 DEF StatsInv, Unread
<1>3. \/ /\ sp' = [sp EXCEPT ![f] = counter[f]] /\ rc' = rc /\ UNCHANGED missed
         /\ got' = got \cup {f}
      \/ /\ missed' = missed \cup {f} /\ rc' = -1 /\ UNCHANGED <<sp, got>>
  BY DEF orResults
<1>4. /\ sp' \in [Files -> Int]
      /\ \A g \in Files : g # f => sp'[g] = sp[g]
      /\ sp'[f] \in {-1, counter[f]} /\ (f \in missed' => sp'[f] = -1)
      /\ sp'[f] = -1 => f \in missed' \/ counter[f] = -1
  BY <1>1, <1>2, <1>3 DEF StatsInv, StatsTypes
<1>5. StatsTypes'
  <2>1. missed' \subseteq Files /\ got' \subseteq Files /\ rc' \in {0, -1}
    <3> HIDE DEF f
    <3> QED
      BY <1>1, <1>3 DEF StatsInv, StatsTypes
  <2>2. IsList(files') /\ sp' \in [Files -> Int] /\ pc' = "read"
    BY <1>1, <1>4
  <2>3. UNCHANGED <<counter, start, resets>>
    OBVIOUS
  <2> QED
    BY <2>1, <2>2, <2>3 DEF StatsInv, StatsTypes
<1>6. CountersOK' /\ Grown'
  BY DEF StatsInv, CountersOK, Grown
<1>7. StatsPhases'
  <2>1. rc' = 0 <=> missed' = {}
    <3>1. rc = 0 <=> missed = {}
      BY DEF StatsInv, StatsPhases
    <3>2. (rc' = rc /\ missed' = missed) \/ (rc' # 0 /\ f \in missed')
      BY <1>3
    <3> HIDE DEF f, ReadFile
    <3> QED
      BY <3>1, <3>2
  <2>2. pc = "read" /\ pc' = "read" /\ status' = status
    OBVIOUS
  <2> QED
    BY <2>1, <2>2 DEF StatsInv, StatsPhases
<1>8. Unread'
  <2> SUFFICES ASSUME NEW g \in ToSet(files') PROVE sp'[g] = -1 /\ g \notin missed'
    BY DEF Unread
  <2>1. g \in ToSet(files) /\ g # f
    BY <1>1
  <2>2. g \in Files
    BY <2>1, ListFiles DEF StatsInv, StatsTypes
  <2> QED
    BY <1>3, <1>4, <2>1, <2>2 DEF StatsInv, Unread
<1>9. ValuesFromTheCall'
  <2> SUFFICES ASSUME ~resets, NEW g \in Files
               PROVE  \/ sp'[g] = -1
                      \/ g \notin missed' /\ start[g] <= sp'[g] /\ sp'[g] <= counter[g]
    BY DEF ValuesFromTheCall
  <2>1. CASE g = f
    <3>1. start[f] <= counter[f] /\ counter[f] \in Int
      BY <1>1 DEF StatsInv, StatsTypes, Grown
    <3> QED
      BY <1>4, <2>1, <3>1
  <2>2. CASE g # f
    BY <1>3, <1>4, <2>2 DEF StatsInv, ValuesFromTheCall
  <2> QED
    BY <2>1, <2>2
<1>10. Progress'
  <2>1. PICK list \in {port_stats, fc4_stats} : Reported(list)
    BY DEF StatsInv, Progress
  <2>2. f \in ToSet(list)
    BY <1>1, <2>1 DEF Reported
  <2>3. ToSet(files') \subseteq ToSet(list) /\ missed' \subseteq ToSet(list)
    BY <1>1, <1>3, <2>1, <2>2 DEF Reported
  <2>4. \A g \in Files : g \notin ToSet(list) => sp'[g] = -1
    BY <1>4, <2>1, <2>2 DEF Reported
  <2>5. ASSUME NEW g \in ToSet(list) \ (ToSet(files') \cup missed' \cup Unsupported)
        PROVE  sp'[g] # -1
    <3>0. g \in Files
      BY PortStatsList, Fc4StatsList, ListFiles
    <3>1. CASE g = f
      <4>1. counter[f] >= 0 /\ counter[f] \in Int
        BY <1>1, <2>5, <3>1 DEF StatsInv, StatsTypes, CountersOK
      <4> QED
        BY <1>4, <2>5, <3>1, <4>1
    <3>2. CASE g # f
      <4>1. g \in ToSet(list) \ (ToSet(files) \cup missed \cup Unsupported)
        BY <1>1, <1>3, <2>5, <3>2
      <4> QED
        BY <1>4, <2>1, <3>0, <3>2, <4>1 DEF Reported
    <3> QED
      BY <3>1, <3>2
  <2>6. Reported(list)'
    BY <2>3, <2>4, <2>5 DEF Reported
  <2> QED
    BY <2>6 DEF Progress
<1>11. ASSUME NEW d \in {<<"tx_frames", "tx_words">>, <<"rx_frames", "rx_words">>},
              Covered(d[1], d[2]), counter[d[1]] <= counter[d[2]]
       PROVE  Covered(d[1], d[2])'
  <2>1. d[1] \in Files /\ d[2] \in Files /\ d[1] # d[2]
    BY FrameFiles
  <2>2. InOrder(files', d[1], d[2])
    BY <1>1, <1>11 DEF Covered
  <2>3. f = d[2] => d[1] \notin ToSet(files)
    <3> SUFFICES ASSUME f = d[2], d[1] \in ToSet(files) PROVE FALSE
      OBVIOUS
    <3>1. /\ Len(files) \in Nat /\ Len(files) > 0 /\ files[1] = f
          /\ DOMAIN files = 1 .. Len(files)
      BY EmptySeq, LenProperties DEF StatsInv, StatsTypes, IsList
    <3>2. PICK i \in 1 .. Len(files) : files[i] = d[1]
      BY <3>1 DEF ToSet
    <3>3. i < 1
      BY <1>11, <3>1, <3>2 DEF Covered, InOrder
    <3> QED
      BY <3>3
  <2>4. sp'[d[2]] # -1 => d[1] \notin ToSet(files')
    BY <1>1, <1>4, <1>11, <2>1, <2>3 DEF Covered
  <2>5. d[1] \in Unsupported => sp'[d[1]] = -1
    <3>1. d[1] \in Unsupported => counter[d[1]] = -1
      BY <2>1 DEF StatsInv, CountersOK
    <3> QED
      BY <1>4, <1>11, <2>1, <3>1 DEF Covered
  <2>6. ~resets => sp'[d[1]] = -1 \/ sp'[d[2]] = -1 \/ sp'[d[1]] <= sp'[d[2]]
    <3> SUFFICES ASSUME ~resets, sp'[d[1]] # -1, sp'[d[2]] # -1
                 PROVE  sp'[d[1]] <= sp'[d[2]]
      OBVIOUS
    <3>1. CASE f = d[1]
      BY <1>1, <1>4, <1>11, <2>1, <3>1 DEF Covered
    <3>2. CASE f = d[2]
      <4>1. sp'[d[2]] = counter[d[2]] /\ sp'[d[1]] = sp[d[1]]
        BY <1>4, <2>1, <3>2
      <4>2. sp[d[1]] <= counter[d[1]]
        BY <2>1, <4>1 DEF StatsInv, ValuesFromTheCall
      <4>3. sp[d[1]] \in Int /\ counter[d[1]] \in Int /\ counter[d[2]] \in Int
        BY <2>1 DEF StatsInv, StatsTypes
      <4> QED
        BY <1>11, <4>1, <4>2, <4>3
    <3>3. CASE f # d[1] /\ f # d[2]
      BY <1>4, <1>11, <2>1, <3>3 DEF Covered
    <3> QED
      BY <3>1, <3>2, <3>3
  <2>7. sp'[d[2]] >= -1
    <3>1. counter[d[2]] \in Int /\ (counter[d[2]] = -1 \/ counter[d[2]] >= 0)
      BY <2>1 DEF StatsInv, StatsTypes, CountersOK
    <3>2. CASE f = d[2]
      BY <1>4, <3>1, <3>2
    <3>3. CASE f # d[2]
      BY <1>4, <1>11, <2>1, <3>3 DEF Covered
    <3> QED
      BY <3>2, <3>3
  <2> QED
    BY <2>2, <2>4, <2>5, <2>6, <2>7 DEF Covered
<1>12. Covered("tx_frames", "tx_words")' /\ Covered("rx_frames", "rx_words")'
  BY <1>11 DEF StatsInv, CountersOK
<1>13. Told'
  <2>1. /\ got \cap missed = {} /\ got \cap ToSet(files) = {} /\ f \notin missed
        /\ f \in ToSet(files) /\ ToSet(files') = ToSet(files) \ {f} /\ pc' = "read"
    BY <1>1, <1>2 DEF StatsInv, Told
  <2>2. got' \cup missed' \cup ToSet(files') = got \cup missed \cup ToSet(files)
    BY <1>3, <2>1
  <2>3. got' \cap missed' = {} /\ got' \cap ToSet(files') = {}
    BY <1>3, <2>1
  <2>4. \E K \in Kinds : got' \cup missed' \cup ToSet(files') = K
    BY <2>2 DEF StatsInv, Told
  <2>5. ASSUME NEW g \in got' \ Unsupported
        PROVE  sp'[g] # -1
    <3>1. CASE g = f
      <4>1. counter[f] >= 0 /\ counter[f] \in Int
        BY <1>1, <2>5, <3>1 DEF StatsInv, StatsTypes, CountersOK
      <4>2. f \notin missed'
        BY <2>3, <2>5, <3>1
      <4> QED
        BY <1>4, <3>1, <4>1, <4>2
    <3>2. CASE g # f
      <4>1. g \in got \ Unsupported /\ g \in Files
        BY <1>3, <2>5, <3>2 DEF StatsInv, StatsTypes
      <4> QED
        BY <1>4, <3>2, <4>1 DEF StatsInv, Told
    <3> QED
      BY <3>1, <3>2
  <2> QED
    BY <2>1, <2>3, <2>4, <2>5 DEF Told
<1> QED
  BY <1>5, <1>6, <1>7, <1>8, <1>9, <1>10, <1>12, <1>13 DEF StatsInv

LEMMA FinishPreserves ==
  ASSUME StatsInv, Finish
  PROVE  StatsInv'
<1> USE DEF Finish, kernel
<1>1. StatsTypes' /\ CountersOK' /\ Unread' /\ Grown' /\ ValuesFromTheCall'
  BY DEF StatsInv, StatsTypes, CountersOK, Unread, Grown, ValuesFromTheCall
<1>2. StatsPhases'
  BY DEF StatsInv, StatsPhases
<1>3. Progress'
  BY DEF StatsInv, Progress, Reported
<1>4. Covered("tx_frames", "tx_words")' /\ Covered("rx_frames", "rx_words")'
  BY DEF StatsInv, Covered
<1>5. Told'
  <2>1. got \cup missed \in Kinds /\ (rc = 0 <=> missed = {})
    BY NoFiles DEF StatsInv, Told, StatsPhases
  <2> QED
    BY <2>1 DEF StatsInv, Told
<1> QED
  BY <1>1, <1>2, <1>3, <1>4, <1>5 DEF StatsInv

LEMMA ReturnPreserves ==
  ASSUME StatsInv, Return
  PROVE  StatsInv'
<1> USE DEF Return
<1>1. files = <<>>
  BY DEF StatsInv, StatsPhases
<1>2. StatsTypes'
  <2>1. sp' \in [Files -> Int]
    BY DEF Untouched
  <2> QED
    BY <2>1 DEF StatsInv, StatsTypes
<1>3. CountersOK' /\ Grown' /\ Progress'
  BY DEF StatsInv, CountersOK, Grown, Progress
<1>4. StatsPhases' /\ Unread'
  BY <1>1, NoFiles DEF StatsPhases, Unread
<1>5. ValuesFromTheCall'
  BY DEF ValuesFromTheCall, Untouched
<1>6. Covered("tx_frames", "tx_words")' /\ Covered("rx_frames", "rx_words")'
  BY <1>1, NoFiles, FrameFiles DEF Covered, Untouched
<1>7. Told'
  BY <1>1, NoFiles DEF Told
<1> QED
  BY <1>2, <1>3, <1>4, <1>5, <1>6, <1>7 DEF StatsInv

LEMMA StatsNext ==
  ASSUME StatsInv, [Next]_vars
  PROVE  StatsInv'
<1>1. CASE UNCHANGED vars
  BY <1>1 DEF vars, kernel, call, StatsInv, StatsTypes, CountersOK, StatsPhases,
       Unread, Grown, ValuesFromTheCall, Progress, Reported, Told, Covered
<1>2. CASE Frame("tx_frames", "tx_words") \/ Frame("rx_frames", "rx_words")
  BY <1>2, FramePreserves
<1>3. CASE \E f \in Counting : Event(f)
  BY <1>3, EventPreserves
<1>4. CASE Reset
  BY <1>4, ResetPreserves
<1>5. CASE get_port_statistics
  BY <1>5, BeginPreserves DEF get_port_statistics
<1>6. CASE get_port_fc4_statistics
  BY <1>6, BeginPreserves DEF get_port_fc4_statistics
<1>7. CASE ReadFile
  BY <1>7, ReadFilePreserves
<1>8. CASE Finish \/ Return
  BY <1>8, FinishPreserves, ReturnPreserves
<1> QED
  BY <1>1, <1>2, <1>3, <1>4, <1>5, <1>6, <1>7, <1>8 DEF Next

\* The invariant of the statistics calls.
THEOREM StatsInvariance == Spec => []StatsInv
<1>1. StatsInv /\ [Next]_vars => StatsInv'
  BY StatsNext
<1> QED
  BY StatsInit, <1>1, PTL DEF Spec

\* get_port_statistics and get_port_fc4_statistics report for each statistic a
\* value its counter had during the call, or -1, unless somebody resets them.
THEOREM ValuesAreFromTheCall == Spec => []ValuesFromTheCall
<1>1. StatsInv => ValuesFromTheCall
  BY DEF StatsInv
<1> QED
  BY <1>1, StatsInvariance, PTL

\* No file belongs to both kinds of statistics.
LEMMA KindsDiffer ==
  /\ ToSet(port_stats) \cap ToSet(fc4_stats) = {}
  /\ {} \notin Kinds
<1>1. Len(port_stats) = 15 /\ Len(fc4_stats) = 5
  BY DEF port_stats, fc4_stats
<1>2. \A i \in 1 .. 15, j \in 1 .. 5 : port_stats[i] # fc4_stats[j]
  BY DEF port_stats, fc4_stats
<1>3. port_stats[1] \in ToSet(port_stats) /\ fc4_stats[1] \in ToSet(fc4_stats)
  BY <1>1, PortStatsList, Fc4StatsList DEF IsList, ToSet
<1>4. /\ \A f \in ToSet(port_stats) : \E i \in 1 .. 15 : f = port_stats[i]
      /\ \A f \in ToSet(fc4_stats) : \E j \in 1 .. 5 : f = fc4_stats[j]
  BY <1>1, PortStatsList, Fc4StatsList DEF IsList, ToSet
<1>5. ToSet(port_stats) \cap ToSet(fc4_stats) = {}
  BY <1>2, <1>4
<1> QED
  BY <1>3, <1>5 DEF Kinds

\* Either call returns OK exactly when it has read every statistic of its kind,
\* and has tried all the others when some could not be read.
THEOREM StatusAlwaysTellsAll == Spec => []StatusTellsAll
<1>1. ASSUME StatsInv PROVE StatusTellsAll
  <2> SUFFICES ASSUME pc = "done" PROVE StatusTellsAll
    BY DEF StatusTellsAll
  <2>1. got \cap missed = {} /\ \A f \in got \ Unsupported : sp[f] # -1
    BY <1>1 DEF StatsInv, Told
  <2>2. CASE got = {} /\ missed = {} /\ status # "OK"
    BY <2>1, <2>2, KindsDiffer DEF StatusTellsAll
  <2>3. CASE got \cup missed \in Kinds /\ (status = "OK" <=> missed = {})
    <3>1. got \in Kinds => missed = {}
      <4>1. ASSUME NEW K \in Kinds, NEW L \in Kinds, K \subseteq L
            PROVE  K = L
        BY <4>1, KindsDiffer DEF Kinds
      <4> QED
        BY <2>1, <2>3, <4>1
    <3> QED
      BY <2>1, <2>3, <3>1 DEF StatusTellsAll
  <2> QED
    BY <1>1, <2>2, <2>3 DEF StatsInv, Told
<1> QED
  BY <1>1, StatsInvariance, PTL

\* Frames are read before words, and so no direction is reported with more frames
\* than words, however the port counts on during the call.
THEOREM WordsAlwaysCoverFrames == Spec => []WordsCoverFrames
<1>1. ASSUME StatsInv PROVE WordsCoverFrames
  <2> SUFFICES ASSUME ~resets, status = "OK" PROVE WordsCoverFrames
    BY DEF WordsCoverFrames
  <2>1. pc = "done" /\ files = <<>> /\ missed = {}
    BY <1>1 DEF StatsInv, StatsPhases, StatsTypes
  <2>2. PICK list \in {port_stats, fc4_stats} : Reported(list)
    BY <1>1, <2>1 DEF StatsInv, Progress
  <2>3. ASSUME NEW d \in {<<"tx_frames", "tx_words">>, <<"rx_frames", "rx_words">>},
               Covered(d[1], d[2]), d[2] \in Unsupported => d[1] \in Unsupported
        PROVE  sp[d[2]] >= sp[d[1]]
    <3>1. d[1] \in Files /\ d[2] \in Files /\ sp[d[1]] \in Int /\ sp[d[2]] \in Int
      BY <1>1, FrameFiles DEF StatsInv, StatsTypes
    <3>2. sp[d[2]] >= -1
      BY <2>3 DEF Covered
    <3>3. CASE list = fc4_stats
      BY <2>2, <3>1, <3>3, Fc4StatsList DEF Reported
    <3>4. CASE list = port_stats /\ d[2] \notin Unsupported
      <4>1. sp[d[2]] # -1
        BY <2>1, <2>2, <3>4, PortStatsList, NoFiles DEF Reported
      <4> QED
        BY <2>3, <3>1, <3>2, <4>1 DEF Covered
    <3>5. CASE d[2] \in Unsupported
      BY <2>3, <3>1, <3>2, <3>5 DEF Covered
    <3> QED
      BY <3>3, <3>4, <3>5
  <2> QED
    BY <1>1, <2>3, DriverAssumption DEF StatsInv, WordsCoverFrames
<1> QED
  BY <1>1, StatsInvariance, PTL

----------------------------------------------------------------------------
(* The kind of binding *)

\* The first of some places of the table.
LEMMA FirstPlace ==
  ASSUME NEW I \in SUBSET (1 .. 4), I # {}
  PROVE  Min(I) \in I
<1>1. \E x \in I : \A y \in I : x <= y
  <2>1. CASE 1 \in I
    BY <2>1
  <2>2. CASE 1 \notin I /\ 2 \in I
    BY <2>2
  <2>3. CASE 1 \notin I /\ 2 \notin I /\ 3 \in I
    BY <2>3
  <2>4. CASE 1 \notin I /\ 2 \notin I /\ 3 \notin I /\ 4 \in I
    BY <2>4
  <2>5. \A x \in 1 .. 4 : x = 1 \/ x = 2 \/ x = 3 \/ x = 4
    OBVIOUS
  <2> QED
    BY <2>1, <2>2, <2>3, <2>4, <2>5
<1> QED
  BY <1>1 DEF Min

LEMMA TableEntries ==
  /\ Len(binding_types_table) = 4
  /\ binding_types_table[1] = [nv_name |-> "none",    nv_val |-> {}]
  /\ binding_types_table[2] = [nv_name |-> "wwpn",    nv_val |-> {"WWPN"}]
  /\ binding_types_table[3] = [nv_name |-> "wwnn",    nv_val |-> {"WWNN"}]
  /\ binding_types_table[4] = [nv_name |-> "port_id", nv_val |-> {"D_ID"}]
BY DEF binding_types_table

\* Each entry of the library's table is one of the kernel's names, with the same
\* meaning, and every name of the kernel has its entry.
LEMMA TablesAgree ==
  /\ DOMAIN kernel_names = {"none", "wwpn", "wwnn", "port_id"}
  /\ \A i \in 1 .. 4 :
       /\ binding_types_table[i].nv_name \in DOMAIN kernel_names
       /\ kernel_names[binding_types_table[i].nv_name] = binding_types_table[i].nv_val
  /\ \A n \in DOMAIN kernel_names :
       \E i \in 1 .. 4 : binding_types_table[i].nv_name = n
<1>1. /\ DOMAIN kernel_names = {"none", "wwpn", "wwnn", "port_id"}
      /\ kernel_names["none"] = {} /\ kernel_names["wwpn"] = {"WWPN"}
      /\ kernel_names["wwnn"] = {"WWNN"} /\ kernel_names["port_id"] = {"D_ID"}
  BY DEF kernel_names
<1>2. \A i \in 1 .. 4 : i = 1 \/ i = 2 \/ i = 3 \/ i = 4
  OBVIOUS
<1> QED
  BY <1>1, <1>2, TableEntries

\* sa_enum_decode gives the kernel's name for the flags, or says it has none.
LEMMA Decode ==
  ASSUME NEW v, sa_enum_decode(binding_types_table, v) # "Unknown"
  PROVE  LET name == sa_enum_decode(binding_types_table, v)
         IN  name \in DOMAIN kernel_names /\ kernel_names[name] = v
<1> DEFINE I == {i \in 1 .. Len(binding_types_table) : binding_types_table[i].nv_val = v}
<1>1. sa_enum_decode(binding_types_table, v) =
        IF I # {} THEN binding_types_table[Min(I)].nv_name ELSE "Unknown"
  <2>1. I # {} => Min(I) \in 1 .. 4
    BY FirstPlace, TableEntries
  <2> QED
    BY <2>1 DEF sa_enum_decode, SelectInSeq
<1>2. Min(I) \in I /\ I \subseteq 1 .. 4
  BY <1>1, FirstPlace, TableEntries
<1> QED
  BY <1>1, <1>2, TablesAgree

\* sa_enum_encode gives the flags a name of the kernel stands for.
LEMMA Encode ==
  ASSUME NEW n \in DOMAIN kernel_names, NEW default
  PROVE  sa_enum_encode(binding_types_table, n, default) = kernel_names[n]
<1> DEFINE I == {i \in 1 .. Len(binding_types_table) : binding_types_table[i].nv_name = n}
<1>1. I # {} /\ I \subseteq 1 .. 4
  BY TableEntries, TablesAgree
<1>2. Min(I) \in I
  BY <1>1, FirstPlace
<1>3. sa_enum_encode(binding_types_table, n, default) = binding_types_table[Min(I)].nv_val
  BY <1>1, <1>2 DEF sa_enum_encode, SelectInSeq
<1> QED
  BY <1>1, <1>2, <1>3, TablesAgree

\* What is known at each step of the three calls.
BindPhases ==
  /\ bpc \in {"idle", "read", "write", "close", "status", "done"}
  /\ file \in DOMAIN kernel_names
  /\ bpc = "idle" => op = "none" /\ capability = NULL
  /\ bpc = "read" => op = "get" /\ capability = NULL
  /\ bpc \in {"write", "close", "status"} =>
       op = "set" /\ bind \in DOMAIN kernel_names /\ kernel_names[bind] = flags

\* "OK" is said at the end of a call only.
BindStatus == bpc # "done" => bstatus = "none"

BindInv == BindPhases /\ BindStatus /\ KernelUnderstands /\ RoundTrip /\ OneKindOnly

LEMMA BindInitInv == BindInit => BindInv
BY DEF BindInit, BindInv, BindPhases, BindStatus, KernelUnderstands, RoundTrip,
       OneKindOnly

\* What somebody else writes, or a new host has, is not what was asked for.
LEMMA OthersPreserve ==
  ASSUME BindInv, OtherWrites \/ HostLeaves \/ HostComes
  PROVE  BindInv'
<1>1. file' \in DOMAIN kernel_names /\ (asked' = NULL \/ UNCHANGED <<file, asked>>)
  BY TablesAgree DEF OtherWrites, HostLeaves, HostComes, BindInv, BindPhases
<1>2. UNCHANGED <<bpc, op, flags, bind, bstatus, capability>>
  BY DEF OtherWrites, HostLeaves, HostComes
<1> QED
  BY <1>1, <1>2 DEF BindInv, BindPhases, BindStatus, KernelUnderstands, RoundTrip,
                    OneKindOnly

LEMMA GetPreserves ==
  ASSUME BindInv, get_binding_capability \/ get_binding_support \/ ReadName
  PROVE  BindInv'
<1>1. CASE get_binding_capability
  BY <1>1 DEF get_binding_capability, Refuse, lookup_failures, bindKernel, BindInv,
       BindPhases, BindStatus, KernelUnderstands, RoundTrip, OneKindOnly
<1>2. CASE get_binding_support
  BY <1>2 DEF get_binding_support, Refuse, lookup_failures, bindKernel, BindInv,
       BindPhases, BindStatus, KernelUnderstands, RoundTrip, OneKindOnly
<1>3. CASE ReadName
  <2>1. op = "get" /\ capability = NULL /\ file \in DOMAIN kernel_names
    BY <1>3 DEF ReadName, BindInv, BindPhases
  <2>2. capability' \in {kernel_names[file], NULL}
    BY <1>3, <2>1, Encode DEF ReadName
  <2>3. RoundTrip' /\ KernelUnderstands' /\ OneKindOnly'
    BY <1>3, <2>1, <2>2 DEF ReadName, bindKernel, BindInv, RoundTrip,
         KernelUnderstands, OneKindOnly
  <2> QED
    BY <1>3, <2>3 DEF ReadName, bindKernel, BindInv, BindPhases, BindStatus
<1> QED
  BY <1>1, <1>2, <1>3

LEMMA SetPreserves ==
  ASSUME BindInv, set_binding_support
  PROVE  BindInv'
<1> USE DEF set_binding_support
<1>1. CASE bpc' = "done"
  <2>1. bstatus' # "OK" /\ UNCHANGED <<capability, asked, file>>
    BY <1>1 DEF Refuse, lookup_failures, bindKernel
  <2> QED
    BY <1>1, <2>1 DEF BindInv, BindPhases, BindStatus, KernelUnderstands,
         RoundTrip, OneKindOnly
<1>2. CASE bpc' = "write"
  <2>1. /\ supported(flags') /\ bind' = sa_enum_decode(binding_types_table, flags')
        /\ UNCHANGED <<bstatus, capability, asked, file>>
    BY <1>2 DEF Refuse, bindKernel
  <2>2. bind' \in DOMAIN kernel_names /\ kernel_names[bind'] = flags'
    BY <2>1, Decode DEF supported
  <2> QED
    BY <1>2, <2>1, <2>2 DEF BindInv, BindPhases, BindStatus, KernelUnderstands,
         RoundTrip, OneKindOnly
<1> QED
  BY <1>1, <1>2 DEF Refuse

LEMMA WritePreserves ==
  ASSUME BindInv, WriteLine \/ CloseFile \/ SetStatus
  PROVE  BindInv'
<1>1. op = "set" /\ bind \in DOMAIN kernel_names /\ kernel_names[bind] = flags
  BY DEF WriteLine, CloseFile, SetStatus, BindInv, BindPhases
<1>2. CASE WriteLine
  BY <1>1, <1>2 DEF WriteLine, bindKernel, BindInv, BindPhases, BindStatus,
       KernelUnderstands, RoundTrip, OneKindOnly
<1>3. CASE CloseFile
  BY <1>1, <1>3 DEF CloseFile, BindInv, BindPhases, BindStatus,
       KernelUnderstands, RoundTrip, OneKindOnly
<1>4. CASE SetStatus
  BY <1>1, <1>4 DEF SetStatus, bindKernel, BindInv, BindPhases, BindStatus,
       KernelUnderstands, RoundTrip, OneKindOnly
<1> QED
  BY <1>2, <1>3, <1>4

LEMMA BindNextInv ==
  ASSUME BindInv, [BindNext]_bindVars
  PROVE  BindInv'
<1>1. CASE UNCHANGED bindVars
  BY <1>1 DEF bindVars, bindKernel, BindInv, BindPhases, BindStatus,
       KernelUnderstands, RoundTrip, OneKindOnly
<1>2. CASE OtherWrites \/ HostLeaves \/ HostComes
  BY <1>2, OthersPreserve
<1>3. CASE get_binding_capability \/ get_binding_support \/ ReadName
  BY <1>3, GetPreserves
<1>4. CASE set_binding_support
  BY <1>4, SetPreserves
<1>5. CASE WriteLine \/ CloseFile \/ SetStatus
  BY <1>5, WritePreserves
<1>6. CASE BindReturn
  BY <1>6 DEF BindReturn, bindKernel, BindInv, BindPhases, BindStatus,
       KernelUnderstands, RoundTrip, OneKindOnly
<1> QED
  BY <1>1, <1>2, <1>3, <1>4, <1>5, <1>6 DEF BindNext

\* A binding that set_binding_support has written means to the kernel the flags
\* the caller gave, and get_binding_support gives those back, until somebody else
\* writes or the host is a new one; a mixture of kinds is never written.
THEOREM BindingIsKept == BindSpec => []BindingKept
<1>1. BindInv /\ [BindNext]_bindVars => BindInv'
  BY BindNextInv
<1>2. BindInv => BindingKept
  BY DEF BindInv, BindingKept
<1> QED
  BY BindInitInv, <1>1, <1>2, PTL DEF BindSpec


----------------------------------------------------------------------------
(* The lists of speeds *)

Speeds == ToSet(kernel_speeds) \cup {Unknown, NotNegotiated}

known == ToSet(port_speeds_table)

SpeedTypes ==
  /\ spc \in {"idle", "parse", "done"}
  /\ line \in Seq(Speeds)
  /\ kp \in 0 .. Len(kernel_speeds)
  /\ cp \in 1 .. Len(line) + 1
  /\ tp \in 1 .. Len(port_speeds_table) + 1

\* The line so far lists speeds up to kp, and no word instead.
Listed ==
  spc = "idle" =>
    /\ \A i \in 1 .. Len(line) : \E k \in 1 .. kp : line[i] = kernel_speeds[k]
    /\ kp = 0 => line = <<>>

\* A speed of the line that the library knows comes, in the table, after those
\* listed before it, which it knows as well.
LineInOrder ==
  \A i, j \in 1 .. Len(line) :
    i < j /\ line[j] \in known => Before(line[i], line[j])

\* The parser has found every name before cp, the last of them at tp.
Parsed ==
  /\ spc = "idle" => cp = 1 /\ tp = 1 /\ val = {}
  /\ spc = "parse" =>
       /\ ~Contains(line, Unknown)
       /\ val = {line[i] : i \in 1 .. cp - 1}
       /\ \A i \in 1 .. cp - 1 : line[i] \in known
       /\ IF cp = 1 THEN tp = 1
          ELSE tp <= Len(port_speeds_table) /\ port_speeds_table[tp] = line[cp - 1]

SpeedInv == SpeedTypes /\ Listed /\ LineInOrder /\ Parsed /\ AllSpeedsRead

\* The table has eleven different names.
LEMMA SpeedTable ==
  /\ Len(port_speeds_table) = 11
  /\ known = {port_speeds_table[k] : k \in 1 .. 11}
  /\ \A i, j \in 1 .. 11 : port_speeds_table[i] = port_speeds_table[j] => i = j
<1>1. Len(port_speeds_table) = 11 /\ DOMAIN port_speeds_table = 1 .. 11
  BY DEF port_speeds_table
<1>2. \A i, j \in 1 .. 11 : port_speeds_table[i] = port_speeds_table[j] => i = j
  BY DEF port_speeds_table, Unknown, NotNegotiated
<1> QED
  BY <1>1, <1>2 DEF known, ToSet

\* A name before another in the table is before it at their only places.
LEMMA BeforePlaces ==
  ASSUME NEW i \in 1 .. 11, NEW y, Before(port_speeds_table[i], y)
  PROVE  /\ port_speeds_table[i] \in known
         /\ \E k \in i + 1 .. 11 : port_speeds_table[k] = y
<1>1. PICK m, n \in 1 .. 11 : /\ m < n
                             /\ port_speeds_table[m] = port_speeds_table[i]
                             /\ port_speeds_table[n] = y
  BY SpeedTable DEF Before
<1>2. m = i
  BY <1>1, SpeedTable
<1> QED
  BY <1>1, <1>2, SpeedTable

LEMMA SpeedInitInv == SpeedInit => SpeedInv
<1> SUFFICES ASSUME SpeedInit PROVE SpeedInv
  OBVIOUS
<1> USE DEF SpeedInit
<1>1. line \in Seq(Speeds) /\ Len(line) = 0
  OBVIOUS
<1>2. SpeedTypes
  BY <1>1, SpeedTable, SpeedAssumption, LenProperties DEF SpeedTypes
<1> QED
  BY <1>1, <1>2 DEF SpeedInv, Listed, LineInOrder, Parsed, AllSpeedsRead

\* The kernel lists one speed more.
LEMMA ListsPreserves ==
  ASSUME KernelOrder, SpeedInv, KernelLists
  PROVE  SpeedInv'
<1> USE DEF SpeedInv
<1>1. PICK k \in kp + 1 .. Len(kernel_speeds) :
        kp' = k /\ line' = Append(line, kernel_speeds[k])
  BY DEF KernelLists
<1>2. /\ spc = "idle" /\ spc' = "idle"
      /\ cp' = 1 /\ tp' = 1 /\ val' = {} /\ cp = cp' /\ tp = tp' /\ val = val'
  BY DEF KernelLists, Parsed
<1>3. /\ line \in Seq(Speeds) /\ kp \in Nat /\ k \in 1 .. Len(kernel_speeds)
      /\ Len(kernel_speeds) \in Nat /\ Len(line) \in Nat
      /\ kernel_speeds[k] \in Speeds
  <2>1. Len(kernel_speeds) \in Nat /\ DOMAIN kernel_speeds = 1 .. Len(kernel_speeds)
    BY SpeedAssumption, LenProperties
  <2>2. k \in 1 .. Len(kernel_speeds)
    BY <2>1 DEF SpeedTypes
  <2> QED
    BY <2>1, <2>2, LenProperties DEF SpeedTypes, Speeds, ToSet
<1>4. /\ line' \in Seq(Speeds)
      /\ Len(line') = Len(line) + 1
      /\ \A i \in 1 .. Len(line) : line'[i] = line[i]
      /\ line'[Len(line) + 1] = kernel_speeds[k]
  BY <1>1, <1>3, AppendProperties
<1>5. SpeedTypes'
  BY <1>1, <1>2, <1>3, <1>4, SpeedTable DEF SpeedTypes
<1>6. Listed'
  <2>1. ASSUME NEW i \in 1 .. Len(line) + 1
        PROVE  \E m \in 1 .. k : line'[i] = kernel_speeds[m]
    <3>1. CASE i = Len(line) + 1
      BY <1>3, <1>4, <3>1
    <3>2. CASE i # Len(line) + 1
      <4>1. i \in 1 .. Len(line)
        BY <1>3, <3>2
      <4>2. PICK m \in 1 .. kp : line[i] = kernel_speeds[m]
        BY <1>2, <4>1 DEF Listed
      <4> QED
        BY <1>1, <1>3, <1>4, <4>1, <4>2
    <3> QED
      BY <3>1, <3>2
  <2> QED
    BY <1>1, <1>3, <1>4, <2>1 DEF Listed
<1>7. LineInOrder'
  <2>1. ASSUME NEW i \in 1 .. Len(line) + 1, NEW j \in 1 .. Len(line) + 1,
               i < j, line'[j] \in known
        PROVE  Before(line'[i], line'[j])
    <3>1. i \in 1 .. Len(line) /\ line'[i] = line[i]
      BY <1>3, <1>4, <2>1
    <3>2. CASE j \in 1 .. Len(line)
      BY <1>4, <2>1, <3>1, <3>2 DEF LineInOrder
    <3>3. CASE j = Len(line) + 1
      <4>1. PICK m \in 1 .. kp : line[i] = kernel_speeds[m]
        BY <1>2, <3>1 DEF Listed
      <4>2. m \in 1 .. Len(kernel_speeds) /\ m < k
        BY <1>1, <1>3, <4>1
      <4> QED
        BY <1>3, <1>4, <2>1, <3>1, <3>3, <4>1, <4>2 DEF KernelOrder, known
    <3> QED
      BY <1>3, <3>2, <3>3
  <2> QED
    BY <1>4, <2>1 DEF LineInOrder
<1>8. Parsed' /\ AllSpeedsRead'
  BY <1>2 DEF Parsed, AllSpeedsRead
<1> QED
  BY <1>5, <1>6, <1>7, <1>8


\* The line that is read is the kernel's, a word, or none.
LEMMA ReadPreserves ==
  ASSUME SpeedInv, Read
  PROVE  SpeedInv'
<1> USE DEF SpeedInv
<1>1. /\ cp = 1 /\ tp = 1 /\ val = {} /\ cp' = 1 /\ tp' = 1 /\ val' = {} /\ kp' = kp
      /\ spc' = IF Contains(line', Unknown) THEN "done" ELSE "parse"
  BY DEF Read, Parsed
<1>2. line' \in Seq(Speeds) /\ (line' = line \/ Len(line') < 2)
  <2>1. CASE line' = line
    BY <2>1 DEF SpeedTypes
  <2>2. CASE line' = <<>>
    BY <2>2
  <2>3. CASE line' \in {<<Unknown>>, <<NotNegotiated>>}
    BY <2>3 DEF Speeds
  <2> QED
    BY <2>1, <2>2, <2>3 DEF Read
<1>3. SpeedTypes'
  BY <1>1, <1>2, SpeedTable, LenProperties DEF SpeedTypes
<1>4. LineInOrder'
  <2>1. CASE line' = line
    BY <2>1 DEF LineInOrder
  <2>2. CASE Len(line') < 2
    <3>1. \A i, j \in 1 .. Len(line') : ~(i < j)
      BY <1>2, <2>2, LenProperties
    <3> QED
      BY <3>1 DEF LineInOrder
  <2> QED
    BY <1>2, <2>1, <2>2
<1>5. Listed' /\ Parsed'
  BY <1>1 DEF Listed, Parsed
<1>6. AllSpeedsRead'
  BY <1>1 DEF AllSpeedsRead
<1> QED
  BY <1>3, <1>4, <1>5, <1>6

\* The next name is found: the pointer into the table only moves forward.
LEMMA FoundPreserves ==
  ASSUME SpeedInv, Found
  PROVE  SpeedInv'
<1> USE DEF SpeedInv
<1>1. /\ spc = "parse" /\ spc' = "parse" /\ line' = line /\ kp' = kp
      /\ cp \in 1 .. Len(line) /\ cp' = cp + 1 /\ Len(line) \in Nat
  BY LenProperties DEF Found, SpeedTypes
<1>2. PICK k \in matches(line[cp]) :
        tp' = k /\ val' = val \cup {port_speeds_table[k]}
  BY DEF Found
<1>3. k \in 1 .. 11 /\ port_speeds_table[k] = line[cp]
  BY <1>2, SpeedTable DEF matches, SpeedTypes
<1>4. SpeedTypes'
  <2>1. cp' \in 1 .. Len(line') + 1 /\ tp' \in 1 .. Len(port_speeds_table) + 1
    BY <1>1, <1>2, <1>3, SpeedTable
  <2> QED
    BY <1>1, <2>1 DEF SpeedTypes
<1>5. Parsed'
  <2>1. \A i \in 1 .. cp : i = cp \/ i \in 1 .. cp - 1
    BY <1>1
  <2>2. \A i \in 1 .. cp : line[i] \in known
    BY <1>1, <1>3, <2>1, SpeedTable DEF Parsed
  <2>3. val' = {line[i] : i \in 1 .. cp}
    <3>1. val = {line[i] : i \in 1 .. cp - 1}
      BY <1>1 DEF Parsed
    <3>2. \A i \in 1 .. cp - 1 : i \in 1 .. cp
      BY <1>1
    <3>3. cp \in 1 .. cp
      BY <1>1
    <3> QED
      BY <1>2, <1>3, <2>1, <3>1, <3>2, <3>3
  <2>4. ~Contains(line, Unknown)
    BY <1>1 DEF Parsed
  <2>5. tp' <= Len(port_speeds_table) /\ port_speeds_table[tp'] = line'[cp' - 1] /\ cp' # 1
    BY <1>1, <1>2, <1>3, SpeedTable
  <2>6. 1 .. cp' - 1 = 1 .. cp
    BY <1>1
  <2> QED
    BY <1>1, <2>2, <2>3, <2>4, <2>5, <2>6 DEF Parsed
<1>6. Listed' /\ LineInOrder' /\ AllSpeedsRead'
  BY <1>1 DEF Listed, LineInOrder, AllSpeedsRead
<1> QED
  BY <1>4, <1>5, <1>6

\* A name that is not found is not in the table, nor are those after it.
LEMMA NotFound ==
  ASSUME SpeedInv, spc = "parse", cp <= Len(line), matches(line[cp]) = {}
  PROVE  \A j \in cp .. Len(line) : line[j] \notin known
<1> USE DEF SpeedInv
<1>1. cp \in 1 .. Len(line) /\ Len(line) \in Nat /\ tp \in 1 .. 12
  BY LenProperties, SpeedTable DEF SpeedTypes
<1>2. \A k \in tp .. 11 : port_speeds_table[k] # line[cp]
  BY SpeedTable DEF matches
<1>3. line[cp] \notin known
  <2> SUFFICES ASSUME line[cp] \in known PROVE FALSE
    OBVIOUS
  <2>1. CASE cp = 1
    BY <1>2, <2>1, SpeedTable DEF Parsed
  <2>2. CASE cp # 1
    <3>1. tp \in 1 .. 11 /\ port_speeds_table[tp] = line[cp - 1]
      BY <1>1, <2>2, SpeedTable DEF Parsed
    <3>2. cp - 1 \in 1 .. Len(line) /\ cp - 1 < cp
      BY <1>1, <2>2
    <3>3. Before(port_speeds_table[tp], line[cp])
      BY <1>1, <3>1, <3>2 DEF LineInOrder
    <3>4. PICK k \in tp + 1 .. 11 : port_speeds_table[k] = line[cp]
      BY <3>1, <3>3, BeforePlaces
    <3> QED
      BY <1>1, <1>2, <3>4
  <2> QED
    BY <2>1, <2>2
<1>4. ASSUME NEW j \in cp + 1 .. Len(line), line[j] \in known PROVE FALSE
  <2>1. Before(line[cp], line[j])
    BY <1>1, <1>4 DEF LineInOrder
  <2>2. line[cp] \in known
    BY <2>1, SpeedTable DEF Before
  <2> QED
    BY <1>3, <2>2
<1>5. \A j \in cp .. Len(line) : j = cp \/ j \in cp + 1 .. Len(line)
  BY <1>1
<1> QED
  BY <1>3, <1>4, <1>5

\* The end of the line, or of the table.
LEMMA StopPreserves ==
  ASSUME SpeedInv, Stop
  PROVE  SpeedInv'
<1> USE DEF SpeedInv
<1>1. /\ spc = "parse" /\ spc' = "done" /\ line' = line /\ kp' = kp
      /\ cp' = cp /\ val' = val /\ tp' \in {tp, Len(port_speeds_table) + 1}
  BY DEF Stop
<1>2. SpeedTypes'
  BY <1>1, SpeedTable DEF SpeedTypes
<1>3. Len(line) \in Nat /\ cp \in 1 .. Len(line) + 1 /\ DOMAIN line = 1 .. Len(line)
  BY LenProperties DEF SpeedTypes
<1>4. \A j \in cp .. Len(line) : line[j] \notin known
  BY <1>1, <1>3, NotFound DEF Stop
<1>5. \A i \in 1 .. Len(line) : i \in 1 .. cp - 1 \/ i \in cp .. Len(line)
  BY <1>3
<1>6. val = ToSet(line) \cap known
  <2>1. val = {line[i] : i \in 1 .. cp - 1} /\ \A i \in 1 .. cp - 1 : line[i] \in known
    BY <1>1 DEF Parsed
  <2>2. \A i \in 1 .. cp - 1 : i \in 1 .. Len(line)
    BY <1>3
  <2> QED
    BY <1>3, <1>4, <1>5, <2>1, <2>2 DEF ToSet
<1>7. AllSpeedsRead'
  BY <1>1, <1>6 DEF AllSpeedsRead, Parsed, known
<1>8. Listed' /\ LineInOrder' /\ Parsed'
  BY <1>1 DEF Listed, LineInOrder, Parsed
<1> QED
  BY <1>2, <1>7, <1>8

LEMMA SpeedReturnPreserves ==
  ASSUME SpeedInv, SpeedReturn
  PROVE  SpeedInv'
<1> USE DEF SpeedReturn
<1>1. line' \in Seq(Speeds) /\ Len(line') = 0
  OBVIOUS
<1>2. SpeedTypes'
  BY <1>1, SpeedTable, SpeedAssumption, LenProperties DEF SpeedTypes
<1> QED
  BY <1>1, <1>2 DEF SpeedInv, Listed, LineInOrder, Parsed, AllSpeedsRead

LEMMA SpeedNextInv == KernelOrder /\ SpeedInv /\ [SpeedNext]_speedVars => SpeedInv'
<1> SUFFICES ASSUME KernelOrder, SpeedInv, [SpeedNext]_speedVars PROVE SpeedInv'
  OBVIOUS
<1>1. CASE UNCHANGED speedVars
  BY <1>1 DEF speedVars, SpeedInv, SpeedTypes, Listed, LineInOrder, Parsed, AllSpeedsRead
<1>2. CASE KernelLists
  BY <1>2, ListsPreserves
<1>3. CASE Read
  BY <1>3, ReadPreserves
<1>4. CASE Found
  BY <1>4, FoundPreserves
<1>5. CASE Stop
  BY <1>5, StopPreserves
<1>6. CASE SpeedReturn
  BY <1>6, SpeedReturnPreserves
<1> QED
  BY <1>1, <1>2, <1>3, <1>4, <1>5, <1>6 DEF SpeedNext

\* sys_read_speed finds every speed of a line that it knows, whichever speeds the
\* kernel lists and however many it has, because its table is in the order of the
\* kernel's.
THEOREM SpeedsAreRead ==
  ASSUME KernelOrder
  PROVE  SpeedSpec => []AllSpeedsRead
<1>1. SpeedInv /\ [SpeedNext]_speedVars => SpeedInv'
  BY SpeedNextInv
<1>2. SpeedInv => AllSpeedsRead
  BY DEF SpeedInv
<1> QED
  BY SpeedInitInv, <1>1, <1>2, PTL DEF SpeedSpec

=============================================================================
