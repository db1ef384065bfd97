----------------------------- MODULE PortStats -----------------------------
(***************************************************************************)
(* get_port_statistics and get_port_fc4_statistics (lport.c): the files of *)
(* a host's statistics directory are read one by one, while the port       *)
(* counts on and somebody may reset the counters.                          *)
(***************************************************************************)
EXTENDS Integers, FiniteSets, Sequences, SequencesExt

CONSTANTS
  Counting,      \* the counters that move while calls are made
  Unsupported,   \* counters the driver does not keep: the kernel prints -1
  MaxCount,      \* bound on a counter
  MaxMissed      \* bound on the files a call cannot read

\* Slip: the words of a direction are read before its frames.
words_first ==
  <<"seconds_since_last_reset", "tx_words", "tx_frames", "rx_words", "rx_frames",
    "lip_count", "nos_count", "error_frames", "dumped_frames",
    "link_failure_count", "loss_of_sync_count", "loss_of_signal_count",
    "prim_seq_protocol_err_count", "invalid_tx_word_count", "invalid_crc_count">>

\* The files of the two calls, in the order they are read.
port_stats ==
  <<"seconds_since_last_reset", "tx_frames", "tx_words", "rx_frames", "rx_words",
    "lip_count", "nos_count", "error_frames", "dumped_frames",
    "link_failure_count", "loss_of_sync_count", "loss_of_signal_count",
    "prim_seq_protocol_err_count", "invalid_tx_word_count", "invalid_crc_count">>

fc4_stats ==
  <<"fcp_input_requests", "fcp_output_requests", "fcp_control_requests",
    "fcp_input_megabytes", "fcp_output_megabytes">>

Files == ToSet(port_stats) \cup ToSet(fc4_stats)

ASSUME StatsAssumption ==
  /\ Counting \subseteq Files \ Unsupported
  /\ Unsupported \subseteq Files
  /\ MaxCount \in Nat /\ MaxMissed \in Nat
\* A driver that counts the frames of a direction counts their words.
ASSUME DriverAssumption ==
  /\ "tx_words" \in Unsupported => "tx_frames" \in Unsupported
  /\ "rx_words" \in Unsupported => "rx_frames" \in Unsupported

VARIABLES
  pc,       \* "idle", "read" or "done"
  files,    \* files the call still has to read
  sp,       \* the caller's structure
  rc,       \* the results of the reads, or-ed
  status,   \* what the call returns
  counter,  \* the kernel's counters
  start,    \* auxiliary: the counters when the call began
  got,      \* auxiliary: the files that were read
  missed,   \* auxiliary: the files that could not be read
  resets    \* auxiliary: the counters were reset during the call

kernel == <<counter, resets>>
call == <<pc, files, sp, rc, status, start, got, missed>>
vars == <<kernel, call>>

\* Slip: the structure is cleared, so that what was not read looks counted.
Cleared == [f \in Files |-> 0]

\* memset(sp, 0xff, ...)
Untouched == [f \in Files |-> -1]

Init ==
  /\ counter = [f \in Files |-> IF f \in Unsupported THEN -1 ELSE 0]
  /\ resets = FALSE
  /\ pc = "idle" /\ files = <<>> /\ rc = 0 /\ status = "none"
  /\ sp = Untouched /\ start = counter /\ got = {} /\ missed = {}

----------------------------------------------------------------------------
(* The kernel (external) *)

\* A frame passes in either direction; one word is the least it has.
Frame(frames, words) ==
  /\ frames \in Counting /\ counter[frames] < MaxCount
  /\ counter' = [counter EXCEPT ![frames] = @ + 1, ![words] = @ + 1]
  /\ UNCHANGED <<resets, call>>

Event(f) ==
  /\ f \in Counting \ {"tx_frames", "tx_words", "rx_frames", "rx_words"}
  /\ counter[f] < MaxCount
  /\ counter' = [counter EXCEPT ![f] = @ + 1]
  /\ UNCHANGED <<resets, call>>

Reset ==
  /\ counter' = [f \in Files |-> IF f \in Unsupported THEN -1 ELSE 0]
  /\ counter' # counter
  /\ resets' = (pc # "idle")
  /\ UNCHANGED call

----------------------------------------------------------------------------
(* The calls *)

\* The structure is filled with -1 and the port looked up, by index or by WWN.
Begin(list, refusals) ==
  /\ pc = "idle"
  /\ sp' = Untouched
  /\ \/ pc' = "read" /\ files' = list /\ status' = "none"
     \/ pc' = "done" /\ files' = <<>> /\ status' \in refusals
  /\ start' = counter /\ resets' = FALSE
  /\ UNCHANGED <<rc, got, missed, counter>>

get_port_statistics == Begin(port_stats, {"ERROR"})
get_port_fc4_statistics == Begin(fc4_stats, {"AMBIGUOUS_WWN", "ILLEGAL_WWN"})

\* Slip: the result of a read takes the place of the ones before.
lastResult(r, read) == read

\* rc |= ...
orResults(r, read) == IF read = 0 THEN r ELSE read

\* One file is read; or it is missing, empty or no number (the host may be
\* gone), and the value stays what it was.  The files after it are read all
\* the same.
ReadFile ==
  /\ pc = "read" /\ files # <<>>
  /\ LET f == Head(files) IN
     \/ /\ sp' = [sp EXCEPT ![f] = counter[f]]
        /\ rc' = orResults(rc, 0)
        /\ got' = got \cup {f}
        /\ UNCHANGED missed
     \/ /\ Cardinality(missed) < MaxMissed
        /\ missed' = missed \cup {f}
        /\ rc' = orResults(rc, -1)
        /\ UNCHANGED <<sp, got>>
  /\ files' = Tail(files)
  /\ UNCHANGED <<pc, status, start, kernel>>

Finish ==
  /\ pc = "read" /\ files = <<>>
  /\ pc' = "done"
  /\ status' = IF rc = 0 THEN "OK" ELSE "ERROR"
  /\ UNCHANGED <<files, sp, rc, start, got, missed, kernel>>

Return ==
  /\ pc = "done"
  /\ pc' = "idle" /\ status' = "none" /\ rc' = 0
  /\ sp' = Untouched /\ start' = counter /\ got' = {} /\ missed' = {}
  /\ resets' = FALSE
  /\ UNCHANGED <<files, counter>>

Next ==
  \/ Frame("tx_frames", "tx_words") \/ Frame("rx_frames", "rx_words")
  \/ \E f \in Counting : Event(f)
  \/ Reset
  \/ get_port_statistics \/ get_port_fc4_statistics
  \/ ReadFile \/ Finish \/ Return

Spec == Init /\ [][Next]_vars

----------------------------------------------------------------------------
(* Properties *)

\* Between its beginning and its return a call of either kind, when nobody
\* resets the counters, reports for each statistic a value the counter had in
\* that time, or -1 when the file could not be read ("unsupported statistics
\* give -1", lport.c:683 and lport.c:715).
ValuesFromTheCall ==
  ~resets => \A f \in Files :
    \/ sp[f] = -1
    \/ f \notin missed /\ start[f] <= sp[f] /\ sp[f] <= counter[f]

Kinds == {ToSet(port_stats), ToSet(fc4_stats)}

\* A call returns OK exactly when it has read every statistic of its kind.  One
\* that could not read some has still tried all the others, unless it was
\* refused before it read any; and every statistic that was read, and that the
\* driver keeps, has a value.
StatusTellsAll ==
  pc = "done" =>
    /\ status = "OK" <=> got \in Kinds
    /\ got \cup missed \in Kinds \cup {{}}
    /\ \A f \in got \ Unsupported : sp[f] # -1

\* A frame has at least one word.  The values reported never have more frames
\* than words although they are no snapshot, because the frames of a direction
\* are read before its words; only a reset during the call can undo it.
WordsCoverFrames ==
  ~resets /\ status = "OK" =>
    /\ sp["tx_words"] >= sp["tx_frames"]
    /\ sp["rx_words"] >= sp["rx_frames"]

============================================================================
