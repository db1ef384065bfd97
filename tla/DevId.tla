------------------------------- MODULE DevId -------------------------------
(***************************************************************************)
(* sg_get_dev_id (sg.c): the device identification page of a LUN is read   *)
(* into the caller's buffer, its designation descriptors are walked, and   *)
(* the best one is moved to the start of that same buffer.                 *)
(*                                                                         *)
(* Every length in the page is the device's word.  The content of a        *)
(* descriptor is therefore chosen when the walk comes to it.  A designator *)
(* is its rank in the order of memcmp.  ByteRange stands for 2^8.          *)
(***************************************************************************)
EXTENDS Integers

CONSTANTS
  NULL,         \* no descriptor
  result_len,   \* size of the caller's buffer (256 in the code)
  ByteRange,    \* 256 in the code
  MaxType,      \* bound on the designator types a device uses (15 in the code)
  MaxRank       \* bound on the ranks of designators

ASSUME LenAssumption ==
  /\ result_len \in Nat
  /\ ByteRange \in Nat \ {0}
  /\ MaxType \in Nat
  /\ MaxRank \in Nat

sizeof_page_header == 4   \* struct scsi_inquiry_dev_id
sizeof_desc        == 5   \* struct scsi_inquiry_desc, one designator byte
SCSI_DTYPE_NAA     == 3   \* the last type that qualifies

Desc == [off : Nat, type : 0 .. MaxType, len : 0 .. ByteRange - 1,
         rank : 0 .. MaxRank]

ASSUME NullAssumption == NULL \notin Desc

VARIABLES
  pc,        \* "idle", "walk" or "done"
  buf,       \* what the caller's buffer holds: "empty", "reply" or "best"
  received,  \* bytes of the reply in the buffer
  rlen,      \* bytes of the descriptor list still to be walked
  dp,        \* offset of the current descriptor
  best,      \* best descriptor so far
  seen       \* auxiliary: the descriptors walked

vars == <<pc, buf, received, rlen, dp, best, seen>>

Init ==
  /\ pc = "idle"
  /\ buf = "empty"
  /\ received = 0
  /\ rlen = 0
  /\ dp = 0
  /\ best = NULL
  /\ seen = {}

smaller(a, b) == IF a < b THEN a ELSE b

\* sg_issue_inquiry asks for no more than an 8-bit length.
inquiry_len == smaller(result_len, ByteRange - 1)

net16_get(hi, lo) == hi * ByteRange + lo

----------------------------------------------------------------------------

\* The INQUIRY fails, or comes back with less than a page header or with
\* another page.  A command that timed out comes back as if it had filled the
\* buffer with zeros.
NoPage ==
  /\ pc = "idle"
  /\ pc' = "done"
  /\ \/ received' = 0 /\ buf' = "empty"
     \/ received' \in 1 .. inquiry_len /\ buf' \in {"empty", "reply"}
  /\ UNCHANGED <<rlen, dp, best, seen>>

\* Slip: the length in the page is believed.
BelievesPage(len, page_len) == page_len

\* The descriptors that can be walked are those that were received.
list_len(len, page_len) == smaller(page_len, len - sizeof_page_header)

Page ==
  /\ pc = "idle"
  /\ pc' = "walk"
  /\ \E len \in sizeof_page_header .. inquiry_len,
        hi \in {0, 1}, lo \in 0 .. ByteRange - 1 :
       /\ received' = len
       /\ rlen' = list_len(len, net16_get(hi, lo))
  /\ dp' = sizeof_page_header
  /\ buf' = "reply"
  /\ UNCHANGED <<best, seen>>

\* Slip: the header of a descriptor is not counted.
DesignatorOnly(d) == d.len

\* Bytes a descriptor takes.
dlen(d) == d.len + sizeof_desc - 1

fits(d) == dlen(d) <= rlen

\* Slip: among equals the longer designator wins.
PrefersLonger(d, b) ==
  \/ b = NULL
  \/ d.type = b.type /\ (d.len > b.len \/ (d.len = b.len /\ d.rank < b.rank))
  \/ d.type > b.type

\* The tests of the loop, in its order.
replaces(d, b) ==
  \/ b = NULL
  \/ d.type = b.type /\ (d.len < b.len \/ (d.len = b.len /\ d.rank < b.rank))
  \/ d.type > b.type

\* The descriptors the device may have put at the current offset: the one seen
\* there before, if the walk were to come back; designators without a byte are
\* equal.
DescAtDp == {d \in [off : {dp}, type : 0 .. MaxType, len : 0 .. ByteRange - 1,
                    rank : 0 .. MaxRank] :
               /\ d.len = 0 => d.rank = 0
               /\ \A e \in seen : e.off = dp => e = d}

\* One turn of the loop, for a descriptor that fits.
WalkDesc ==
  /\ pc = "walk"
  /\ rlen >= sizeof_desc
  /\ \E d \in DescAtDp :
       /\ fits(d)
       /\ rlen' = rlen - dlen(d)
       /\ dp' = dp + dlen(d)
       /\ best' = IF d.type <= SCSI_DTYPE_NAA /\ replaces(d, best) THEN d ELSE best
       /\ seen' = seen \cup {d}
  /\ UNCHANGED <<pc, buf, received>>

\* The best descriptor is moved to the start of the buffer and the rest is
\* cleared.  Without one the buffer stays as it is.
moved ==
  CASE best = NULL                             -> buf
    [] best # NULL /\ dlen(best) > result_len  -> "empty"
    [] best # NULL /\ dlen(best) <= result_len -> "best"

\* The list is used up, or the next descriptor does not fit in it.
EndWalk ==
  /\ pc = "walk"
  /\ \/ rlen < sizeof_desc
     \/ \E d \in DescAtDp : ~fits(d)
  /\ pc' = "done"
  /\ buf' = moved
  /\ UNCHANGED <<received, rlen, dp, best, seen>>

Return ==
  /\ pc = "done"
  /\ pc' = "idle"
  /\ buf' = "empty"
  /\ received' = 0
  /\ rlen' = 0
  /\ dp' = 0
  /\ best' = NULL
  /\ seen' = {}

Next == NoPage \/ Page \/ WalkDesc \/ EndWalk \/ Return

Spec == Init /\ [][Next]_vars

\* The loop keeps running.
WalkFair == WF_vars(WalkDesc \/ EndWalk)

----------------------------------------------------------------------------
(* Properties *)

qualifying == {d \in seen : d.type <= SCSI_DTYPE_NAA}

\* d is to be preferred to e: the higher type, then the shorter designator,
\* then the smaller, then the one that comes first.
Preferred(d, e) ==
  \/ d.type > e.type
  \/ d.type = e.type /\ d.len < e.len
  \/ d.type = e.type /\ d.len = e.len /\ d.rank < e.rank
  \/ d.type = e.type /\ d.len = e.len /\ d.rank = e.rank /\ d.off <= e.off

\* "We get the best information and leave the rest" (sg.c:96): the buffer ends
\* up with the one descriptor preferred to all others that were received whole,
\* whatever order the device sent them in.
BestChosen ==
  pc = "done" /\ qualifying # {} =>
    /\ buf = "best"
    /\ best \in qualifying
    /\ \A d \in qualifying : Preferred(best, d)

\* Whatever lengths the device claims, the walk stays inside the bytes that
\* were received into the buffer, and so does the descriptor that is moved:
\* the case marked "can't happen" (sg.c:154) does not.
InsideReply ==
  /\ received <= result_len
  /\ pc = "walk" => rlen >= 0 /\ dp + rlen <= received
  /\ best # NULL => best.off + dlen(best) <= received

\* The loop ends for every list of lengths.
WalkReturns == pc = "walk" ~> pc = "done"

============================================================================
