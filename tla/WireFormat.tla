----------------------------- MODULE WireFormat -----------------------------
(***************************************************************************)
(* Network-order fields (net_types.h) and world-wide names (copy_wwn,      *)
(* lport.c).  A field is a sequence of bytes in memory.  Byte-aligned      *)
(* fields are stored byte by byte, aligned ones as words of the host after *)
(* htons or htonl, so that the order of bytes on the host matters.         *)
(* ByteBase stands for 2^8, and a shift to the right is a division by one  *)
(* of its powers.                                                          *)
(***************************************************************************)
EXTENDS Naturals, Sequences, SequencesExt

CONSTANT ByteBase   \* 256 in the code

ASSUME WireAssumption == ByteBase \in Nat \ {0, 1}

VARIABLES
  little_endian,   \* the order of bytes on the host
  width,           \* bytes of the field
  field            \* the field: its bytes in memory, and what was put there

wireVars == <<little_endian, width, field>>

ua_widths  == {2, 3, 4, 6, 8}   \* ua_net16, net24, ua_net32, net48, ua_net64
net_widths == {2, 4, 8}         \* net16, net32, net64

\* 2^(8 * k): how many values k bytes have.
range[k \in 0 .. 8] == IF k = 0 THEN 1 ELSE ByteBase * range[k - 1]

\* (u_int8_t)((val >> 8 * k) & 0xFF)
byte(val, k) == (val \div range[k]) % ByteBase

\* The byte-aligned accessors.
ua_put(n, val) == [i \in 1 .. n |-> byte(val, n - i)]

\* A name as the kernel prints it, put into a HBA_WWN.
copy_wwn(val) == ua_put(8, val)

\* The compile-time initializers, which leave the first byte unmasked.
UA_NET_INIT(n, val) ==
  [i \in 1 .. n |-> IF i = 1 THEN val \div range[n - 1] ELSE byte(val, n - i)]

\* The value of the field's first i bytes is that of the ones before, shifted to
\* the left, and the byte at i.
ua_get(net) ==
  LET upto[i \in 0 .. Len(net)] ==
        IF i = 0 THEN 0 ELSE upto[i - 1] * ByteBase + net[i]
  IN  upto[Len(net)]

\* How the host keeps a word (external).
host_put(n, word) == IF little_endian THEN Reverse(ua_put(n, word)) ELSE ua_put(n, word)
host_get(mem) == IF little_endian THEN ua_get(Reverse(mem)) ELSE ua_get(mem)

\* Slip: on the assumption that host and network agree.
NoSwap(n, word) == word

\* htons, htonl, ntohs and ntohl (external).
swap(n, word) == IF little_endian THEN ua_get(Reverse(ua_put(n, word))) ELSE word

\* The aligned accessors.  The 64-bit field is two words.
net_put(n, val) ==
  IF n < 8 THEN host_put(n, swap(n, val))
  ELSE host_put(4, swap(4, val \div range[4])) \o host_put(4, swap(4, val % range[4]))

net_get(n, mem) ==
  IF n < 8 THEN swap(n, host_get(mem))
  ELSE swap(4, host_get(SubSeq(mem, 1, 4))) * range[4] + swap(4, host_get(SubSeq(mem, 5, 8)))

cleared(n) == [mem |-> ua_put(n, 0), val |-> 0]

WireInit ==
  /\ little_endian \in BOOLEAN
  /\ width = 8
  /\ field = cleared(8)

\* The fields that hold a value after it was put.
Stored(n, val) ==
  {[mem |-> m, val |-> val] : m \in {ua_put(n, val), UA_NET_INIT(n, val)}} \cup
  {[mem |-> net_put(n, val), val |-> val] : k \in {n} \cap net_widths} \cup
  {[mem |-> copy_wwn(val), val |-> val] : k \in {n} \cap {8}}

Values(n) == 0 .. range[n] - 1

Put ==
  /\ field.val = 0
  /\ width' \in ua_widths
  /\ \E val \in Values(width') : field' \in Stored(width', val)
  /\ UNCHANGED little_endian

Clear ==
  /\ width' = 8
  /\ field' = cleared(8)
  /\ UNCHANGED little_endian

WireNext == Put \/ Clear

WireSpec == WireInit /\ [][WireNext]_wireVars

----------------------------------------------------------------------------
(* Properties *)

\* A value comes back whichever kind of accessor has put it into the field and
\* whichever gets it, on a host of either byte order.
ReadsBack ==
  /\ ua_get(field.mem) = field.val
  /\ width \in net_widths => net_get(width, field.mem) = field.val

=============================================================================
