----------------------------- MODULE IpChecksum -----------------------------
(***************************************************************************)
(* The IP header checksum that the forwarder computes for a packet whose   *)
(* destination it rewrote (dns_aeacus_aio.py:134-142): a loop that adds    *)
(* the 16-bit words of the header and adds the carry of each addition      *)
(* back in.  The reference is what a receiver checks (RFC 1071): the       *)
(* one's complement sum of all the words is 0xFFFF.                        *)
(***************************************************************************)
EXTENDS Integers

CONSTANTS Base,      \* 0x10000, the number of values of a word
          Words,     \* 10, the words of a header without options
          Field      \* 6, the word that holds the checksum

ASSUME BaseAssumption == Base \in Nat /\ Base > 1
ASSUME WordsAssumption == Words \in Nat /\ Field \in 1 .. Words

VARIABLES
  header,    \* the words of ip_bytes
  pos,       \* i: the next word
  sum,       \* check_sum
  total,     \* the exact sum of the words so far: what sum abbreviates
  carries    \* how many additions had a carry

checksumVars == <<header, pos, sum, total, carries>>

Word == 0 .. Base - 1

ChecksumTypeOK ==
  /\ header \in [1 .. Words -> Word]
  /\ pos \in 1 .. Words + 2
  /\ sum \in Word
  /\ total \in Nat
  /\ carries \in Nat

\* Line 134 has put zeros into the checksum field.
ChecksumInit ==
  /\ header \in [1 .. Words -> Word]
  /\ header[Field] = 0
  /\ pos = 1
  /\ sum = 0
  /\ total = 0
  /\ carries = 0

\* Slip for Folded: the carry is added only when the sum is past the limit, not
\* at it.
FoldedLate(s) == IF s > Base THEN (s % Base) + 1 ELSE s

\* Lines 138-140.
Folded(s) == IF s >= Base THEN (s % Base) + 1 ELSE s

\* Slip for AddWord: the last word of the header is left out.
AddWordShort ==
  /\ pos <= Words
  /\ sum' = IF pos < Words THEN Folded(sum + header[pos]) ELSE sum
  /\ pos' = pos + 1
  /\ total' = total + header[pos]
  /\ carries' = IF sum + header[pos] >= Base THEN carries + 1 ELSE carries
  /\ UNCHANGED header

\* One round of the loop, lines 136-140.
AddWord ==
  /\ pos <= Words
  /\ sum' = Folded(sum + header[pos])
  /\ pos' = pos + 1
  /\ total' = total + header[pos]
  /\ carries' = IF sum + header[pos] >= Base THEN carries + 1 ELSE carries
  /\ UNCHANGED header

\* Lines 141-142: x ^ 0xFFFF is 0xFFFF - x for a word x.
Store ==
  /\ pos = Words + 1
  /\ header' = [header EXCEPT ![Field] = Base - 1 - sum]
  /\ pos' = pos + 1
  /\ UNCHANGED <<sum, total, carries>>

ChecksumDone == pos = Words + 2 /\ UNCHANGED checksumVars

ChecksumNext == AddWord \/ Store \/ ChecksumDone

ChecksumSpec == ChecksumInit /\ [][ChecksumNext]_checksumVars

-----------------------------------------------------------------------------
(* Properties *)

\* check_sum stands for the exact sum modulo 0xFFFF at every turn of the loop,
\* fits its two bytes, and is 0 for a header of zeros only.
SumIsExact ==
  /\ sum \in Word
  /\ total = sum + carries * (Base - 1)
  /\ total > 0 => sum > 0

\* The exact sum of the first n words of h.
TotalOf(h, n) ==
  LET upTo[m \in 0 .. n] == IF m = 0 THEN 0 ELSE upTo[m - 1] + h[m]
  IN  upTo[n]

\* A receiver accepts the header: its one's complement sum is Base - 1.
ReceiverAccepts ==
  pos = Words + 2 =>
    /\ TotalOf(header, Words) > 0
    /\ TotalOf(header, Words) % (Base - 1) = 0

\* The same in terms of the sum of the loop: with the checksum, the words come
\* to a multiple of Base - 1 other than 0.
FieldCompletes ==
  pos = Words + 2 =>
    /\ header[Field] \in Word
    /\ total + header[Field] = (carries + 1) * (Base - 1)
=============================================================================
