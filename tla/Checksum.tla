------------------------------ MODULE Checksum ------------------------------
(***************************************************************************)
(* checksum_ of networking/checksum.c: the complement of the one's         *)
(* complement sum of 16-bit words, two bytes each, over a buffer into      *)
(* which the packet was copied.  A byte has Base values (256 in the code), *)
(* and a word WordSize (2^16).                                             *)
(***************************************************************************)
EXTENDS Integers, Sequences

CONSTANT Base
ASSUME BaseAssumption == Base \in Nat \ {0, 1}

Bytes    == 0..Base - 1
WordSize == Base * Base

(* Seeded fault: the buffer keeps what it held. *)
NotCleared(buffer) == buffer

(* memset and memcpy on a buffer. *)
Cleared(buffer) == [i \in DOMAIN buffer |-> 0]
Copied(buffer, bytes) ==
  [i \in DOMAIN buffer |-> IF i <= Len(bytes) THEN bytes[i] ELSE buffer[i]]

(* A word ends at every second byte; a last byte alone has the next byte  *)
(* of the buffer beside it.                                                *)
Words(len) == (len + 1) \div 2
RunningSum(buffer, words) ==
  LET sum[n \in 0..words] ==
        IF n = 0 THEN 0 ELSE sum[n - 1] + (buffer[2 * n - 1] * Base + buffer[2 * n])
  IN  sum
WordSum(buffer, len) == RunningSum(buffer, Words(len))[Words(len)]

(* What does not fit into a word is added to it again. *)
FoldCarries[n \in Nat] ==
  IF n < WordSize THEN n ELSE FoldCarries[(n % WordSize) + (n \div WordSize)]

Sum(buffer, len) == WordSize - 1 - FoldCarries[WordSum(buffer, len)]

(* What _send puts on the wire: the checksum, high byte first, in front.   *)
(* Data of odd length is padded, which the cleared buffer has done.        *)
Buffer(n) == [i \in 1..n + 1 |-> 0]
Packet(data) ==
  LET sum == Sum(Copied(Buffer(Len(data)), data), Len(data))
  IN <<sum \div Base, sum % Base>> \o data

(* The packet with one byte changed on its way. *)
Garbled(packet) ==
  {[packet EXCEPT ![i] = b] : i \in DOMAIN packet, b \in Bytes} \ {packet}
=============================================================================
