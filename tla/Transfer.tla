------------------------------ MODULE Transfer ------------------------------
(***************************************************************************)
(* One transfer of the TFTP server, from the request to its end            *)
(* (networking/tftp/tftp_client_handle.c): a read (RRQ) answered by        *)
(* _send_file, or a write (WRQ) answered by _recv_file, over UDP, after    *)
(* the options of the request were answered with an OACK. Packets          *)
(* are lost, delivered late, in another order and more than once; the      *)
(* client, which is not part of the repository, sends again what is not    *)
(* acknowledged. The client's own timer drives every repetition: during a  *)
(* transfer the server's receives have no timeout.                         *)
(*                                                                         *)
(* A block is the number of its chunk of the file; the last one is short.  *)
(* On the wire it is known by its number modulo IdSpace.                   *)
(***************************************************************************)
EXTENDS Integers, Sequences

CONSTANTS
  MaxBlocks,            \* bound: how many blocks a file has
  MaxSent,              \* bound: the number of the last block ever sent
  MaxWindow,            \* bound: the largest window a client asks for
  Asked,                \* bound: the windows clients ask for
  IdSpace,              \* BUF_SIZE: block numbers on the wire have 16 bits
  IntBlocks             \* 2^31 / _block_size, a power of two: blocks an int counts the bytes of

ASSUME SizesAssumption ==
  /\ MaxBlocks \in Nat \ {0} /\ MaxWindow \in Nat \ {0}
  /\ Asked \subseteq 0..MaxWindow
  /\ IdSpace \in Nat /\ IdSpace > 2 * MaxWindow
  /\ IntBlocks \in Nat /\ IntBlocks > MaxWindow
  /\ MaxSent \in Nat /\ MaxSent >= MaxBlocks + MaxWindow

VARIABLES
  op,                   \* "RRQ" or "WRQ"
  blocks,               \* how many blocks the file has, the short one included
  window,               \* handler->_window_size, which may be 0
  pc,                   \* where handle_client is
  net,                  \* packets on their way
  read, buffer,         \* _send_file: chunks read; the chunk in each place of buffer
  outer, block,         \* _send_file: outer_block_id, block_id
  last, slot, written,  \* _recv_file: last_id, i; the chunks in the new file
  base,                 \* client, WRQ: blocks acknowledged; -1 before ACK 0
  got, complete,        \* client, RRQ: chunks received; the short one was among them
  stale                 \* ghost: an ACK came that was not for all that was just sent

request == <<op, blocks, window>>
sending == <<read, buffer, outer, block>>
receiving == <<last, slot, written>>
client == <<base, got, complete>>
vars == <<op, blocks, window, pc, net, read, buffer, outer, block, last, slot, written,
          base, got, complete, stale>>

Places == 0..MaxWindow - 1

(* n is the true number of a block; what a receiver sees is WireId. *)
DataPacket(n, chunk, short) == [kind |-> "DATA", n |-> n, chunk |-> chunk, short |-> short]
Ack(n) == [kind |-> "ACK", n |-> n, chunk |-> 0, short |-> FALSE]
Oack == [kind |-> "OACK", n |-> 0, chunk |-> 0, short |-> FALSE]
WireId(m) == m.n % IdSpace

(* A packet does not live for so long that its number comes round again.   *)
Send(packets, newest) == net' = {m \in net : m.n + IdSpace > newest + window} \cup packets

Init ==
  /\ op \in {"RRQ", "WRQ"} /\ blocks \in 1..MaxBlocks /\ window = 1
  /\ pc = "start" /\ net = {}
  /\ read = 0 /\ buffer = [p \in Places |-> 0] /\ outer = 0 /\ block = 0
  /\ last = 0 /\ slot = 0 /\ written = <<>>
  /\ base = -1 /\ got = <<>> /\ complete = FALSE
  /\ stale = FALSE

-----------------------------------------------------------------------------
(* __recv_rq: a request without options, or with some that are taken over  *)
(* and repeated in an OACK, or with some that are out of range.            *)

RequestWithoutOptions ==
  /\ pc = "start" /\ pc' = "open"
  /\ UNCHANGED <<request, net, sending, receiving, client, stale>>

RequestWithOptions ==
  /\ pc = "start"
  /\ window' \in Asked
  /\ Send({Oack}, 0)
  /\ pc' = IF op = "RRQ" THEN "oack" ELSE "open"
  /\ UNCHANGED <<op, blocks, sending, receiving, client, stale>>

RequestRefused ==
  /\ pc = "start" /\ pc' = "failed"
  /\ UNCHANGED <<request, net, sending, receiving, client, stale>>

(* Before a read: any ACK is an answer, with a wrong checksum or not.      *)
OackAnswered ==
  /\ pc = "oack"
  /\ \E m \in net : m.kind = "ACK"
  /\ pc' = "open"
  /\ UNCHANGED <<request, net, sending, receiving, client, stale>>

(* The only receive with a timeout. The packet is sent again with a length *)
(* that was never set: the client has the OACK again, or nothing it knows, *)
(* or that was the end, as it is after too many timeouts.                  *)
OackTimeout ==
  /\ pc = "oack"
  /\ \/ Send({Oack}, 0) /\ UNCHANGED pc
     \/ pc' = "failed" /\ UNCHANGED net
  /\ UNCHANGED <<request, sending, receiving, client, stale>>

(* __handle_read and __handle_write: is the file there, as it must be for  *)
(* a read and must not be for a write?                                     *)
Start ==
  /\ pc = "open"
  /\ \/ op = "RRQ" /\ pc' = "send" /\ UNCHANGED net
     \/ op = "WRQ" /\ pc' = "recv" /\ Send({Ack(0)}, 0)
     \/ pc' = "failed" /\ UNCHANGED net
  /\ UNCHANGED <<request, sending, receiving, client, stale>>

-----------------------------------------------------------------------------
(* _send_file. *)

First == outer * IdSpace + block            \* blocks sent and acknowledged

(* local_blkid * blk_size, in blocks, for the n-th block: a product of two *)
(* ints, which comes round when the file is too long for them.             *)
Before(n) == ((n - 1 + IntBlocks) % (2 * IntBlocks)) - IntBlocks

(* Seeded fault: >= for >, which forgets the last block. *)
SentButOne == {n \in First + 1 .. First + window : \A k \in First + 1..n : Before(k) + 1 < blocks}

(* The loop over the window ends at the first block beyond the file. *)
Sent == {n \in First + 1 .. First + window : \A k \in First + 1..n : Before(k) < blocks}

(* What is left of the file, if no more than a block, is sent as its end. *)
Block(n, chunk) == DataPacket(n, chunk, Before(n) = blocks - 1)

(* Each turn reads on in the file, whatever was acknowledged, and sends    *)
(* what the buffer then holds as the blocks that come after block_id. What *)
(* the end of the file leaves of the buffer is what was there before. With *)
(* a window of 0 nothing is sent, and an ACK awaited all the same.         *)
(* A read that does not end is followed up to MaxSent.                     *)
SendBlocks ==
  LET filled == [p \in Places |-> IF p < window /\ read + p < blocks
                                  THEN read + p + 1 ELSE buffer[p]] IN
  /\ pc = "send" /\ First + window <= MaxSent
  /\ buffer' = filled
  /\ read' = IF read + window < blocks THEN read + window ELSE blocks
  /\ IF window > 0 /\ Sent = {}
     THEN pc' = "done" /\ UNCHANGED net
     ELSE /\ pc' = "ack"
          /\ Send({Block(n, filled[n - First - 1]) : n \in Sent}, First + window)
  /\ UNCHANGED <<request, outer, block, receiving, client, stale>>

IsReply(id) ==
  LET lastBlock == block + window IN
  \/ block <= id /\ id <= lastBlock
  \/ id <= lastBlock % IdSpace /\ id < block

ReceiveAck ==
  \E m \in net :
    /\ pc = "ack" /\ m.kind = "ACK"
    /\ IF IsReply(WireId(m))
       THEN /\ block' = WireId(m)
            /\ outer' = IF WireId(m) < block THEN outer + 1 ELSE outer
       ELSE UNCHANGED <<outer, block>>
    /\ pc' = "send"
    /\ stale' = (stale \/ m.n + 1 \in Sent \/ m.n \notin Sent)
    /\ UNCHANGED <<request, net, read, buffer, receiving, client>>

(* A wrong checksum ends a read. *)
GarbledAck ==
  /\ pc = "ack"
  /\ pc' = "failed"
  /\ UNCHANGED <<request, net, sending, receiving, client, stale>>

-----------------------------------------------------------------------------
(* _recv_file. *)

(* Seeded fault: the next turn starts where this one ended. *)
EndTurnNoReset(id) ==
  /\ slot' = slot + 1
  /\ IF slot + 1 = window THEN Send({Ack(id)}, id) ELSE UNCHANGED net

(* The loop over the window ends with an ACK for the last block in order.  *)
EndTurn(id) ==
  IF slot + 1 = window
  THEN slot' = 0 /\ Send({Ack(id)}, id)
  ELSE slot' = slot + 1 /\ UNCHANGED net

(* Seeded faults: any newer block; block numbers that come round. *)
IsNextNewer(m) == WireId(m) > last
IsNextRound(m) == WireId(m) = (last + 1) % IdSpace

(* block_id has 16 bits: it is never BUF_SIZE, and last_id never restarts. *)
IsNext(m) == WireId(m) = last + 1

TakeBlock(m) ==
  /\ last' = last + 1
  /\ written' = Append(written, m.chunk)
  /\ IF m.short
     THEN pc' = "done" /\ Send({Ack(last + 1)}, last + 1) /\ UNCHANGED slot
     ELSE EndTurn(last + 1) /\ UNCHANGED pc

(* Seeded faults: the block that came is acknowledged; nothing is. *)
SkipBlockAcked(m) == EndTurn(m.n) /\ UNCHANGED <<pc, last, written>>
SkipBlockSilently(m) == UNCHANGED <<net, slot, pc, last, written>>

SkipBlock(m) == EndTurn(last) /\ UNCHANGED <<pc, last, written>>

ReceiveData(n) ==
  \E m \in net :
    /\ pc = "recv" /\ window > 0
    /\ m.kind = "DATA" /\ m.n = n
    /\ IF IsNext(m) THEN TakeBlock(m) ELSE SkipBlock(m)
    /\ UNCHANGED <<request, sending, client, stale>>

(* A wrong checksum ends the turn at once. *)
GarbledData ==
  /\ pc = "recv" /\ window > 0
  /\ slot' = 0
  /\ Send({Ack(last)}, last)
  /\ UNCHANGED <<request, pc, sending, last, written, client, stale>>

(* A window of 0 has no turns: the last block is acknowledged for ever.    *)
AckForever ==
  /\ pc = "recv" /\ window = 0
  /\ Send({Ack(last)}, last)
  /\ UNCHANGED <<request, pc, sending, receiving, client, stale>>

(* A block cannot be written: the file is removed and an ERROR sent. *)
DiskFull ==
  /\ pc = "recv" /\ window > 0
  /\ \E m \in net : m.kind = "DATA" /\ IsNext(m)
  /\ pc' = "failed"
  /\ written' = <<>>
  /\ UNCHANGED <<request, net, sending, last, slot, client, stale>>

-----------------------------------------------------------------------------
(* The client and the network. An OACK tells a client that writes to       *)
(* begin; a client that reads answers it with ACK 0, which can come twice. *)

ClientReceiveOack ==
  /\ Oack \in net
  /\ IF op = "WRQ"
     THEN base = -1 /\ base' = 0 /\ net' = net \ {Oack}
     ELSE got = <<>> /\ net' = (net \ {Oack}) \cup {Ack(0)} /\ UNCHANGED base
  /\ UNCHANGED <<request, pc, sending, receiving, got, complete, stale>>

ClientSend(n) ==
  /\ op = "WRQ" /\ base >= 0
  /\ n \in base + 1 .. base + window /\ n <= blocks
  /\ DataPacket(n, n, n = blocks) \notin net
  /\ Send({DataPacket(n, n, n = blocks)}, n)
  /\ UNCHANGED <<request, pc, sending, receiving, client, stale>>

ClientReceiveAck(n) ==
  /\ op = "WRQ" /\ Ack(n) \in net
  /\ \E k \in base + 1 .. base + window : k % IdSpace = n % IdSpace /\ base' = k
  /\ UNCHANGED <<request, pc, net, sending, receiving, got, complete, stale>>

(* Bound: a read that does not end is received up to MaxSent.              *)
ClientReceiveData ==
  \E m \in net :
    /\ op = "RRQ" /\ ~complete /\ m.kind = "DATA"
    /\ WireId(m) = (Len(got) + 1) % IdSpace
    /\ Len(got) < MaxSent
    /\ got' = Append(got, m.chunk)
    /\ complete' = m.short
    /\ UNCHANGED <<request, pc, net, sending, receiving, base, stale>>

(* The client acknowledges what it has, whenever it likes. *)
ClientSendAck ==
  /\ op = "RRQ" /\ got # <<>>
  /\ Ack(Len(got)) \notin net
  /\ Send({Ack(Len(got))}, Len(got))
  /\ UNCHANGED <<request, pc, sending, receiving, client, stale>>

(* Any packet may be delivered never. For a write, which is to end, it has *)
(* to be gone before it is sent again; for a read that shows no more.      *)
Lose ==
  /\ op = "WRQ"
  /\ \E m \in net : net' = net \ {m}
  /\ UNCHANGED <<request, pc, sending, receiving, client, stale>>

-----------------------------------------------------------------------------
Next ==
  \/ RequestWithoutOptions \/ RequestWithOptions \/ RequestRefused
  \/ OackAnswered \/ OackTimeout \/ Start
  \/ SendBlocks \/ ReceiveAck \/ GarbledAck
  \/ (\E n \in 1..blocks : ReceiveData(n)) \/ GarbledData \/ AckForever \/ DiskFull
  \/ (\E n \in 1..blocks : ClientSend(n)) \/ (\E n \in 0..blocks : ClientReceiveAck(n))
  \/ ClientReceiveOack \/ ClientReceiveData \/ ClientSendAck \/ Lose

Spec == Init /\ [][Next]_vars

(* The server runs, a client that writes repeats the first block that is   *)
(* not acknowledged, and what is sent again and again gets through: this   *)
(* block to the server, the newest acknowledgement to the client.          *)
FairSpec ==
  /\ Spec
  /\ WF_vars(Start)
  /\ WF_vars(\E n \in {base + 1} : ClientSend(n))
  /\ SF_vars(\E n \in {base + 1} : ReceiveData(n))
  /\ SF_vars(\E n \in {last} : ClientReceiveAck(n))

-----------------------------------------------------------------------------
(* Every variable holds what the code can put there. *)
TypeOK ==
  /\ op \in {"RRQ", "WRQ"} /\ blocks \in 1..MaxBlocks /\ window \in 0..MaxWindow
  /\ pc \in {"start", "oack", "open", "send", "ack", "recv", "done", "failed"}
  /\ \A m \in net : m.kind \in {"DATA", "ACK", "OACK"} /\ m.n \in 0..MaxSent
  /\ read \in 0..blocks /\ buffer \in [Places -> 0..blocks]
  /\ outer \in Nat /\ block \in 0..IdSpace - 1
  /\ last \in 0..blocks /\ slot \in Places /\ written \in Seq(1..blocks)
  /\ base \in -1..blocks /\ got \in Seq(0..blocks)
  /\ complete \in BOOLEAN /\ stale \in BOOLEAN

InOrder(chunks) == \A k \in 1..Len(chunks) : chunks[k] = k

(* Whatever the network does to the packets, the file that a write leaves  *)
(* is the one the client sent: _recv_file writes every block once and in   *)
(* order, and ends only with the last one.                                 *)
UploadFaithful ==
  op = "WRQ" => InOrder(written) /\ (pc = "done" => Len(written) = blocks)

(* A client is never told that a block arrived that was not written, block *)
(* numbers coming round or not.                                            *)
AckedIsWritten == pc \in {"recv", "done"} => base <= Len(written)

(* A file whose block numbers would come round is never received in full:  *)
(* the number that follows BUF_SIZE - 1 on the wire is not last_id + 1.    *)
LongUploadsNeverEnd == op = "WRQ" /\ pc = "done" => blocks < IdSpace

(* As long as every ACK is for all the blocks that were just sent, a read  *)
(* gives the client the chunks of the file in order, also when block       *)
(* numbers come round, and its end where the file ends.  The end comes     *)
(* only if an int counts the bytes of the file, and the server sees it     *)
(* only if there is room for one block more: otherwise the read goes on    *)
(* for ever.                                                               *)
DownloadFaithful ==
  op = "RRQ" /\ ~stale =>
    /\ \A k \in 1..Len(got) : k <= blocks => got[k] = k
    /\ complete => Len(got) = blocks /\ blocks <= IntBlocks
    /\ pc = "done" => Len(got) = blocks /\ blocks < IntBlocks

(* A write that is short enough ends once the client has been told to      *)
(* start, as long as he keeps sending: blocks that come twice are          *)
(* acknowledged again. (If ACK 0 is lost, nobody sends anything again; and *)
(* a client that was granted a window of 0 is never received from.)        *)
UploadEnds ==
  (op = "WRQ" /\ blocks < IdSpace /\ base >= 0 /\ window > 0) ~> pc \in {"done", "failed"}
=============================================================================
