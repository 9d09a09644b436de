------------------------------- MODULE Uploads -------------------------------
(***************************************************************************)
(* What several workers of the TFTP server do to one path of the disk      *)
(* (networking/tftp/tftp_client_handle.c: __handle_write, _recv_file,      *)
(* __handle_read, _send_file), while the HTTP server may remove that path, *)
(* and the one static buffer in which they all compute checksums.          *)
(*                                                                         *)
(* A file that is unlinked or replaced lives on for those who have it      *)
(* open; blocks given to fwrite are on disk only when stdio flushes them.  *)
(* Loss, repetition and order of packets are module Transfer's: here a     *)
(* client sends the block that is due, and it comes whole or garbled.      *)
(***************************************************************************)
EXTENDS Checksum

CONSTANTS
  Workers,
  Blocks,               \* how many blocks a file has, the last one shorter
  MaxUploads,           \* bound: uploads ever accepted
  MaxGarbled            \* bound: packets that come garbled

ASSUME BoundsAssumption ==
  Blocks \in Nat \ {0} /\ Blocks < Base /\ MaxUploads \in Nat /\ MaxUploads < Base
  /\ MaxGarbled \in Nat

(* The opcode of a DATA packet fits into a byte. *)
ASSUME OpcodeAssumption == 3 < Base

Uploads == 1..MaxUploads
None == 0

VARIABLES
  entry,                \* the inode the path leads to, named by the upload that made it
  content,              \* inode -> its blocks on disk
  pc,
  id,                   \* each worker: the upload it serves
  inode,                \* each worker: the inode it has open
  offset,               \* each worker: blocks flushed, or read
  pending,              \* each worker: blocks fwrite has taken and not flushed
  packet,               \* each worker: the packet it received
  size,                 \* each worker: the length __handle_read found
  got,                  \* each worker: the blocks it has sent
  buff,                 \* checksum_'s static buffer
  up,                   \* the process runs
  begun, garbled,       \* counters
  acked,                \* ghost: uploads whose last block was acknowledged
  overlapped,           \* ghost: uploads that were not alone on the path
  spoilt,               \* ghost: uploads removed by the HTTP server, or not flushed
  raced,                \* ghost: workers whose sum another one disturbed
  moved                 \* ghost: workers between whose two opens the path was unlinked

disk   == <<entry, content>>
ghosts == <<acked, overlapped, spoilt, raced, moved>>
vars   == <<entry, content, pc, id, inode, offset, pending, packet, size, got, buff, up,
            begun, garbled, acked, overlapped, spoilt, raced, moved>>

Writing == {"open", "receive", "clear", "copy", "sum", "close"}
Labels  == {"idle", "sent", "size", "reopen", "read"} \cup Writing

Block(u, k) == IF k < Blocks THEN <<u, k>> ELSE <<u>>
Whole(u) == [k \in 1..Blocks |-> Block(u, k)]
Hole == <<>>            \* blocks never written, below one that was

Init ==
  /\ entry = None /\ content = [u \in Uploads |-> <<>>]
  /\ pc = [w \in Workers |-> "idle"]
  /\ id = [w \in Workers |-> None] /\ inode = [w \in Workers |-> None]
  /\ offset = [w \in Workers |-> 0] /\ pending = [w \in Workers |-> <<>>]
  /\ packet = [w \in Workers |-> <<>>]
  /\ size = [w \in Workers |-> 0] /\ got = [w \in Workers |-> <<>>]
  /\ buff = Buffer(6)
  /\ up = TRUE /\ begun = 0 /\ garbled = 0
  /\ acked = {} /\ overlapped = {} /\ spoilt = {} /\ raced = {} /\ moved = {}

At(w, label) == up /\ pc[w] = label
Goto(w, label) == pc' = [pc EXCEPT ![w] = label]

(* The worker is done with its client; what it had in stdio is gone.       *)
Leave(w) ==
  /\ Goto(w, "idle")
  /\ id' = [id EXCEPT ![w] = None] /\ inode' = [inode EXCEPT ![w] = None]
  /\ offset' = [offset EXCEPT ![w] = 0] /\ pending' = [pending EXCEPT ![w] = <<>>]
  /\ packet' = [packet EXCEPT ![w] = <<>>]
  /\ size' = [size EXCEPT ![w] = 0] /\ got' = [got EXCEPT ![w] = <<>>]
locals == <<id, inode, offset, pending, packet, size, got>>

(* The path leads nowhere any more. *)
Unlink ==
  /\ entry' = None
  /\ moved' = IF entry = None THEN moved ELSE moved \cup {w \in Workers : pc[w] = "reopen"}

InProgress == {id[w] : w \in {v \in Workers : pc[v] \in Writing}}

(* write() at an offset of an open file. *)
Longer(m, n) == IF m < n THEN n ELSE m
WriteAt(file, at, blocks) ==
  [k \in 1..Longer(Len(file), at + Len(blocks)) |->
     IF k \in at + 1..at + Len(blocks) THEN blocks[k - at]
     ELSE IF k <= Len(file) THEN file[k] ELSE Hole]

(* The static buffer is written to while w clears it, copies or sums.      *)
Disturb(w) == raced' = raced \cup {v \in Workers \ {w} : pc[v] \in {"copy", "sum"}}

-----------------------------------------------------------------------------
(* __handle_write and _recv_file. *)

(* Without WriteAccess's guard this is a seeded fault. *)
BeginUpload(w) ==
  /\ At(w, "idle") /\ begun < MaxUploads
  /\ begun' = begun + 1
  /\ id' = [id EXCEPT ![w] = begun + 1]
  /\ overlapped' = IF InProgress = {} THEN overlapped
                   ELSE overlapped \cup InProgress \cup {begun + 1}
  /\ Goto(w, "open")
  /\ UNCHANGED <<disk, inode, offset, pending, packet, size, got, buff, up, garbled, acked,
                 spoilt, raced, moved>>

(* A path that exists is refused (FILE_ALREADY_EXISTS) and nothing         *)
(* changes; otherwise ACK 0 tells the client to begin.                     *)
WriteAccess(w) == entry = None /\ BeginUpload(w)

(* fopen "wb" makes the file, or truncates the one somebody made since.    *)
WriteOpen(w) ==
  /\ At(w, "open")
  /\ entry' = IF entry = None THEN id[w] ELSE entry
  /\ content' = [content EXCEPT ![entry'] = <<>>]
  /\ inode' = [inode EXCEPT ![w] = entry']
  /\ Goto(w, "receive")
  /\ UNCHANGED <<id, offset, pending, packet, size, got, buff, up, begun, garbled, ghosts>>

(* fopen fails: ACCESS_VIOLATION. *)
WriteOpenFails(w) ==
  /\ At(w, "open")
  /\ Leave(w)
  /\ UNCHANGED <<disk, buff, up, begun, garbled, ghosts>>

Written(w) == offset[w] + Len(pending[w])

(* A DATA packet: opcode and number of the block, a byte each, and a block. *)
DataPacket(u, k) == Packet(<<3, k>> \o Block(u, k))
DataOf(p) == SubSeq(p, 5, Len(p))

Due(w) == DataPacket(id[w], Written(w) + 1)

(* The block that is due comes, or what the network has made of it. *)
Receive(w) ==
  /\ At(w, "receive")
  /\ \/ packet' = [packet EXCEPT ![w] = Due(w)] /\ UNCHANGED garbled
     \/ /\ garbled < MaxGarbled /\ garbled' = garbled + 1
        /\ \E p \in Garbled(Due(w)) : packet' = [packet EXCEPT ![w] = p]
  /\ raced' = raced \ {w}
  /\ Goto(w, "clear")
  /\ UNCHANGED <<disk, id, inode, offset, pending, size, got, buff, up, begun, acked,
                 overlapped, spoilt, moved>>

(* checksum_: memset, memcpy, and the loop that sums. *)
ClearBuffer(w) ==
  /\ At(w, "clear")
  /\ buff' = Cleared(buff)
  /\ Disturb(w)
  /\ Goto(w, "copy")
  /\ UNCHANGED <<disk, locals, up, begun, garbled, acked, overlapped, spoilt, moved>>

CopyPacket(w) ==
  /\ At(w, "copy")
  /\ buff' = Copied(buff, packet[w])
  /\ Disturb(w)
  /\ Goto(w, "sum")
  /\ UNCHANGED <<disk, locals, up, begun, garbled, acked, overlapped, spoilt, moved>>

Verified(w) == Sum(buff, Len(packet[w])) = 0

(* A good block goes to fwrite and is acknowledged, a bad one makes the    *)
(* client send it again.  After the last block the ACK comes before        *)
(* fclose.  The sum of either ACK is made in the buffer too, in one step   *)
(* and of any bytes: what it does to the others is to disturb them.        *)
SumPacket(w) ==
  /\ At(w, "sum")
  /\ IF Verified(w)
     THEN /\ pending' = [pending EXCEPT ![w] = Append(@, DataOf(packet[w]))]
          /\ Goto(w, IF Written(w) + 1 = Blocks THEN "close" ELSE "receive")
          /\ acked' = IF Written(w) + 1 = Blocks THEN acked \cup {id[w]} ELSE acked
     ELSE Goto(w, "receive") /\ UNCHANGED <<pending, acked>>
  /\ packet' = [packet EXCEPT ![w] = <<>>]
  /\ buff' = Copied(Cleared(buff), <<0, 0>>)
  /\ spoilt' = IF w \in raced THEN spoilt \cup {id[w]} ELSE spoilt
  /\ raced' = (raced \cup {v \in Workers : pc[v] \in {"copy", "sum"}}) \ {w}
  /\ UNCHANGED <<disk, id, inode, offset, size, got, up, begun, garbled, overlapped, moved>>

(* stdio's buffer is full and goes to the disk. *)
Flush(w) ==
  /\ At(w, "receive") /\ pending[w] # <<>>
  /\ content' = [content EXCEPT ![inode[w]] = WriteAt(@, offset[w], pending[w])]
  /\ offset' = [offset EXCEPT ![w] = @ + Len(pending[w])]
  /\ pending' = [pending EXCEPT ![w] = <<>>]
  /\ UNCHANGED <<entry, pc, id, inode, packet, size, got, buff, up, begun, garbled, ghosts>>

(* fwrite fails: the file is closed, the path removed, whatever it leads   *)
(* to, and the client told that the disk is full.                          *)
DiskFull(w) ==
  /\ At(w, "receive") /\ pending[w] # <<>>
  /\ Unlink
  /\ Leave(w)
  /\ UNCHANGED <<content, buff, up, begun, garbled, acked, overlapped, spoilt, raced>>

(* A packet cannot be sent: the handler is left by longjmp with the file   *)
(* still open, and what stdio holds is never written.                      *)
Abandon(w) ==
  /\ At(w, "receive")
  /\ Leave(w)
  /\ UNCHANGED <<disk, buff, up, begun, garbled, ghosts>>

(* fclose writes what is left; its result is not looked at. *)
Close(w) ==
  /\ At(w, "close")
  /\ \/ /\ content' = [content EXCEPT ![inode[w]] = WriteAt(@, offset[w], pending[w])]
        /\ UNCHANGED spoilt
     \/ spoilt' = spoilt \cup {id[w]} /\ UNCHANGED content
  /\ Leave(w)
  /\ UNCHANGED <<entry, buff, up, begun, garbled, acked, overlapped, raced, moved>>

-----------------------------------------------------------------------------
(* __handle_read and _send_file. *)

(* Seeded fault: the path is not looked at, nor is what fopen returns. *)
ReadAccessUnchecked(w) ==
  /\ At(w, "idle")
  /\ moved' = moved \ {w}
  /\ size' = [size EXCEPT ![w] = IF entry = None THEN 0 ELSE Len(content[entry])]
  /\ Goto(w, "reopen")
  /\ UNCHANGED <<disk, id, inode, offset, pending, packet, got, buff, up, begun, garbled,
                 acked, overlapped, spoilt, raced>>

ReadAccess(w) ==
  /\ At(w, "idle")
  /\ entry # None
  /\ moved' = moved \ {w}
  /\ Goto(w, "size")
  /\ UNCHANGED <<disk, locals, buff, up, begun, garbled, acked, overlapped, spoilt, raced>>

(* The first fopen, for the length alone; FILE_NOT_FOUND if it fails, for  *)
(* whatever reason.                                                        *)
ReadSize(w) ==
  /\ At(w, "size")
  /\ \/ Leave(w)
     \/ /\ entry # None
        /\ size' = [size EXCEPT ![w] = Len(content[entry])]
        /\ id' = [id EXCEPT ![w] = entry]
        /\ Goto(w, "reopen")
        /\ UNCHANGED <<inode, offset, pending, packet, got>>
  /\ UNCHANGED <<disk, buff, up, begun, garbled, ghosts>>

(* The second fopen.  Where it fails, because the path is gone or there    *)
(* are no descriptors left, fread from NULL ends the process, as does a    *)
(* window that is too large for the stack.                                 *)
ReadOpen(w) ==
  /\ At(w, "reopen")
  /\ \/ up' = FALSE /\ UNCHANGED <<pc, inode>>
     \/ /\ entry # None
        /\ inode' = [inode EXCEPT ![w] = entry]
        /\ Goto(w, "read")
        /\ UNCHANGED up
  /\ UNCHANGED <<disk, id, offset, pending, packet, size, got, buff, begun, garbled, ghosts>>

(* Seeded fault: one block more than the length said. *)
MoreToSendByOne(w) == Len(got[w]) <= size[w]

MoreToSend(w) == Len(got[w]) < size[w]

(* As many blocks are sent as the length said; where the file has none,    *)
(* they are what the buffer held.  Sums for them are made in the buffer.   *)
ReadBlock(w) ==
  /\ At(w, "read")
  /\ IF MoreToSend(w)
     THEN /\ got' = [got EXCEPT ![w] =
               Append(@, IF Len(@) < Len(content[inode[w]])
                         THEN content[inode[w]][Len(@) + 1] ELSE Hole)]
          /\ UNCHANGED pc
     ELSE Goto(w, "sent") /\ UNCHANGED got
  /\ buff' = Copied(Cleared(buff), <<0, 0>>)
  /\ Disturb(w)
  /\ UNCHANGED <<disk, id, inode, offset, pending, packet, size, up, begun, garbled, acked,
                 overlapped, spoilt, moved>>

(* The download is over, or ended before: an ERROR packet, an ACK with a   *)
(* wrong sum, a packet that cannot be sent.                                *)
ReadEnd(w) ==
  /\ At(w, "read") \/ At(w, "sent")
  /\ Leave(w)
  /\ UNCHANGED <<disk, buff, up, begun, garbled, ghosts>>

-----------------------------------------------------------------------------
(* delete_file, a save that fails, or the sweep of a directory: the HTTP   *)
(* server removes the path.                                                *)
RemovePath ==
  /\ up /\ entry # None
  /\ spoilt' = spoilt \cup {entry}
  /\ Unlink
  /\ UNCHANGED <<content, pc, locals, buff, up, begun, garbled, acked, overlapped, raced>>

Next ==
  \/ RemovePath
  \/ \E w \in Workers :
       \/ WriteAccess(w) \/ WriteOpen(w) \/ WriteOpenFails(w)
       \/ Receive(w) \/ ClearBuffer(w) \/ CopyPacket(w) \/ SumPacket(w)
       \/ Flush(w) \/ DiskFull(w) \/ Abandon(w) \/ Close(w)
       \/ ReadAccess(w) \/ ReadSize(w) \/ ReadOpen(w) \/ ReadBlock(w) \/ ReadEnd(w)

Spec == Init /\ [][Next]_vars

-----------------------------------------------------------------------------
BlockOrHole == UNION {[1..n -> Bytes] : n \in 0..2}

(* Every variable holds what the code can put there. *)
TypeOK ==
  /\ entry \in {None} \cup Uploads
  /\ \A u \in Uploads : \A k \in 1..Len(content[u]) : content[u][k] \in BlockOrHole
  /\ \A u \in Uploads : Len(content[u]) <= Blocks
  /\ pc \in [Workers -> Labels]
  /\ id \in [Workers -> {None} \cup Uploads] /\ inode \in [Workers -> {None} \cup Uploads]
  /\ \A w \in Workers : Written(w) <= Blocks /\ Len(got[w]) <= size[w] /\ size[w] <= Blocks
  /\ buff \in [1..7 -> Bytes]
  /\ up \in BOOLEAN /\ begun \in 0..MaxUploads /\ garbled \in 0..MaxGarbled

Settled(u) == u \in acked /\ ~ \E w \in Workers : pc[w] = "close" /\ id[w] = u

(* An upload whose last block was acknowledged stays on the path, whole,   *)
(* whatever was garbled on its way and whoever tries the path afterwards,  *)
(* unless it overlapped another upload, was removed by the HTTP server,    *)
(* was not flushed, or had a sum disturbed.  The one moment at which it    *)
(* may be short is between its ACK and its fclose.                         *)
AckedStays ==
  \A u \in Uploads \ (overlapped \cup spoilt) :
    Settled(u) => entry = u /\ content[u] = Whole(u)

(* A download that found a settled upload gives exactly that file, if the  *)
(* path was not unlinked between its two opens; and the path leads         *)
(* nowhere at the second open, which nobody looks at, only if it was.      *)
DownloadFaithful ==
  \A w \in Workers \ moved :
    /\ pc[w] = "sent" /\ id[w] \notin overlapped \cup spoilt /\ size[w] = Blocks
       => got[w] = Whole(id[w])
    /\ pc[w] = "reopen" => entry # None

(* A packet whose sum nobody disturbed verifies exactly if it came as it   *)
(* was sent, at even and at odd lengths.                                   *)
ChecksumVerifies ==
  \A w \in Workers \ raced :
    At(w, "sum") => (Verified(w) <=> packet[w] = Due(w))
=============================================================================
