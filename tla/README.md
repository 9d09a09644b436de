# A verification project for file-share-server

The server lets users register, form groups, and keep directories and files in
them. An HTTP server keeps the accounts, groups, directories and files in one
SQLite database and on disk; a TFTP server moves the bytes of the files. Both
hand each client to a worker of a thread pool.

This directory holds TLA+ modules translated from the source, the TLC
configurations that check them on small instances, and theorems that TLAPS
proves for every value of the constants, about every module that has a run. Paths
below are relative to the repository's root.

## 1. Inventory

| Part | State it keeps | Operations | Talks to |
|---|---|---|---|
| Thread pool (`src/systems/thread_pool.c`) | `active`, queue `work`, mutex, condition variable, worker threads | constructor, `add_work`, worker loop, `wait_all`, destructor | both servers (jobs), queue |
| Queue, linked list (`src/data_structures/lists`) | nodes, length | push, peek, pop; insert, remove, retrieve, search, sort | pool, dictionary, model |
| HTTP server (`src/networking/http`) | sockets, route dictionary | `launch` (accept, `add_work`), `http_handler`, parser | pool, controllers |
| Accounts (`user_controller.c`, `model/user.c`, `model/session.c`, `http/helper/helper.c`) | tables `users`, `sessions` | `/register`, `/login`, `/logout`, `get_user_from_request` | database |
| Groups (`group_controller.c`, `model/group.c`) | tables `groups`, `group_members`, folder `UPLOAD_DIR/<code>` | create, update, delete, join, leave, kick, listings | database, disk |
| Directories and files (`directory_controller.c`, `file_controller.c`, their models) | tables `directories`, `files`, the tree on disk | create, delete, update, save, listings | database, disk, TFTP (through the disk) |
| Database layer (`src/database/db.c`) | one connection, with one `last_insert_rowid` | `exec` | SQLite |
| TFTP server (`tftp_server.c`) | socket, one receive buffer | `launch`, `tftp_handler` | pool, transfers |
| TFTP transfer (`tftp_client_handle.c`) | a socket, block counters, file | `handle_client`: read, write, options, error exits | client, disk |
| Dictionary, search tree (`src/data_structures`) | nodes, list of keys | insert, search, iterate | parser, routes |
| Checksum (`checksum.c`), base64 (`helper.c`) | one static buffer; one static table | `checksum_`; `base64_decode` | transfers; authentication |
| Logger, sockets | descriptors | output; socket, bind, listen, close | everyone |
| Main programs (`main/`, `src/main.c`) | `jmp_buf` | start, SIGINT, shutdown order | everyone |

Interaction: the launch loop of a server calls `add_work`; a worker takes the
job and runs the whole request; handlers of different workers meet only in the
database, on the disk and in static variables. The two servers meet only on
disk: `/file/create` names a path, TFTP writes it, `/file/save` records it.

What is hard here: ten workers over one SQLite connection without
transactions, so a handler is a sequence of statements that other handlers
interleave; `sqlite3_last_insert_rowid`, which belongs to that connection; rows
and files that must change together and cannot; a condition variable that is
waited on without looking at the queue; cancellation of threads inside it; a
SIGINT handler that jumps out of any call; UDP that loses, repeats and
reorders; 16-bit block numbers. `PROJECT.json` lists each hazard at its line
and the properties that cover it, or why none does yet.

What makes each part correct: the pool loses no job, runs none twice, keeps
their order, and is freed only when its threads are gone; a client is given its
own session, and a session that was logged out serves nobody; members,
directories and files have the group or directory they name, and rows and disk
describe one tree; a transferred file is the file that was sent.

## 2. Plan

**Done.**

1. `ThreadPool` with its promise `JobPool`; `Accounts`; `Groups`; `Storage`;
   `Transfer`; `TftpServer`, which uses `JobPool` as its pool; `LinkedList` and
   `Dictionary` with `Request`, which runs them.
2. `Uploads`, which composes what several transfers do to one path with the HTTP
   server's removal of it and with `Checksum`; `Sharing`, which composes the
   handlers of directories, files and members with the deletion of their group;
   option negotiation in `Transfer`; the pieces of `recv` and the token's decoding
   in `Request`.
3. What any call may do besides: disk operations and statements that fail in `Groups`
   and `Storage`; names with slashes, saves of any path and restarts in `Storage`; the
   width of an `int` in `Transfer`; one table of descriptors for sockets and files in
   `TftpServer`; overrun buffers in `Sharing`; fields without a value and requests that
   are received in part in `Request`.
4. Proofs of every safety property of every module: `ThreadPool`, `TftpServer`,
   `Transfer`, `Accounts`, `Groups`, `Storage`, `Uploads`, `Sharing` and `Request`.

**Left.**

1. The shutdown order of the main programs: the database is closed before the
   workers are stopped.
2. The request line, the other header fields and the route table.
3. Proofs of what `Request`'s lists and trees do beyond what it runs: inserting and
   removing in the middle of a list.

## 3. Modules

### ThreadPool, JobPool, ThreadPoolProofs

`ThreadPool` models `thread_pool.c`. Thread 0 owns the pool; 1..`NumThreads`
are its workers. `lock` is the mutex's holder, `pc[t] = "wait"` means that `t` is
in the wait set of the condition variable. A worker's loop is `TestActive`
(l.99), `LockAndWait` (l.102-104: lock and wait are one step, since nothing
happens in between and the wait gives the lock up), `Reacquire`, `Peek`, `Pop`,
`Unlock`, `FinishJob`. The owner loops through `Accept` (the `accept` of the HTTP
launch loop) and `AddLock`, `AddPush`, `AddSignal`, `AddUnlock`; `Interrupt` is
SIGINT, whose handler `longjmp`s out of any of these steps; `Deactivate`,
`SignalNext`, `CancelNext`, `JoinNext`, `FreePool` are the destructor. A worker
with a pending cancellation dies in `pthread_cond_wait`, which takes the mutex
back first (`DieWaiting`), or in the blocking calls of its job (`DieRunning`).
`wait_all` is called only by `src/main.c`; `WaitSpec` adds it. That main calls
`pthread_cond_wait` without the mutex, which POSIX leaves undefined; the model
takes the default mutex of the C library, which is then simply unlocked.

`JobPool` is what a pool promises, without threads: jobs leave the queue in
order, each once, into a free slot. `Promise` maps a worker between its pop and
the end of its job to a slot that is taken.

### Accounts (MCAccounts), AccountsProofs

Every action of a handler is one SQL statement, or the read of
`sqlite3_last_insert_rowid`. A session's token is random and unique, and its id
stands for it. A worker that serves a request takes it (`Register`, `Login`,
`Authenticate`), makes its statements, answers, and is free again (`Close`).
`AuthSession` and `AuthUser` are `get_user_from_request`; what follows is
`Serve`, `ServeInsert` (another handler's INSERT, which also moves the last
rowid) or logout. Ghosts note the row a login inserted, whether an INSERT came
after it, and the tokens that were logged out when a request arrived.
`is_expired` is modelled by what it does: it never says yes.

### Groups (MCGroups), GroupsProofs

`group_controller.c` over `model/group.c`: each statement and each folder
operation is an action, with the rollback of `group_save` (`UndoCreate`), the
`ON DELETE CASCADE` of the schema in `DeleteRow`, and INSERTs of other handlers
(`OtherInsert`). A group's random code is its id. The requests that start from
`group_find_by_code` share `FindGroup`; `FindLabel` says where each goes on, and
for whom. A `mkdir`, a sweep and a statement may fail in any state, besides where they
must: the disk is full, `UPLOAD_DIR` is gone, `remove_directory` meets an entry that
another sweep took before it could `stat` it (`utils/helper.c:121-131`) or a directory
that got a new one. A `SELECT` of `is_member` that fails answers -1, which join and
leave take for a member. The ghost `left` notes the groups of which a failed sweep or
statement left the folder or the row. After `InsertOwner` the answer prints a time that
nobody has set, and the process may end. A creation
that reads another INSERT's rowid sets the ghost `raced`; properties that such a
creation breaks are stated for behaviours without one. Descriptions are left out.

### Storage (MCStorage), StorageProofs

Directories and files of one group, in the tables and on disk. A path is the
sequence of its components below `UPLOAD_DIR/<code>`, and so is a name, since clients
may send names with slashes. `MakeParent`, `MakeMkdir` and `MakeInsert` are
`/directory/create`. A save (`SaveAccess`, `SaveInsert`, `SaveUndo`) comes with whatever
the client says: any path on disk, any name, any group, any directory, also one of
another group (`Elsewhere`) or one that is not there. `Upload` is the TFTP server,
which writes wherever its client says; `/file/create` only answers, and is `Sharing`'s.
`DeleteElsewhere` is the end of other groups or their directories, which takes the rows
of what was saved for them. `DeleteDirSweep` is `remove_directory`, which may stop half
way; what it removes is any set that leaves a tree. Every `mkdir` and every statement
that writes may fail. `Restart` is the end of the process between any two steps, with a
new start on the rows and the disk it left.

A deletion reads the path, deletes the row and sweeps the path in three steps. The ghost
`stolen` notes the three ways in which a row loses what it describes: a sweep that is
`stale` (the row was already gone, or the path was made again before the sweep came);
`remove()` of a file's path where there is a directory; and the sweep of a directory into
which a name with slashes reaches from above (`ReachInto`): after `a` and then `a/b` are
made in the group's folder, deleting `a` takes the directory of `a/b`, whose row stays.
`Filed` says that a file's row and its path agree; a client can save one for which
they do not, and nothing is claimed of that file but its directory's row.
What `ON DELETE CASCADE` takes, `Cascade`, is the least set that has the row and is
closed under children; `Below` is the same in `Sharing`.
Everybody is a member and everything may be written here; who may do what is
`Sharing`'s.

### Sharing (MCSharing), SharingProofs

The rows of one group as all handlers of directories, files and members read and write
them: permissions, their updates and inheritance, ownership and membership, and the
listings. A request is a record that goes through statements (`FindGroup`, `IsMember`,
`FindDir`, `HasDirectory`, `Inherit`, ...), and what a handler does next is said once
per statement, for all kinds of request (`AfterGroup`, `AfterMember`, `AfterFindDir`).
`Join`, `Leave` and `DeleteGroup` are the statements of `Groups`'s requests that change
these rows. A listing fetches one row per step (`ListRows`), since `sqlite3_step` lets
other statements run in between, except where an `ORDER BY` has sorted all rows first. A
name or path that the client sent is printed into an array of fixed size (`path[1024]`,
`file_controller.c:66` and 71; `fullpath[1024]`, l.288-289; the path in
`directory_save`): if it is too long, what follows is undefined, and `Overrun` ends the
process there (`AnswerPrinted`, `InsertDir`, `InsertFile`). No property says when that
may happen, and rows that are printed later are taken to fit. A file of this group may
be saved for a directory of another (`Elsewhere`), which can go at any time
(`DeleteElsewhere`); files of other groups in this one's directories are left out. A
statement fails only where a constraint of the schema makes it. Ghosts, set by `Observe`
in every step, note whose request others wrote under, and what was there throughout a
listing or at some time of it. A request's arrival is one step with its first statement,
and locals that no later statement reads are dropped (`Kept`): both only spare states.
`size` and `modified_by` are left out: they are written together with the permission.

### Transfer, TftpProofs

One transfer from its request to its end. `RequestWithOptions` grants a window, which
may be 0, and answers with an OACK; a read then waits for an ACK with the only timeout
there is (`OackTimeout`, which sends again with a length that was never set).
`SendBlocks` and `ReceiveAck` are the two halves of a turn of `_send_file`;
`ReceiveData` a turn of the inner loop of `_recv_file`, and `AckForever` its outer loop
when the window is 0. `net` is a set of packets from which any can be delivered any
number of times, in any order, or lost (`Lose`; for a read a packet that is never
delivered shows as much, so that action is kept to writes, which have a liveness
property). `Sent` is the loop over the window, whose test multiplies two `int`s (l.608,
615): `Before` is that product in blocks, which comes round to negative numbers after
`IntBlocks` blocks (2^31 bytes over the block size). A file as long as that is therefore
read on beyond its end, no short block is ever sent, and the model follows such a read
up to block `MaxSent`. The client is not in the repository: it is the usual TFTP client,
which sends again what is not acknowledged. A packet carries its true number `n`, and
the server sees it modulo `IdSpace` (`BUF_SIZE` in the code). `Send` drops packets so
old that their number has come round; every window protocol needs that assumption. Left
out: the hand-over to a new port and ERROR packets of the client (`TftpServer`), the
content and sum of a packet (`Uploads`), and a block size of 0.

### Checksum, Uploads (MCUploads), UploadsProofs

`Checksum` is `checksum_` as operators on a buffer of bytes with `Base` values: the sum
of its words is the recursive function `RunningSum`, then the carries are folded in.
`Uploads` is what several transfers do to one path. A write goes through `access`
(`WriteAccess`), `fopen` (`WriteOpen`), and for each packet through the three steps of
`checksum_` in its one static buffer (`ClearBuffer`, `CopyPacket`, `SumPacket`);
`fwrite`'s blocks wait in `pending` until stdio flushes them; the last ACK comes before
`fclose` (`Close`), whose failure nobody sees. A read opens the path twice, for the
length (`ReadSize`) and for the content (`ReadOpen`), and ends the process when the
second `fopen` fails: because the path is gone, or for lack of descriptors, or when the
window's array is larger than the stack (l.565-566). The path leads to an inode, named
by the upload that made it, so that a file that was unlinked lives on for those who have
it open. `RemovePath` is the HTTP server. Loss and order of packets are `Transfer`'s:
here a packet is the one that is due, or that one with a byte changed. Sums of packets
that are sent disturb the buffer in one step.

### TftpServer (with JobPool), TftpProofs

The server around `Transfer`. `Receive` is the launch loop, whose one buffer every
job points to; `Pool` is an instance of `JobPool`, so that `ThreadPoolProofs`'
theorem says that the real pool does nothing else. A worker makes its socket
(`Create`), sends the client its port (`Offer`), waits for one datagram there
(`Listen`, `Hear`), and only then copies the request (`CopyHeader`, `CopyBody`).
Then it serves it. A read opens its file for its length (`OpenSize`, `CloseSize`) and
again for its blocks (`OpenAgain`); a write opens it once (`OpenWrite`). The request ends
by `Finish`, or by `CloseFile` and then `Terminate`, or in the middle: `ErrorPacket` (the
request itself is an ERROR: later opcodes are compared in the wrong byte order),
`Terminate`, which closes the socket, and `GiveUp`, which frees the handler and so closes
it too. These jump out and leave an open file open (`Jump`; the ghost `left`).
`FreeHandler` follows each of them, and closes again what was closed before.

Sockets and files share the process's table `fds`: the socket of job `n` is `n`, its file
`-n`. Descriptors are given out lowest first, as by the kernel, and a close closes
whatever the descriptor stands for by then, so one closed twice can be another handler's
socket or file; that one is then `robbed`, and its own closes go astray in turn. A
receive that waits keeps the socket it waits on. A failed `socket()` or `bind()` ends the
process (`CreateFails`); `create_handler` that returns NULL frees nothing (the ghost
`failed`). `Dies` is every other way in which one request alone, or a jump through a
freed handler, is undefined: a datagram of less than 4 bytes (l.126), data copied into
`malloc(sizeof(Packet))` (l.67, 125-128), names, modes and options in arrays of fixed or
unchecked size, a repeated packet whose length was never set (l.646), `fread` of NULL. No
property says when the process may end, since a request may end it at almost any point.
Which kind a request is, and what the transfer does, are left out. `Receive`, the
copy of the header and that of the data are single steps; a copy torn in the middle
is a mixture that the two steps already show. Its `ServerInit`, `ServerNext`, `step` and
`data` are named so that `TftpProofs` can extend it beside `Transfer`.

### LinkedList, Dictionary, Request (MCRequest), RequestProofs

`LinkedList` has a list as its struct together with its heap cells, and `insert`,
`remove`, `retrieve` and the destructor on pointers and addresses; the queue is made
of these. `Dictionary` has the search tree and the list of keys in order of
insertion. The keys' order is that of numbers, and, as in the code, `next` leads to
the smaller ones.

`Request` is a worker from `recv` to its answer. `Received` stores up to three pieces in
the buffer the way `http_handler` does: each as far from the beginning as the last one
was long, with no end written after it, so what an earlier request left there goes on
after this one. (The buffer is on the worker's stack and never set: that it still holds
what the worker's last request left is one of the things it can hold, and the one
assumed.) Only the first `recv` waits: the others end after 50 ms
(`http_server.c:163-166`), so any part of a request may be all that is received, its
last field without its value (`InTime`). Then comes `extract_body`. A step is a call of
`strtok`, whose place, `saved`, belongs to the process: `Begin` and `CutKey` set it,
`Split` and `CutValue` go on from it, whoever set it. A piece is a key with a tag that
says whose it is and stands for its value; `NoKey` is the key of a field without a
value, of which `strtok(NULL, "\0")` has nothing to give, so that `value[0]` ends the
process (`http_request.c:167-169`). When a worker begins without a text, its call before
found the end of its own request line. What `strtok` remembers after the last piece is
taken to be still a terminator, although the cell it is in may have been freed. Last,
the handler may ask for its user: `CutType` and `CutToken` cut the token off its header,
again with `strtok` (the header was copied without its terminator, so more may follow
the token: `Garbage`), and `TestTable`, `BuildTable`, `FillTable` and `Decode` are
`base64_decode` with its one table.

## 4. Runs

| Run | Shows | Bounds |
|---|---|---|
| `pool` | jobs are accounted for, the mutex guards the queue, the pool is freed only when quiet; wakeups serve jobs and a backlog never shrinks by itself; `ThreadPool` implements `JobPool` | 2 workers, 4 jobs, 1 spurious wakeup |
| `pool_lost_wakeup` | **violated**: a job that was added is not always executed | 2 workers, 2 jobs |
| `pool_destructor` | **violated**: a destructor that began need not end | 2 workers, 2 jobs |
| `pool_wait_all` | **violated**: `wait_all` returns while a job runs | 1 worker, 1 job |
| `accounts` | no service after logout; a login returns another session, and the process dies on a missing one, only after certain interleavings | 2 workers, 2 users, 3 sessions, 1 other INSERT |
| `groups` | unless raced, rows and folders match when idle, up to groups of which a sweep or a statement failed, and a group ends by its owner's delete or the rollback of its own creation | 2 workers, 2 users, 2 names, 2 groups, 3 memberships, 1 other INSERT |
| `storage` | rows form a tree with true paths, and so does the disk; a directory's row has its directory up to what is stolen; a file that is where its row says leaves the disk only by a request about its path, up to what is stolen | 2 workers, 2 directories, 1 file, depth 2, names of 1 and 2 components, any number of restarts |
| `sharing` | listings show what stays and nothing that never was; updates are undone only by requests that were written under; a pointer that is NULL or unset is met only in three places | 2 workers, 2 users, 1 directory, 1 file |
| `transfer` | uploads are faithful, acknowledged blocks are written, too long uploads never end, downloads are faithful until an ACK is not for all that was sent, and whole if an `int` counts their bytes; uploads end | 7 blocks, windows 0, 1 and 2, 5 numbers, an `int` of 6 blocks, 12 blocks ever sent |
| `uploads` | an acknowledged upload stays, whole, unless it overlapped, was removed, not flushed or had a sum disturbed; downloads of it are faithful; undisturbed sums verify exactly what was sent | 2 workers, 2 uploads of 2 blocks, bytes of 4 values, 1 garbled packet |
| `tftp` | a handler serves its own request or a later one; sockets and files are closed by others only where one failed or was robbed, open ones have a handler, up to those that were never made or were jumped out of; a client's answer is enough to be served | 2 workers, 4 requests, 3 descriptors |
| `request` | lists stay well formed, an undisturbed request is parsed exactly and its token decoded, entries stay, the process dies only after a mixture, a cut in the request or on a field without a value | 2 workers, 2 texts of up to 3 fields (3 together), 3 keys |

Two workers are enough for each race to have both its sides, and two of a kind
(groups, directories, uploads, jobs beyond the number of workers) for one to be
confused with another; four jobs with two workers leave jobs queued behind busy
workers. Seven blocks with five numbers make block numbers come round within a
file, and leave a window after that; the window is 1 when no options are asked for.
Four requests on two workers with three descriptors let a handler that failed close
the socket or the file of another, that one close a third's in turn, and the table run
full. Six blocks to an `int` and seven to a file make the product come round within a
file. Three keys give the tree every shape with two levels below
its root, and repeated keys; three fields come in up to three pieces. `MaxTexts` is
needed because a worker that cuts never stops as long as others begin texts it can
take. In `uploads` the last block is shorter than the others, so packets of even and
of odd length are summed. In `sharing` the one directory is in the group's folder:
what nesting does to rows and disk is `storage`'s question.

In `storage`, one component name with depth two gives the names `a` and `a/a`, and files
one level deeper; two directory rows are enough for a name that reaches into another
directory, and two workers for a sweep that comes late. A path that is made again before
an old sweep of it comes would need four rows below the group's folder, but two in it.

Users, names and workers that no formula orders are symmetric. `WakeupsServeJobs`,
`UploadEnds` and `AnsweredIsServed` are liveness properties and run without symmetry.

Deadlock is not an error in any run: the launch loop has a bound on its jobs, a
destroyed pool, a finished transfer or a dead process does nothing more, and
counters of rows have bounds.

Every property of a passing run has a seeded fault: a definition beside the real
one, marked *Seeded fault*, that makes a plausible mistake; with it in place of
the real one TLC finds the property violated. They document what each property
is able to see.

### Findings

The violated runs quote what the repository says and show what it does.
`thread_pool.c:104`: lost wakeup. `thread_pool.c:77`: cancellation inside the
wait keeps the mutex. `thread_pool.c:144`: `wait_all` watches the queue only.

Behaviour that passing runs contain and name, since their properties say under
what condition it cannot happen:

- a login is answered with the session of another INSERT's rowid
  (`session.c:79`, `UndisturbedLogin`); a creation goes on with another group
  (`group.c:113`, `CleanUnlessRaced`); a sweep or a statement that fails leaves a folder
  without a row or a row without a member (`left` in `CleanUnlessRaced`);
- a save that fails, such as the second save of a file whose row is there, removes
  whatever is at its path, a directory too (`sfUndo` in `FilesOutliveOthers`); a second
  deletion of a directory takes what was made there since, and the deletion of a directory
  takes what a name with slashes has put into it (`stolen` in `RowHasDirectory`); a file
  saved for one directory and lying in another goes with the latter while its row stays
  (`Filed`);
- an update that names no permission writes the old one back (`NoLostUpdates`); a
  deleted directory or group ends the process of a request that goes on with it
  (`CrashHasCause`); a long name or path does so by itself (`Overrun`);
- an ACK that is late or came twice makes a download go on in the file with blocks
  that were not received (`tftp_client_handle.c:571`, `stale` in `DownloadFaithful`); a
  file of 2 GiB or more is read without end, since the product of the block's number and
  size overflows (`tftp_client_handle.c:608`, 615, `IntBlocks` in `DownloadFaithful`); a
  window of 0 is granted, and an upload then acknowledges for ever
  (`tftp_client_handle.c:786`, the hypothesis of `UploadEnds`);
- two uploads of one path both pass the `access` check and share a file, and a
  concurrent sum makes a bad packet good (`AckedStays`, `ChecksumVerifies`);
- a datagram received before the handler has copied its own request is served in its
  place (`NeverAnOlderRequest`); a handler that `_terminate` left closes a descriptor
  that may be another's socket or file (`SocketTakenByFailed`);
- two requests parsed at once take each other's fields or end the process, as a field
  without `=` does by itself, a third piece of a request overwrites the second, and a
  token is decoded with a table that is half filled (`UndisturbedParse`).

### Fairness

`ThreadPool`: weak fairness of each worker, of `add_work` and of the destructor:
threads that can run are scheduled, mutexes are not starved for ever, and a job
that is not cancelled ends (clients that never do are in the hazards). Nothing
is assumed of `Accept`, `Interrupt` or spurious wakeups.
`Transfer`: the server starts; the client repeats its first unacknowledged
block (weak); that block and the newest acknowledgement get through if sent
again and again (strong). The server needs no fairness beyond its receive: it
acts only when a packet comes, having no timer of its own during a transfer.
`TftpServer`: a worker that can receive the answer or copy the request does so (weak);
nothing is assumed of clients, nor of the end of a transfer, whose receives have no
timeout.
The other modules state safety only; a handler has no loop that could starve.

## 5. Proofs

`ThreadPoolProofs` assumes only `NumThreads \in Nat \ {0}`, `MaxJobs \in Nat` and
`MaxSpurious \in Nat`, and proves:

- `TypeCorrect`: `TypeOK`, together with `HandsOK`: which labels mean that a worker
  has a job in hand. `TypeOK` alone is not inductive for the steps that
  use the job.
- `QueueIsGuarded`: `MutualExclusion`. Its invariant `LockInv` adds that workers are
  cancelled only while the pool is being destroyed; a cancelled worker that dies
  with the mutex would otherwise break it at any time.
- `PoolFreedWhenQuiet`: `FreedWhenQuiet`. `JoinInv` says that every worker before
  the loop counter is gone; `WorkerMoves` that those who are gone stay.
- `Implements`: `Spec => JobPool's Spec` under the refinement mapping. It needs
  `PopInv`: between peek and pop a worker has the head of the queue in hand,
  which follows from the mutex. Each action maps to one abstract action or none.
- `JobsAccounted`: `JobsAccountedFor`, inductive relative to the invariants above.
- `BacklogStays`: `BacklogNeverRecovers`. A pop and the wakeup it uses up cancel out,
  and so do a push and its signal, or the signal and the worker it wakes; the library's
  facts on finite sets count the workers that are on their way.

The conjunction `Inv` (`TypeOK`, `HandsOK`, `LockInv`, `JoinInv`) with `PopInv` is
proved inductive one action at a time; each theorem ends with a temporal step
over those facts.

`TftpProofs` is about `TftpServer` and `Transfer`. Of the server it assumes only that
`MaxRequests` and `MaxDescriptors` are numbers, for any set of workers, and proves all its
safety properties:

- `ServerTyped`: `ServerTypeOK`, inductive because it includes `JobsHaveSockets`: a worker
  in work has a job and a descriptor, and one in a transfer its file's, without which
  `fds[fd[w]]` and the sets the job's number is added to would not be typed.
- `NoOlderRequest`: `NeverAnOlderRequest`. Its invariant `Ordered` adds what makes
  "later" meaningful: the buffer holds the request received last, no job that waits
  or runs is for a request yet to come, and a copied header is at least the
  worker's own. So when the header or the data is copied from the buffer, it is no
  older than the job, and the data no older than the header.
- `SocketsAreClosed` and `OnlyFailedTake`: `LeaksOnlyUncreated` and
  `SocketTakenByFailed`. `InLine` says that jobs leave the queue in
  the order of their numbers and that a job is at one worker; `Owners`, that a job's
  socket is open at most at its worker's descriptor, and its file there too unless the
  transfer was jumped out of, and that both are open until the worker failed or was
  robbed. So who closes what is not its own has lost it before. `Keeping` conjoins them.

Of a transfer it assumes `SizesAssumption`: blocks and windows of any number, more
than twice as many block numbers as the largest window, and an `int` that counts the
bytes of more than a window. It proves all safety
properties:

- `TransferTyped`: `TypeOK`, with `PacketsTyped` and `Stages` (what each place of
  `handle_client` implies).
- `UploadsAreFaithful`, `AckedWereWritten`, `LongUploadsDoNotEnd`: the invariants are
  `Numbered` (`last_id` counts what was written and never reaches `IdSpace`), `Fresh`
  (what is on its way is less than a round of numbers away from what may be sent next)
  and `Saved`. From `Fresh` follow the lemmas `AckMeansItself` and `NextMeansItself`: of
  all packets that can be in the network, only the right one has the number that is
  looked for. They rest on `ModSame`: two numbers less than a round apart that are equal
  modulo `IdSpace` are equal.
- `DownloadsAreFaithful`: `DownloadFaithful`. As long as no ACK was stale, `Paced` says
  that the server reads on in the file exactly where the client is, and that what is in
  the buffer are the blocks about to be sent; `ReplyCounts` shows that `outer_block_id`
  and `block_id` count as far as the ACK, also when its number came round. `SentEnds`
  and `SentWithin` are where the `int` comes in: the short block is sent only if the
  product that finds it did not overflow (`BeforeSmall`).

`AccountsProofs` assumes that no user is `NoUser` and the bounds are numbers:

- `AccountsTyped`: `TypeOK`, with the finiteness of the set of registered users.
- `LoggedOutIsOut`: `NoServiceAfterLogout`. `TokensIssued` and `RowsOfSessions`: what a
  client knows was inserted, and a session that was logged out has no row and will
  have none, since ids are not used again.
- `LoginUndisturbed`: `UndisturbedLogin`. `LoginsUnderWay`: the last rowid is the row a
  login inserted until another INSERT disturbs it.

`GroupsProofs` assumes that `NoUser` is no user, `NoName` no name, and the bounds are
numbers:

- `GroupsTyped`: `TypeOK`.
- `RowsMatchFolders`: `CleanUnlessRaced`. `RowsOfGroups`: ids are not used again and a
  deleted group has no row. While no creation was raced, `Undisturbed`: a creation has
  its row to itself and nobody knows its code; and `RowsAndFolders`: row and folder come
  and go together, up to what a request is still to do and what a sweep or a statement
  that failed left.
- `OwnersEndGroups`: `GroupsEndByOwner`, from the same invariant: the delete that was
  let through is of a group that has still the owner it had, and what an undisturbed
  creation rolls back, whichever of its steps failed, is its own row, whose code nobody
  knows.

`StorageProofs` assumes `BoundsAssumption` (the bounds are numbers, a path has at least
one name) and proves all properties of `Storage`:

- `TypeCorrect`: `TypeOK`. `Types` adds which requests the labels go with.
- `TreesStay`: `Trees`. `DirTree` says that the parent of a directory's row has a row and
  that its path is the parent's with its name, slashes and all, which no statement
  changes; `WorkerPath`, that what a request read before is still so while the row is
  there, since ids are not used again; `FileTree` and `DiskTree` are the rest. That the
  rows still make a tree after a deletion rests on
  `Cascade` being the least closed set: no row that is left has a parent that went.
- `RowsHaveDirectories`: `RowHasDirectory`. It is not enough to speak of rows. A directory
  is made before its row is inserted, and in between a sweep can come; so `ClaimsHold`
  speaks of claims, of rows and of workers between `mkdir` and INSERT alike: what is
  claimed is there, is claimed once, and is not what a sweep still to come is about, up to
  what is stolen. What lies below a sweep's directory is `SweptClaims`: going up from a
  claim by `parent_id`, either some row's path is the swept one, or a name reaches in
  there from above, and then the sweep notes it in `stolen`.
- `OthersLeaveFiles`: `FilesOutliveOthers`, from the same invariant: a file that is where
  its row says goes with its directory only if that is taken from under a row, too.

`UploadsProofs` assumes `BaseAssumption` (a byte has at least two values),
`OpcodeAssumption` (opcode 3 is a byte, which 256 values leave no doubt about) and
`BoundsAssumption`, and proves all properties of `Uploads`:

- `TypesHold`: `TypeOK`, with `Lengths` and `Stages` (what each label of a worker implies
  about its locals).
- `ChecksumsVerify`: `ChecksumVerifies`. `Sums` says what is in the static buffer at each
  step of an undisturbed sum. What is left is arithmetic: folding the carries keeps a
  number modulo `WordSize - 1`, so the sum of a packet and of its checksum comes to all
  ones; and a changed byte changes the total by less than that, so the sum tells.
- `AckedUploadsStay` and `DownloadsAreFaithful`: `AckedStays` and `DownloadFaithful`.
  Everything is said of uploads that are `Clean`, that is, not overlapped and not spoilt:
  `Alone` (its writer has the path to itself), `Opening`, `Filling` (what is in the file
  and what is pending are the blocks that were sent, in order) and `Left`; and of a
  download whose path was not unlinked meanwhile (`Reading`). `Fresh`, that an upload
  which has not begun has left no trace, is what makes a new number a new inode.

`SharingProofs` assumes `BoundsAssumption` (there is the owner, and the bounds are
numbers) and `RowAssumption` (no row is not a row) and proves all properties of
`Sharing`:

- `TypesOfSharing`: `TypeOK`. `Fitting` says which labels go with which kind of request.
- `ListsShowWhatStays`: `ListsWhatStays`. `Listing` says, for each label of a listing,
  that what was there all the time is listed or still to come: rows are fetched in the
  order of their ids, so what is to come has a higher one than any that was fetched.
- `UpdatesAreKept` and `EndsHaveCauses`: `NoLostUpdates` and `CrashHasCause`.
  `Undisturbed` says that a request nobody wrote under still finds what it read
  (`AsRead`). A step is its worker's own (`Own`), and every other request either sees the
  rows it read unchanged or is marked by `Observe` in that step (`OthersRead`,
  `OthersList`).

`RequestProofs` assumes only `BoundsAssumption` (the bounds are numbers), for any set of
workers, and proves all properties of `Request`. It comes in three parts:

- Lists. `Layout(l, s, Data)` says that `l` runs along the addresses `s`: the head is the
  first, each points to the next, none comes twice, and they are all the cells there are.
  From it follow what `Chain` and `Items` read (`ListFacts`), and that `Push` and `Pop`
  append to and take from the sequence that is read (`PushFacts`, `PopFacts`), with a
  fresh address wherever it lies.
- Trees. `Grown` says that nodes are numbered as they were attached, so that pointers
  lead to higher numbers: hence a search ends, at the node with the key or where it
  would hang (`DescentEnds`). `AttachFinds` and `InsertFacts`: an insert makes its key
  found if it was not, and every other search ends as before. Nothing is said of the
  order of the nodes, since none is needed: a search for another key turns off before
  the new node or ends above it, wherever that hangs.
- Workers. `Inv` conjoins `Typed`, `Stages` (where a worker has fields, keys and
  something held against it), `Undisturbed`, `Dies` and `Tables`. `Progress(w)`, for a
  worker not in `mixed`, says that the keys in its dictionary and the fields in its
  queue are together those of its buffer, in order, and that each key is found with its
  first value (`KeysTaken`, `FirstStep`). `TextLeft` says what `saved` is, for the
  worker that called `strtok` last: the rest of its text. So the next call of this
  worker finds it, and of any other puts that one into `mixed`. `Keeps` is that a step
  leaves what the others hold. `Tables`: a table that can be seen and is not filled has
  somebody who is filling it.

`TypeCorrect` is `TypeOK`; `UndisturbedIsParsed` is `UndisturbedParse`, where
`ReceivedFacts` shows that two pieces of `recv`, when both came in time, make up what was
sent (`InTimeFacts`), and `Dies` that whoever ends the process had a field without a value
in its buffer or was in `mixed`; and
`InsertsLeaveEntries` is `EntriesStay`.

Two arguments stand in for induction over data, which the provers cannot do. Where a
claim is about numbers of any size, the least counterexample is taken
(`LeastNumber` in `SharingProofs`; a shortest path in `StorageProofs`; the first cell that
is not where it should be in `RequestProofs`), which exists because `<` on numbers is
well-founded. Where a function is recursive, a function with that
recursion is given in closed form first: `CHOOSE` then has something to choose
(`FoldCarries` in `UploadsProofs`, `DescentExists` in `RequestProofs`).

Only model-checked: `WakeupsServeJobs`, `UploadEnds` and `AnsweredIsServed`, since
liveness is out of the prover's reach.

## 6. Not modelled

- The shutdown order of the main programs (`main/http.c:97`: the database is closed
  before the workers are stopped), and the shutdown of the TFTP server.
- In `Storage`, names and paths with empty components, "." or "..", which lead to other
  places than they spell.
- Statements that fail in `Accounts` and `Sharing` though no constraint makes them.
- Arrays of fixed size that other handlers copy texts into (a user's names in
  `model/user.c:32-34`, listings), and what an overrun does other than to end the process.
- `extract_request_query`, which differs from `extract_body` in that it copies a field
  without its terminator (`http_request.c:189`); a request whose lines cannot be cut.
- The request line, the header fields other than the token's, and the route table,
  whose entries for methods a route does not have are read without having been set
  (`http_server.c:190`, `is_match_method`).
- The second write of an answer (`http_server.c:204-205`), `server_resource` and
  `render_template`.
- `bubble_sort_ll` and `binary_search_ll`, which nothing calls, `to_json` and the other
  conversions, and the frees of the dictionary's destructors.
- A block size of 0 in the TFTP options.
- `update_user` and `delete_user`, which no route calls; passwords are a refusal that
  can happen.
- The logger, which no other part reads; sockets' set-up (straight-line calls that
  end the process on failure); SQLite itself, of which only constraints, cascades, the
  row-wise SELECT and the last rowid are used.
