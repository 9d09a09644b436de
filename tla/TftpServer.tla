----------------------------- MODULE TftpServer -----------------------------
(***************************************************************************)
(* The TFTP server around its transfers (networking/tftp/tftp_server.c and *)
(* the handler's life in tftp_client_handle.c).  The launch loop receives  *)
(* requests into one buffer and hands them to the thread pool; a worker    *)
(* opens a socket of its own, sends its port to the client, waits for one  *)
(* datagram there, copies the request out of the buffer, serves it, and    *)
(* frees the handler and its socket.  The pool is what JobPool promises,   *)
(* the transfer what Transfer does; here it opens and closes its file, and *)
(* ends in one way or other.                                               *)
(*                                                                         *)
(* Sockets and files share the process's table of descriptors: job n is    *)
(* for the n-th request, its socket is called n and its file -n.           *)
(***************************************************************************)
EXTENDS Integers, Sequences

CONSTANTS
  Workers,              \* the pool's threads
  MaxRequests,          \* bound: how many requests come
  MaxDescriptors        \* how many descriptors the process has for handlers

ASSUME RequestsAssumption == MaxRequests \in Nat /\ MaxDescriptors \in Nat

Requests    == 1..MaxRequests
Descriptors == 1..MaxDescriptors
None        == 0

VARIABLES
  submitted, queued, job, closed,  \* the pool
  data,               \* the launch loop's data: the request received last
  step,
  fd,                   \* each worker: server.socket of its handler
  file,                 \* each worker: the descriptor of its FILE
  on,                   \* each worker: the socket its recvfrom waits on
  head, body,           \* each worker: whose header, and whose data, it copied
  fds,                  \* the process's table: what each descriptor stands for
  offered,              \* sockets whose port a client was sent
  inbox,                \* sockets where the client's answer lies
  failed,               \* ghost: jobs whose create_handler returned NULL
  left,                 \* ghost: jobs that were jumped out of with their file open
  robbed,               \* ghost: workers whose socket or file another one closed
  up                    \* the process runs

pool     == <<submitted, queued, job, closed>>
table    == <<fd, file, fds, robbed>>
copies   == <<head, body>>
network  == <<on, offered, inbox>>
leaks    == <<failed, left>>
serverVars == <<pool, data, step, table, copies, network, leaks, up>>

Pool == INSTANCE JobPool WITH Slots <- Workers, slot <- job

ServerInit ==
  /\ Pool!Init
  /\ data = None
  /\ step = [w \in Workers |-> "idle"]
  /\ fd = [w \in Workers |-> None] /\ file = fd /\ on = fd /\ head = fd /\ body = fd
  /\ fds = [d \in Descriptors |-> None]
  /\ offered = {} /\ inbox = {} /\ failed = {} /\ left = {} /\ robbed = {}
  /\ up = TRUE

At(w, labels) == up /\ step[w] \in labels
Goto(w, label) == step' = [step EXCEPT ![w] = label]

Holds(w)     == fd[w] # None /\ fds[fd[w]] = job[w]
HoldsFile(w) == file[w] # None /\ fds[file[w]] = -job[w]

(* The descriptor a handler has for its socket stands for some socket. *)
HasSocket(w) == fds[fd[w]] > None

(* A recvfrom that waits keeps its socket although its descriptor is closed. *)
IsOpen(s) == (\E d \in Descriptors : fds[d] = s) \/ \E w \in Workers : on[w] = s

(* What is opened gets the lowest descriptor that is free, ... *)
Open(d, what) ==
  /\ fds[d] = None /\ \A e \in 1..d - 1 : fds[e] # None
  /\ fds' = [fds EXCEPT ![d] = what]

(* ... and what w closes is whatever the descriptor stands for by now. *)
Close(w, d) ==
  /\ fds' = [fds EXCEPT ![d] = None]
  /\ robbed' = robbed \cup {v \in Workers \ {w} : \/ fd[v] = d /\ Holds(v)
                                                  \/ file[v] = d /\ HoldsFile(v)}

-----------------------------------------------------------------------------
(* tftp_launch: recvfrom, malloc, add_work *)
Receive ==
  /\ up /\ submitted < MaxRequests
  /\ Pool!Submit
  /\ data' = submitted + 1
  /\ UNCHANGED <<step, table, copies, network, leaks, up>>

(* A worker takes the job and opens the handler's socket. *)
Create(w) ==
  \E d \in Descriptors :
    /\ At(w, {"idle"})
    /\ Pool!Start(w)
    /\ Open(d, Head(queued))
    /\ fd' = [fd EXCEPT ![w] = d]
    /\ Goto(w, "offer")
    /\ UNCHANGED <<data, file, robbed, copies, network, leaks, up>>

(* No descriptor or no port is left: the process exits.  *)
CreateFails(w) ==
  /\ At(w, {"idle"}) /\ queued # <<>>
  /\ up' = FALSE
  /\ UNCHANGED <<pool, data, step, table, copies, network, leaks>>

(* tftp_handler returns. *)
Return(w) ==
  /\ Pool!Release(w)
  /\ Goto(w, "idle")
  /\ fd' = [fd EXCEPT ![w] = None]
  /\ head' = [head EXCEPT ![w] = None] /\ body' = [body EXCEPT ![w] = None]
  /\ UNCHANGED <<data, file, network, left, up>>

(* create_handler returns NULL: nothing is closed or freed. *)
NotCreated(w) ==
  /\ failed' = failed \cup {job[w]}
  /\ robbed' = robbed \ {w}
  /\ UNCHANGED fds
  /\ Return(w)

(* The port of the new socket is sent from the server's own, or cannot be. *)
(* When the socket was closed meanwhile, there is no port to send, and no  *)
(* answer to wait for.                                                     *)
Offer(w) ==
  /\ At(w, {"offer"})
  /\ \/ HasSocket(w) /\ NotCreated(w)
     \/ /\ IF HasSocket(w)
           THEN offered' = offered \cup {fds[fd[w]]} /\ Goto(w, "listen")
           ELSE UNCHANGED offered /\ Goto(w, "header")
        /\ UNCHANGED <<pool, data, table, copies, on, inbox, leaks, up>>

(* recvfrom without a timeout is called ... *)
Listen(w) ==
  /\ At(w, {"listen"})
  /\ IF HasSocket(w)
     THEN /\ on' = [on EXCEPT ![w] = fds[fd[w]]]
          /\ Goto(w, "hear")
          /\ UNCHANGED <<pool, data, table, copies, offered, inbox, leaks, up>>
     ELSE NotCreated(w)

(* Seeded fault: the answer is read, and another one waited for. *)
HearAgain(w) ==
  /\ At(w, {"hear"}) /\ on[w] \in inbox
  /\ inbox' = inbox \ {on[w]}
  /\ UNCHANGED <<pool, data, step, table, copies, on, offered, leaks, up>>

(* ... and returns with the answer of the client, of whichever socket.     *)
Hear(w) ==
  /\ At(w, {"hear"}) /\ on[w] \in inbox
  /\ inbox' = inbox \ {on[w]}
  /\ on' = [on EXCEPT ![w] = None]
  /\ Goto(w, "header")
  /\ UNCHANGED <<pool, data, table, copies, offered, leaks, up>>

(* The request is copied out of the buffer: first its header, ... *)
CopyHeader(w) ==
  /\ At(w, {"header"})
  /\ head' = [head EXCEPT ![w] = data]
  /\ Goto(w, "body")
  /\ UNCHANGED <<pool, data, table, body, network, leaks, up>>

(* Seeded fault: the data is that of the job, whatever the header is. *)
CopyBodyOfJob(w) ==
  /\ At(w, {"body"})
  /\ body' = [body EXCEPT ![w] = job[w]]
  /\ Goto(w, "serve")
  /\ UNCHANGED <<pool, data, table, head, network, leaks, up>>

(* ... then its data. *)
CopyBody(w) ==
  /\ At(w, {"body"})
  /\ body' = [body EXCEPT ![w] = data]
  /\ Goto(w, "serve")
  /\ UNCHANGED <<pool, data, table, head, network, leaks, up>>

-----------------------------------------------------------------------------
(* handle_client. A read opens the file once for its size ... *)

OpenAs(w, label) ==
  \E d \in Descriptors :
    /\ Open(d, -job[w])
    /\ file' = [file EXCEPT ![w] = d]
    /\ Goto(w, label)
    /\ UNCHANGED <<pool, data, fd, robbed, copies, network, leaks, up>>

OpenSize(w) == At(w, {"serve"}) /\ OpenAs(w, "size")

(* fclose *)
CloseAs(w, label) ==
  /\ Close(w, file[w])
  /\ file' = [file EXCEPT ![w] = None]
  /\ Goto(w, label)
  /\ UNCHANGED <<pool, data, fd, copies, network, leaks, up>>

CloseSize(w) == At(w, {"size"}) /\ CloseAs(w, "again")

(* ... and once for its blocks (fread ends the process when it is gone); a *)
(* write acknowledges the request and opens its file.                      *)
OpenAgain(w) == At(w, {"again"}) /\ OpenAs(w, "transfer")
OpenWrite(w) == At(w, {"serve"}) /\ HasSocket(w) /\ OpenAs(w, "transfer")

(* Seeded fault: the handler closes its socket and is freed all the same. *)
FinishAndClose(w) ==
  /\ At(w, {"transfer"})
  /\ Close(w, fd[w])
  /\ file' = [file EXCEPT ![w] = None]
  /\ Goto(w, "done")
  /\ UNCHANGED <<pool, data, fd, copies, network, leaks, up>>

(* Seeded fault: the loop goes on with the file that was closed. *)
FinishNoReturn(w) == At(w, {"transfer"}) /\ CloseAs(w, "transfer")

(* The request is served. *)
Finish(w) == At(w, {"transfer"}) /\ CloseAs(w, "done")

(* A block that cannot be written or an ACK whose checksum is wrong: the   *)
(* file is closed, and the handler terminates.                             *)
CloseFile(w) == At(w, {"transfer"}) /\ CloseAs(w, "closed")

(* _check_error: the request is an ERROR, the only one it knows: an opcode *)
(* that is received later is in the host's byte order.                     *)
ErrorPacket(w) ==
  /\ At(w, {"serve"})
  /\ Goto(w, "jumped")
  /\ UNCHANGED <<pool, data, table, copies, network, leaks, up>>

(* longjmp out of the transfer, whose file stays open. *)
Jump(w, label) ==
  /\ left' = IF file[w] = None THEN left ELSE left \cup {job[w]}
  /\ file' = [file EXCEPT ![w] = None]
  /\ Goto(w, label)
  /\ UNCHANGED <<pool, data, fd, copies, network, failed, up>>

(* _terminate: the error packet is sent, and the socket closed. *)
Terminate(w) ==
  /\ At(w, {"serve", "transfer", "closed"}) /\ HasSocket(w)
  /\ Close(w, fd[w])
  /\ Jump(w, "jumped")

(* _send cannot send, or no answer comes in time: the handler is freed and *)
(* then jumped out of.                                                     *)
GiveUp(w) ==
  /\ At(w, {"serve", "transfer", "closed"})
  /\ Close(w, fd[w])
  /\ Jump(w, "gaveup")

(* Any request may end the process: its data is copied to memory that is   *)
(* too small for it and, if the datagram is, with a length below 0; names, *)
(* modes, options and windows are copied into arrays of fixed or unchecked *)
(* sizes; a packet is sent again with a length that nobody set; a receive  *)
(* on what is no socket any more, or a second fopen that fails, gives NULL *)
(* to read from; a handler that gave up is freed twice.                    *)
Dies(w) ==
  /\ At(w, {"body", "serve", "size", "again", "transfer", "closed", "done", "jumped", "gaveup"})
  /\ up' = FALSE
  /\ UNCHANGED <<pool, data, step, table, copies, network, leaks>>

(* Seeded fault: the server destructor does not close the socket. *)
FreeNotClose(w) ==
  /\ At(w, {"done", "jumped", "gaveup"})
  /\ robbed' = robbed \ {w}
  /\ UNCHANGED <<fds, failed>>
  /\ Return(w)

(* free_handler closes what its descriptor stands for. *)
FreeHandler(w) ==
  /\ At(w, {"done", "jumped", "gaveup"})
  /\ fds' = [fds EXCEPT ![fd[w]] = None]
  /\ robbed' = (robbed \cup {v \in Workers : \/ fd[v] = fd[w] /\ Holds(v)
                                             \/ file[v] = fd[w] /\ HoldsFile(v)}) \ {w}
  /\ UNCHANGED failed
  /\ Return(w)

-----------------------------------------------------------------------------
(* The client answers, to the port it was sent, or never. *)
ClientAnswer(n) ==
  /\ up /\ n \in offered
  /\ offered' = offered \ {n}
  /\ inbox' = IF IsOpen(n) THEN inbox \cup {n} ELSE inbox
  /\ UNCHANGED <<pool, data, step, table, copies, on, leaks, up>>

Serve(w) ==
  \/ OpenSize(w) \/ CloseSize(w) \/ OpenAgain(w) \/ OpenWrite(w)
  \/ Finish(w) \/ CloseFile(w) \/ ErrorPacket(w) \/ Terminate(w) \/ GiveUp(w)

Worker(w) ==
  \/ Create(w) \/ CreateFails(w) \/ Offer(w) \/ Listen(w) \/ Hear(w)
  \/ CopyHeader(w) \/ CopyBody(w) \/ Serve(w) \/ Dies(w) \/ FreeHandler(w)

ServerNext == Receive \/ (\E w \in Workers : Worker(w)) \/ \E n \in Requests : ClientAnswer(n)

(* A thread that can go on goes on; nothing obliges a client to answer.    *)
ServerSpec ==
  /\ ServerInit /\ [][ServerNext]_serverVars
  /\ \A w \in Workers : WF_serverVars(Hear(w) \/ CopyHeader(w) \/ CopyBody(w))

-----------------------------------------------------------------------------
Numbers == 0..MaxRequests

Steps == {"idle", "offer", "listen", "hear", "header", "body", "serve", "size", "again",
          "transfer", "closed", "done", "jumped", "gaveup"}

(* A worker without a job has no socket, and one without a transfer no file. *)
JobsHaveSockets ==
  \A w \in Workers :
    /\ IF step[w] = "idle" THEN job[w] = None /\ fd[w] = None
                           ELSE job[w] # None /\ fd[w] # None
    /\ file[w] # None <=> step[w] \in {"size", "transfer"}

(* Every variable holds what the code can put there; a worker without a    *)
(* job has no socket, and one without a transfer no file.                  *)
ServerTypeOK ==
  /\ submitted \in Numbers /\ queued \in Seq(Requests) /\ job \in [Workers -> Numbers]
  /\ ~closed /\ data \in Numbers
  /\ step \in [Workers -> Steps]
  /\ fd \in [Workers -> {None} \cup Descriptors] /\ on \in [Workers -> Numbers]
  /\ file \in [Workers -> {None} \cup Descriptors]
  /\ head \in [Workers -> Numbers] /\ body \in [Workers -> Numbers]
  /\ fds \in [Descriptors -> -MaxRequests..MaxRequests]
  /\ offered \subseteq Requests /\ inbox \subseteq Requests
  /\ failed \subseteq Requests /\ left \subseteq Requests
  /\ robbed \subseteq Workers /\ up \in BOOLEAN
  /\ JobsHaveSockets

(* Whatever overwrites the buffer while a handler waits for its client,    *)
(* what the handler then serves is its own request or a later one, and the *)
(* data in it never older than the header.                                 *)
NeverAnOlderRequest ==
  \A w \in Workers : step[w] \notin {"idle", "offer", "listen", "hear", "header", "body"} =>
    job[w] <= head[w] /\ head[w] <= body[w] /\ body[w] <= submitted

(* A handler's socket or file is closed under it only by a handler that    *)
(* terminated or gave up, which closes its socket twice, or by one that    *)
(* had lost its own socket or file before: never by one that served its    *)
(* request undisturbed.                                                    *)
SocketTakenByFailed ==
  [][\A v \in robbed' \ robbed : \E w \in Workers \ {v} :
       /\ \E d \in Descriptors : d \in {fd[w], file[w]} /\ d \in {fd[v], file[v]}
       /\ w \in robbed \/ step[w] \in {"jumped", "gaveup"}]_serverVars

(* Every socket that is open is that of a request in work, or of one whose *)
(* handler was never made; every file is that of a request in work, or of  *)
(* one whose transfer was jumped out of.  Each other way out closes both.  *)
LeaksOnlyUncreated ==
  \A d \in Descriptors : fds[d] # None =>
    \/ fds[d] \in failed \/ -fds[d] \in left
    \/ \E w \in Workers : job[w] # None /\ fds[d] \in {job[w], -job[w]}

(* A handler whose client has answered comes to serve a request, unless    *)
(* another worker has lost its socket and takes the answer.                *)
AnsweredIsServed ==
  \A w \in Workers :
    (step[w] = "hear" /\ on[w] \in inbox /\ robbed = {})
      ~> (step[w] = "serve" \/ robbed # {} \/ ~up)
=============================================================================
