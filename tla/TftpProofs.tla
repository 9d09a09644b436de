----------------------------- MODULE TftpProofs -----------------------------
(***************************************************************************)
(* Proofs about the TFTP side: about TftpServer for every set of workers   *)
(* and number of requests and descriptors, and about Transfer for every    *)
(* number of blocks, every window, every size of the space of block        *)
(* numbers that is larger than two windows, and every width of an int that *)
(* counts the bytes of more than one.                                      *)
(***************************************************************************)
EXTENDS TftpServer, Transfer, TLAPS

-----------------------------------------------------------------------------
(* The server around its transfers: TftpServer. *)

(* Jobs that wait or run are for requests that came, and what a handler    *)
(* has copied is its own request or a later one.                           *)
Ordered ==
  /\ data = submitted
  /\ \A i \in 1..Len(queued) : queued[i] <= submitted
  /\ \A w \in Workers : job[w] <= submitted
  /\ \A w \in Workers : step[w] = "body" => job[w] <= head[w] /\ head[w] <= submitted
  /\ NeverAnOlderRequest

(* A worker that returns has nothing left. *)
LEMMA ReturnTyped ==
  ASSUME ServerTypeOK, NEW w \in Workers, step[w] \notin {"idle", "size", "transfer"}, Return(w),
         fds' \in [Descriptors -> -MaxRequests..MaxRequests],
         failed' \subseteq Requests, robbed' \subseteq Workers
  PROVE  ServerTypeOK'
<1>1. /\ job' = [job EXCEPT ![w] = None] /\ step' = [step EXCEPT ![w] = "idle"]
      /\ fd' = [fd EXCEPT ![w] = None]
      /\ head' = [head EXCEPT ![w] = None] /\ body' = [body EXCEPT ![w] = None]
      /\ UNCHANGED <<submitted, queued, closed, data, file, on, offered, inbox, left, up>>
  BY DEF Return, Goto, network, Pool!Release, Pool!NoJob, None
<1>2. None \in Numbers
  BY RequestsAssumption DEF None, Numbers
<1>3. /\ job' \in [Workers -> Numbers] /\ fd' \in [Workers -> {None} \cup Descriptors]
      /\ head' \in [Workers -> Numbers] /\ body' \in [Workers -> Numbers]
  BY <1>1, <1>2 DEF ServerTypeOK
<1>4. step' \in [Workers -> Steps]
  BY <1>1 DEF ServerTypeOK, Steps
<1>5. JobsHaveSockets'
  BY <1>1 DEF ServerTypeOK, JobsHaveSockets
<1> QED
  BY <1>1, <1>3, <1>4, <1>5 DEF ServerTypeOK

(* A file that is opened gets a descriptor. *)
LEMMA OpenTyped ==
  ASSUME ServerTypeOK, NEW w \in Workers, step[w] \in {"serve", "again"},
         NEW l \in {"size", "transfer"}, OpenAs(w, l)
  PROVE  ServerTypeOK'
<1> USE RequestsAssumption DEF Numbers, Requests, Descriptors, None, Steps
<1>1. PICK d \in Descriptors :
        fds' = [fds EXCEPT ![d] = -job[w]] /\ file' = [file EXCEPT ![w] = d]
  BY DEF OpenAs, Open
<1>2. /\ step' = [step EXCEPT ![w] = l]
      /\ UNCHANGED <<submitted, queued, job, closed, data, fd, robbed, head, body, on, offered,
                     inbox, failed, left, up>>
  BY DEF OpenAs, Goto, pool, copies, network, leaks
<1>3. -job[w] \in -MaxRequests..MaxRequests
  BY DEF ServerTypeOK
<1>4. fds' \in [Descriptors -> -MaxRequests..MaxRequests]
  BY <1>1, <1>3 DEF ServerTypeOK
<1>5. JobsHaveSockets'
  BY <1>1, <1>2 DEF ServerTypeOK, JobsHaveSockets
<1>6. step' \in [Workers -> Steps] /\ file' \in [Workers -> {None} \cup Descriptors]
  BY <1>1, <1>2 DEF ServerTypeOK
<1> QED
  BY <1>2, <1>4, <1>5, <1>6 DEF ServerTypeOK

(* A descriptor that is closed stands for nothing. *)
LEMMA CloseTyped ==
  ASSUME ServerTypeOK, NEW w \in Workers, step[w] # "idle", NEW d \in Descriptors, Close(w, d),
         NEW l \in Steps \ {"idle", "size", "transfer"}, Goto(w, l),
         file' = [file EXCEPT ![w] = None], left' = left \/ left' = left \cup {job[w]},
         UNCHANGED <<pool, data, fd, copies, network, failed, up>>
  PROVE  ServerTypeOK'
<1> USE RequestsAssumption DEF Numbers, Requests, None, Steps
<1>1. /\ fds' = [fds EXCEPT ![d] = None] /\ step' = [step EXCEPT ![w] = l]
      /\ UNCHANGED <<submitted, queued, job, closed, data, fd, head, body, on, offered,
                     inbox, failed, up>>
  BY DEF Close, Goto, pool, copies, network
<1>2. fds' \in [Descriptors -> -MaxRequests..MaxRequests]
  BY <1>1 DEF ServerTypeOK
<1>3. robbed' \subseteq Workers
  BY DEF ServerTypeOK, Close
<1>4. left' \subseteq Requests
  <2>1. job[w] \in Numbers /\ job[w] # None
    BY DEF ServerTypeOK, JobsHaveSockets
  <2>2. job[w] \in Requests
    BY <2>1
  <2> QED
    BY <2>2 DEF ServerTypeOK
<1>5. JobsHaveSockets'
  BY <1>1 DEF ServerTypeOK, JobsHaveSockets
<1>6. step' \in [Workers -> Steps] /\ file' \in [Workers -> {None} \cup Descriptors]
  BY <1>1 DEF ServerTypeOK
<1> QED
  BY <1>1, <1>2, <1>3, <1>4, <1>5, <1>6 DEF ServerTypeOK

(* A worker goes on to a step at which its file is as open as before. *)
LEMMA GotoTyped ==
  ASSUME ServerTypeOK, NEW w \in Workers, step[w] \notin {"idle", "size", "transfer"},
         NEW l \in Steps \ {"idle", "size", "transfer"}, Goto(w, l),
         UNCHANGED <<pool, data, table, leaks, up>>,
         head' \in [Workers -> Numbers], body' \in [Workers -> Numbers],
         on' \in [Workers -> Numbers], offered' \subseteq Requests, inbox' \subseteq Requests
  PROVE  ServerTypeOK'
<1>1. /\ step' = [step EXCEPT ![w] = l]
      /\ UNCHANGED <<submitted, queued, job, closed, data, fd, file, fds, robbed, failed, left, up>>
  BY DEF Goto, pool, table, leaks
<1>2. JobsHaveSockets'
  BY <1>1 DEF ServerTypeOK, JobsHaveSockets, Steps
<1>3. step' \in [Workers -> Steps]
  BY <1>1 DEF ServerTypeOK
<1> QED
  BY <1>1, <1>2, <1>3 DEF ServerTypeOK

(* A handler that is not made leaves its worker idle. *)
LEMMA NotCreatedTyped ==
  ASSUME ServerTypeOK, NEW w \in Workers, step[w] \notin {"idle", "size", "transfer"}, NotCreated(w)
  PROVE  ServerTypeOK'
<1>1. job[w] \in Requests
  BY DEF ServerTypeOK, JobsHaveSockets, Numbers, Requests, None
<1>2. Return(w) /\ fds' = fds /\ failed' = failed \cup {job[w]} /\ robbed' = robbed \ {w}
  BY DEF NotCreated
<1>3. /\ fds' \in [Descriptors -> -MaxRequests..MaxRequests]
      /\ failed' \subseteq Requests /\ robbed' \subseteq Workers
  BY <1>1, <1>2 DEF ServerTypeOK
<1> QED
  BY <1>2, <1>3, ReturnTyped, Zenon

(* A handler that is freed leaves its worker idle. *)
LEMMA FreeTyped ==
  ASSUME ServerTypeOK, NEW w \in Workers, FreeHandler(w)
  PROVE  ServerTypeOK'
<1>1. /\ Return(w) /\ fds' = [fds EXCEPT ![fd[w]] = None] /\ failed' = failed
      /\ robbed' \subseteq robbed \cup Workers /\ step[w] \notin {"idle", "size", "transfer"}
  BY DEF FreeHandler, At
<1>2. fds' \in [Descriptors -> -MaxRequests..MaxRequests]
  <2>1. None \in -MaxRequests..MaxRequests
    BY RequestsAssumption DEF None
  <2>2. fds \in [Descriptors -> -MaxRequests..MaxRequests]
    BY DEF ServerTypeOK
  <2> QED
    BY <1>1, <2>1, <2>2
<1>3. failed' \subseteq Requests /\ robbed' \subseteq Workers
  BY <1>1 DEF ServerTypeOK
<1> QED
  BY <1>1, <1>2, <1>3, ReturnTyped, Zenon

(* A worker takes a job and has a socket. *)
LEMMA CreateTyped ==
  ASSUME ServerTypeOK, NEW w \in Workers, Create(w)
  PROVE  ServerTypeOK'
<1> USE RequestsAssumption
<1> DEFINE taken == Head(queued)
<1>1. /\ taken \in Requests /\ Tail(queued) \in Seq(Requests)
      /\ taken \in Numbers /\ taken # None /\ taken \in -MaxRequests..MaxRequests
  <2>1. queued # <<>> /\ queued \in Seq(Requests)
    BY DEF ServerTypeOK, Create, Pool!Start
  <2>2. taken \in Requests /\ Tail(queued) \in Seq(Requests)
    BY <2>1
  <2> HIDE DEF taken
  <2> QED
    BY <2>2 DEF Requests, Numbers, None
<1>2. PICK d \in Descriptors :
        /\ job' = [job EXCEPT ![w] = taken] /\ queued' = Tail(queued)
        /\ fds' = [fds EXCEPT ![d] = taken] /\ fd' = [fd EXCEPT ![w] = d]
  BY DEF Create, Open, Pool!Start
<1>3. /\ step[w] = "idle" /\ step' = [step EXCEPT ![w] = "offer"]
      /\ UNCHANGED <<submitted, closed, data, file, on, robbed, head, body, offered, inbox,
                     failed, left, up>>
  BY DEF Create, At, Goto, Pool!Start, network, copies, leaks
<1> HIDE DEF taken
<1>4. d # None
  BY DEF Descriptors, None
<1>5. fds' \in [Descriptors -> -MaxRequests..MaxRequests] /\ job' \in [Workers -> Numbers]
  BY <1>1, <1>2 DEF ServerTypeOK
<1>6. /\ fd' \in [Workers -> {None} \cup Descriptors] /\ step' \in [Workers -> Steps]
      /\ queued' \in Seq(Requests)
  BY <1>1, <1>2, <1>3 DEF ServerTypeOK, Steps
<1>7. JobsHaveSockets'
  BY <1>1, <1>2, <1>3, <1>4 DEF ServerTypeOK, JobsHaveSockets
<1> QED
  BY <1>3, <1>5, <1>6, <1>7 DEF ServerTypeOK

(* What a handler does until it serves a request keeps the types. *)
LEMMA AskTyped ==
  ASSUME ServerTypeOK, NEW w \in Workers,
         Offer(w) \/ Listen(w) \/ Hear(w) \/ CopyHeader(w) \/ CopyBody(w)
  PROVE  ServerTypeOK'
<1>1. step[w] \notin {"idle", "size", "transfer"}
  BY DEF Offer, Listen, Hear, CopyHeader, CopyBody, At
<1>2. CASE NotCreated(w)
  BY <1>1, <1>2, NotCreatedTyped
<1>3. CASE ~NotCreated(w)
  <2> DEFINE later == {"listen", "hear", "header", "body", "serve"}
  <2>1. UNCHANGED <<pool, data, table, leaks, up>>
    BY <1>3 DEF Offer, Listen, Hear, CopyHeader, CopyBody
  <2>2. PICK l \in later : Goto(w, l)
    BY <1>3, Zenon DEF Offer, Listen, Hear, CopyHeader, CopyBody
  <2>3. l \in Steps \ {"idle", "size", "transfer"}
    BY <2>2 DEF Steps
  <2>4. head' \in [Workers -> Numbers] /\ body' \in [Workers -> Numbers]
    BY <1>3 DEF ServerTypeOK, Offer, Listen, Hear, CopyHeader, CopyBody, copies
  <2>5. fd[w] \in Descriptors /\ fds[fd[w]] \in Int
    BY <1>1 DEF ServerTypeOK, JobsHaveSockets
  <2>6. HasSocket(w) => fds[fd[w]] \in Requests
    BY <2>5, RequestsAssumption DEF HasSocket, ServerTypeOK, Requests, None
  <2>7. on' \in [Workers -> Numbers]
    <3>1. \/ on' = on
          \/ on' = [on EXCEPT ![w] = None]
          \/ HasSocket(w) /\ on' = [on EXCEPT ![w] = fds[fd[w]]]
      <4>1. CASE Offer(w) \/ CopyHeader(w) \/ CopyBody(w)
        BY <1>3, <4>1 DEF Offer, CopyHeader, CopyBody, network
      <4>2. CASE Listen(w) \/ Hear(w)
        BY <1>3, <4>2, Zenon DEF Listen, Hear
      <4> QED
        BY <4>1, <4>2
    <3>2. None \in Numbers /\ Requests \subseteq Numbers
      BY RequestsAssumption DEF Numbers, Requests, None
    <3> QED
      BY <2>6, <3>1, <3>2 DEF ServerTypeOK
  <2>8. offered' \subseteq Requests
    BY <1>3, <2>6 DEF ServerTypeOK, Offer, Listen, Hear, CopyHeader, CopyBody, network
  <2>9. inbox' \subseteq Requests
    BY <1>3 DEF ServerTypeOK, Offer, Listen, Hear, CopyHeader, CopyBody, network
  <2> QED
    BY <1>1, <2>1, <2>2, <2>3, <2>4, <2>7, <2>8, <2>9, GotoTyped
<1> QED
  BY <1>2, <1>3

(* A transfer opens and closes its file, and ends. *)
LEMMA ServeTyped ==
  ASSUME ServerTypeOK, NEW w \in Workers, Serve(w)
  PROVE  ServerTypeOK'
<1>1. CASE OpenSize(w) \/ OpenAgain(w) \/ OpenWrite(w)
  <2>1. step[w] \in {"serve", "again"} /\ (OpenAs(w, "size") \/ OpenAs(w, "transfer"))
    BY <1>1 DEF OpenSize, OpenAgain, OpenWrite, At
  <2> QED
    BY <2>1, OpenTyped
<1>2. CASE CloseSize(w) \/ Finish(w) \/ CloseFile(w)
  <2>1. /\ step[w] \in {"size", "transfer"}
        /\ CloseAs(w, "again") \/ CloseAs(w, "done") \/ CloseAs(w, "closed")
    BY <1>2 DEF CloseSize, Finish, CloseFile, At
  <2>2. PICK l \in {"again", "done", "closed"} : CloseAs(w, l)
    BY <2>1
  <2>3. file[w] \in Descriptors /\ l \in Steps \ {"idle", "size", "transfer"} /\ step[w] # "idle"
    BY <2>1 DEF ServerTypeOK, JobsHaveSockets, Steps
  <2>4. /\ Close(w, file[w]) /\ Goto(w, l) /\ file' = [file EXCEPT ![w] = None] /\ left' = left
        /\ UNCHANGED <<pool, data, fd, copies, network, failed, up>>
    BY <2>2 DEF CloseAs, leaks
  <2> QED
    BY <2>3, <2>4, CloseTyped
<1>3. CASE ErrorPacket(w)
  <2>1. /\ step[w] = "serve" /\ Goto(w, "jumped")
        /\ UNCHANGED <<pool, data, table, head, body, on, offered, inbox, leaks, up>>
    BY <1>3 DEF ErrorPacket, At, copies, network
  <2>2. "jumped" \in Steps \ {"idle", "size", "transfer"}
    BY DEF Steps
  <2>3. /\ head' \in [Workers -> Numbers] /\ body' \in [Workers -> Numbers]
        /\ on' \in [Workers -> Numbers] /\ offered' \subseteq Requests /\ inbox' \subseteq Requests
    BY <2>1 DEF ServerTypeOK
  <2> QED
    BY <2>1, <2>2, <2>3, GotoTyped
<1>4. CASE Terminate(w) \/ GiveUp(w)
  <2>1. /\ step[w] \in {"serve", "transfer", "closed"} /\ Close(w, fd[w])
        /\ Jump(w, "jumped") \/ Jump(w, "gaveup")
    BY <1>4 DEF Terminate, GiveUp, At
  <2>2. PICK l \in {"jumped", "gaveup"} : Jump(w, l)
    BY <2>1
  <2>3. fd[w] \in Descriptors /\ l \in Steps \ {"idle", "size", "transfer"} /\ step[w] # "idle"
    BY <2>1 DEF ServerTypeOK, JobsHaveSockets, Steps
  <2>4. /\ Goto(w, l) /\ file' = [file EXCEPT ![w] = None]
        /\ left' = left \/ left' = left \cup {job[w]}
        /\ UNCHANGED <<pool, data, fd, copies, network, failed, up>>
    BY <2>2 DEF Jump
  <2> QED
    BY <2>1, <2>3, <2>4, CloseTyped
<1> QED
  BY <1>1, <1>2, <1>3, <1>4 DEF Serve

(* Every step keeps every variable typed. *)
LEMMA TypeStep == ServerTypeOK /\ [ServerNext]_serverVars => ServerTypeOK'
<1> SUFFICES ASSUME ServerTypeOK, [ServerNext]_serverVars PROVE ServerTypeOK'
  OBVIOUS
<1>1. CASE Receive
  <2> USE RequestsAssumption DEF Numbers, Requests, None
  <2>1. /\ submitted' = submitted + 1 /\ queued' = Append(queued, submitted + 1)
        /\ data' = submitted + 1 /\ submitted < MaxRequests
        /\ UNCHANGED <<job, closed, step, fd, file, fds, robbed, head, body, on, offered, inbox,
                       failed, left, up>>
    BY <1>1 DEF Receive, Pool!Submit, table, copies, network, leaks
  <2> QED
    BY <2>1 DEF ServerTypeOK, JobsHaveSockets
<1>2. ASSUME NEW w \in Workers, CreateFails(w) \/ Dies(w) PROVE ServerTypeOK'
  <2>1. up' \in BOOLEAN
    BY <1>2, Zenon DEF CreateFails, Dies
  <2>2. UNCHANGED <<submitted, queued, job, closed, data, step, fd, file, fds, robbed, head, body,
                    on, offered, inbox, failed, left>>
    BY <1>2 DEF CreateFails, Dies, pool, table, copies, network, leaks
  <2> QED
    BY <2>1, <2>2 DEF ServerTypeOK, JobsHaveSockets
<1>3. ASSUME NEW n \in Requests, ClientAnswer(n) PROVE ServerTypeOK'
  BY <1>3 DEF ServerTypeOK, JobsHaveSockets, ClientAnswer, pool, table, copies, leaks
<1>4. CASE UNCHANGED serverVars
  BY <1>4 DEF ServerTypeOK, JobsHaveSockets, serverVars, pool, table, copies, network, leaks
<1> QED
  BY <1>1, <1>2, <1>3, <1>4, CreateTyped, AskTyped, ServeTyped, FreeTyped DEF ServerNext, Worker

(* A return forgets the worker's job and leaves the others in their order. *)
LEMMA ReturnOrdered ==
  ASSUME ServerTypeOK, Ordered, NEW w \in Workers, Return(w)
  PROVE  Ordered'
BY RequestsAssumption
   DEF ServerTypeOK, Ordered, NeverAnOlderRequest, Return, Goto, None, Numbers, Requests,
       Pool!Release, Pool!NoJob

(* A step that neither copies nor takes a job keeps the order. *)
LEMMA GotoOrdered ==
  ASSUME ServerTypeOK, Ordered, UNCHANGED <<submitted, queued, job, data, head, body>>,
         \/ step' = step
         \/ \E w \in Workers : \E l \in Steps :
              /\ step' = [step EXCEPT ![w] = l]
              /\ \/ l \in {"idle", "offer", "listen", "hear", "header"}
                 \/ /\ step[w] \notin {"idle", "offer", "listen", "hear", "header", "body"}
                    /\ l # "body"
  PROVE  Ordered'
BY DEF ServerTypeOK, Ordered, NeverAnOlderRequest

(* What is copied is what came last. *)
LEMMA CopyOrdered ==
  ASSUME ServerTypeOK, Ordered, NEW w \in Workers, CopyHeader(w) \/ CopyBody(w)
  PROVE  Ordered'
<1> USE RequestsAssumption DEF Numbers, Requests, None, NeverAnOlderRequest
<1>1. CASE CopyHeader(w)
  <2>1. /\ step' = [step EXCEPT ![w] = "body"] /\ head' = [head EXCEPT ![w] = data]
        /\ UNCHANGED <<submitted, queued, job, data, body>>
    BY <1>1 DEF CopyHeader, Goto, pool
  <2> QED
    BY <2>1 DEF ServerTypeOK, Ordered
<1>2. CASE CopyBody(w)
  <2>1. /\ step[w] = "body" /\ step' = [step EXCEPT ![w] = "serve"]
        /\ body' = [body EXCEPT ![w] = data]
        /\ UNCHANGED <<submitted, queued, job, data, head>>
    BY <1>2 DEF CopyBody, At, Goto, pool
  <2> QED
    BY <2>1 DEF ServerTypeOK, Ordered
<1> QED
  BY <1>1, <1>2

(* Every step keeps the order of what came and what was copied. *)
LEMMA OrderStep == ServerTypeOK /\ Ordered /\ [ServerNext]_serverVars => Ordered'
<1> SUFFICES ASSUME ServerTypeOK, Ordered, [ServerNext]_serverVars PROVE Ordered'
  OBVIOUS
<1>1. CASE Receive
  <2> USE RequestsAssumption DEF Numbers, Requests, None, NeverAnOlderRequest
  <2>1. /\ submitted' = submitted + 1 /\ data' = submitted + 1
        /\ queued' = Append(queued, submitted + 1)
        /\ UNCHANGED <<job, step, head, body>>
    BY <1>1 DEF Receive, Pool!Submit, copies
  <2>2. \A i \in 1..Len(queued') : queued'[i] <= submitted'
    BY <2>1 DEF ServerTypeOK, Ordered
  <2> QED
    BY <2>1, <2>2 DEF ServerTypeOK, Ordered
<1>2. ASSUME NEW w \in Workers, Create(w) PROVE Ordered'
  <2> USE RequestsAssumption DEF Numbers, Requests, None, NeverAnOlderRequest
  <2>1. /\ queued # <<>> /\ job' = [job EXCEPT ![w] = Head(queued)]
        /\ queued' = Tail(queued) /\ step' = [step EXCEPT ![w] = "offer"]
        /\ UNCHANGED <<submitted, data, head, body>>
    BY <1>2 DEF Create, Goto, Pool!Start, copies
  <2>2. Head(queued) <= submitted /\ \A i \in 1..Len(queued') : queued'[i] <= submitted
    BY <2>1 DEF ServerTypeOK, Ordered
  <2> QED
    BY <2>1, <2>2 DEF ServerTypeOK, Ordered
<1>3. ASSUME NEW w \in Workers, Return(w) PROVE Ordered'
  BY <1>3, ReturnOrdered
<1>4. ASSUME NEW w \in Workers, ~Return(w), Offer(w) \/ Listen(w) \/ Hear(w) PROVE Ordered'
  <2>1. UNCHANGED <<submitted, queued, job, data, head, body>>
    BY <1>4 DEF Offer, Listen, NotCreated, Hear, pool, copies
  <2>2. \E l \in {"listen", "hear", "header"} : Goto(w, l)
    BY <1>4, Zenon DEF Offer, Listen, NotCreated, Hear
  <2>3. \E l \in Steps : /\ step' = [step EXCEPT ![w] = l]
                         /\ l \in {"idle", "offer", "listen", "hear", "header"}
    BY <2>2 DEF Goto, Steps
  <2> QED
    BY <2>1, <2>3, GotoOrdered
<1>5. ASSUME NEW w \in Workers, Serve(w) PROVE Ordered'
  <2>1. UNCHANGED <<submitted, queued, job, data, head, body>>
    BY <1>5 DEF Serve, OpenSize, CloseSize, OpenAgain, OpenWrite, Finish, CloseFile, ErrorPacket,
                Terminate, GiveUp, OpenAs, CloseAs, Jump, pool, copies
  <2>2. step[w] \in {"serve", "size", "again", "transfer", "closed"}
    BY <1>5 DEF Serve, OpenSize, CloseSize, OpenAgain, OpenWrite, Finish, CloseFile, ErrorPacket,
                Terminate, GiveUp, At
  <2>3. \E l \in {"size", "again", "transfer", "closed", "done", "jumped", "gaveup"} : Goto(w, l)
    BY <1>5, Zenon
       DEF Serve, OpenSize, CloseSize, OpenAgain, OpenWrite, Finish, CloseFile, ErrorPacket,
           Terminate, GiveUp, OpenAs, CloseAs, Jump
  <2>4. \E l \in Steps : /\ step' = [step EXCEPT ![w] = l] /\ l # "body"
                         /\ step[w] \notin {"idle", "offer", "listen", "hear", "header", "body"}
    BY <2>2, <2>3 DEF Goto, Steps
  <2> QED
    BY <2>1, <2>4, GotoOrdered
<1>6. ASSUME NEW w \in Workers, CreateFails(w) \/ Dies(w) PROVE Ordered'
  BY <1>6, GotoOrdered DEF CreateFails, Dies, pool, copies
<1>7. ASSUME NEW n \in Requests, ClientAnswer(n) PROVE Ordered'
  BY <1>7, GotoOrdered DEF ClientAnswer, pool, copies
<1>8. CASE UNCHANGED serverVars
  BY <1>8, GotoOrdered DEF serverVars, pool, copies
<1>9. ASSUME NEW w \in Workers, FreeHandler(w) PROVE Ordered'
  BY <1>3, <1>9 DEF FreeHandler
<1> QED
  BY <1>1, <1>2, <1>3, <1>4, <1>5, <1>6, <1>7, <1>8, <1>9, CopyOrdered DEF ServerNext, Worker

(* The server starts typed and with nothing received. *)
LEMMA Starts == ServerInit => ServerTypeOK /\ Ordered
BY RequestsAssumption
   DEF ServerInit, ServerTypeOK, Ordered, NeverAnOlderRequest, Pool!Init, Pool!NoJob, None,
       Numbers, Requests, Descriptors, Steps, JobsHaveSockets

(* Every variable of the server keeps its type; a worker without a job has *)
(* no socket, and one outside a transfer no file.                          *)
THEOREM ServerTyped == ServerSpec => []ServerTypeOK
BY Starts, TypeStep, PTL DEF ServerSpec

(* However long a client takes to answer, and whatever arrives meanwhile,  *)
(* no handler serves a request older than the one it was made for.         *)
THEOREM NoOlderRequest == ServerSpec => []NeverAnOlderRequest
<1>1. Ordered => NeverAnOlderRequest
  BY DEF Ordered
<1> QED
  BY <1>1, Starts, TypeStep, OrderStep, PTL DEF ServerSpec

-----------------------------------------------------------------------------
(* Jobs leave the queue in order, so that none that waits was ever at      *)
(* work, and a job is at one worker.                                       *)
InLine ==
  /\ \A i, j \in 1..Len(queued) : i < j => queued[i] < queued[j]
  /\ \A i \in 1..Len(queued) :
       /\ \A w \in Workers : job[w] < queued[i]
       /\ \A d \in Descriptors : fds[d] < queued[i] /\ -fds[d] < queued[i]
  /\ \A d \in Descriptors : fds[d] <= submitted /\ -fds[d] <= submitted
  /\ \A v, w \in Workers : job[v] = job[w] /\ job[v] # None => v = w

(* The socket of a job is open only at the descriptor of its worker, where *)
(* it stays until the worker failed or was robbed; so is its file, unless  *)
(* the worker jumped out of the transfer.                                  *)
Owners ==
  /\ \A d \in Descriptors, w \in Workers : job[w] # None =>
       /\ fds[d] = job[w] => d = fd[w]
       /\ fds[d] = -job[w] => d = file[w] \/ job[w] \in left
  /\ \A w \in Workers : w \notin robbed =>
       /\ step[w] \notin {"idle", "jumped", "gaveup"} => Holds(w)
       /\ file[w] # None => HoldsFile(w)

Keeping == ServerTypeOK /\ Ordered /\ InLine /\ Owners /\ LeaksOnlyUncreated

(* A descriptor that stands for nothing stands for neither a socket nor a  *)
(* file.                                                                   *)
LEMMA MinusNone == None \in Int /\ -None = None
<1>1. ASSUME NEW n \in Int, n = None PROVE -n = n
  <2>1. n <= 0 /\ 0 <= n
    BY <1>1 DEF None
  <2>2. -n <= 0 /\ 0 <= -n /\ -n \in Int
    BY <2>1
  <2> QED
    BY <2>1, <2>2
<1>2. None \in Int
  BY DEF None
<1> QED
  BY <1>1, <1>2

(* Steps that neither open nor close anything. *)
LEMMA QuietKeeps ==
  ASSUME Keeping, UNCHANGED <<submitted, queued, job, fd, file, fds, robbed, failed, left>>,
         \/ step' = step
         \/ \E w \in Workers : /\ step[w] \notin {"idle", "jumped", "gaveup"}
                               /\ \E l \in Steps : step' = [step EXCEPT ![w] = l]
  PROVE  InLine' /\ Owners' /\ LeaksOnlyUncreated'
<1>1. InLine'
  BY DEF Keeping, InLine
<1>2. Owners'
  BY DEF Keeping, ServerTypeOK, Owners, Holds, HoldsFile
<1>3. LeaksOnlyUncreated'
  BY DEF Keeping, LeaksOnlyUncreated
<1> QED
  BY <1>1, <1>2, <1>3

(* A request that comes is the last in line. *)
LEMMA ReceiveKeeps ==
  ASSUME Keeping, Receive
  PROVE  InLine' /\ Owners' /\ LeaksOnlyUncreated'
<1>1. /\ queued' = Append(queued, submitted + 1) /\ submitted' = submitted + 1
      /\ UNCHANGED <<step, job, fd, file, fds, robbed, failed, left>>
  BY DEF Receive, Pool!Submit, table, leaks
<1>2. /\ submitted \in Nat /\ queued \in Seq(Nat) /\ Len(queued) \in Nat
      /\ job \in [Workers -> Nat] /\ fds \in [Descriptors -> Int]
      /\ \A i \in 1..Len(queued) : queued[i] \in Nat /\ queued[i] <= submitted
      /\ \A w \in Workers : job[w] <= submitted
  <2>1. Requests \subseteq Nat /\ Numbers \subseteq Nat /\ -MaxRequests..MaxRequests \subseteq Int
    BY RequestsAssumption DEF Requests, Numbers
  <2>2. job \in [Workers -> Nat] /\ submitted \in Nat /\ fds \in [Descriptors -> Int]
    BY <2>1 DEF Keeping, ServerTypeOK
  <2>3. queued \in Seq(Nat)
    BY RequestsAssumption DEF Keeping, ServerTypeOK, Requests
  <2> QED
    BY <2>2, <2>3 DEF Keeping, Ordered
<1>3. /\ Len(queued') = Len(queued) + 1
      /\ \A i \in 1..Len(queued') :
           \/ i \in 1..Len(queued) /\ queued'[i] = queued[i]
           \/ i = Len(queued) + 1 /\ queued'[i] = submitted + 1
  BY <1>1, <1>2
<1>4. ASSUME NEW i \in 1..Len(queued'), NEW j \in 1..Len(queued'), i < j
      PROVE  queued'[i] < queued'[j]
  <2>1. i \in 1..Len(queued) /\ queued'[i] = queued[i]
    BY <1>2, <1>3, <1>4
  <2>2. CASE j \in 1..Len(queued) /\ queued'[j] = queued[j]
    BY <1>4, <2>1, <2>2 DEF Keeping, InLine
  <2>3. CASE queued'[j] = submitted + 1
    BY <1>2, <2>1, <2>3
  <2> QED
    BY <1>3, <2>2, <2>3
<1>5. \A d \in Descriptors : fds[d] <= submitted /\ -fds[d] <= submitted
  BY DEF Keeping, InLine
<1>6. ASSUME NEW i \in 1..Len(queued')
      PROVE  /\ \A w \in Workers : job'[w] < queued'[i]
             /\ \A d \in Descriptors : fds'[d] < queued'[i] /\ -fds'[d] < queued'[i]
  <2>1. CASE i \in 1..Len(queued) /\ queued'[i] = queued[i]
    BY <1>1, <2>1 DEF Keeping, InLine
  <2>2. CASE queued'[i] = submitted + 1
    BY <1>1, <1>2, <1>5, <2>2
  <2> QED
    BY <1>3, <2>1, <2>2
<1>7. \A d \in Descriptors : fds[d] <= submitted + 1 /\ -fds[d] <= submitted + 1
  BY <1>2, <1>5
<1>8. InLine'
  BY <1>1, <1>4, <1>6, <1>7 DEF Keeping, InLine
<1> QED
  BY <1>1, <1>8 DEF Keeping, Owners, Holds, HoldsFile, LeaksOnlyUncreated

(* The job that a worker takes was never at work, so that its socket is    *)
(* open nowhere but at the new descriptor.                                 *)
LEMMA CreateKeeps ==
  ASSUME Keeping, NEW w \in Workers, Create(w)
  PROVE  InLine' /\ Owners' /\ LeaksOnlyUncreated'
<1> DEFINE taken == Head(queued)
<1>1. PICK d \in Descriptors :
        /\ fds[d] = None
        /\ fds' = [fds EXCEPT ![d] = taken] /\ fd' = [fd EXCEPT ![w] = d]
  BY DEF Create, Open
<1>2. /\ step[w] = "idle" /\ queued # <<>>
      /\ job' = [job EXCEPT ![w] = taken] /\ queued' = Tail(queued)
      /\ step' = [step EXCEPT ![w] = "offer"]
      /\ UNCHANGED <<submitted, file, robbed, failed, left>>
  BY DEF Create, At, Goto, Pool!Start, leaks
<1>3. /\ queued \in Seq(Requests) /\ job \in [Workers -> Numbers] /\ fds \in [Descriptors -> Int]
      /\ fd \in [Workers -> {None} \cup Descriptors] /\ step \in [Workers -> Steps]
      /\ job[w] = None /\ file[w] = None /\ submitted \in Nat
  <2>1. -MaxRequests..MaxRequests \subseteq Int /\ Numbers \subseteq Nat
    BY RequestsAssumption DEF Numbers
  <2>2. job[w] = None /\ file[w] = None
    BY <1>2 DEF Keeping, ServerTypeOK, JobsHaveSockets
  <2> QED
    BY <2>1, <2>2 DEF Keeping, ServerTypeOK
<1>4. /\ Len(queued) \in Nat /\ Len(queued) > 0 /\ taken = queued[1]
      /\ taken \in Nat /\ taken # None /\ taken <= submitted
      /\ \A i \in 1..Len(queued') : i \in Nat /\ i + 1 \in 1..Len(queued) /\ queued'[i] = queued[i + 1]
  <2>1. Len(queued) \in Nat /\ Len(queued) > 0 /\ taken = queued[1] /\ taken \in Requests
    BY <1>2, <1>3
  <2>2. taken \in Nat /\ taken # None
    BY <2>1, RequestsAssumption DEF Requests, None
  <2>3. taken <= submitted
    BY <2>1 DEF Keeping, Ordered
  <2>4. Len(Tail(queued)) = Len(queued) - 1
        /\ \A i \in 1..Len(Tail(queued)) : Tail(queued)[i] = queued[i + 1]
    BY <1>2, <1>3
  <2>5. \A i \in 1..Len(Tail(queued)) : i \in Nat /\ i + 1 \in 1..Len(queued)
    BY <2>1, <2>4
  <2> HIDE DEF taken
  <2> QED
    BY <1>2, <2>1, <2>2, <2>3, <2>4, <2>5
<1>5. /\ \A v \in Workers : job[v] < taken
      /\ \A e \in Descriptors : fds[e] < taken /\ -fds[e] < taken
  BY <1>4 DEF Keeping, InLine
<1> HIDE DEF taken
<1>6. \A v \in Workers : job[v] \in Nat /\ job[v] # taken
  BY <1>3, <1>4, <1>5, RequestsAssumption DEF Numbers
<1>7. \A e \in Descriptors : fds[e] \in Int /\ fds[e] # taken /\ fds[e] # -taken
  BY <1>3, <1>4, <1>5
<1>8. /\ \A v \in Workers : job'[v] = IF v = w THEN taken ELSE job[v]
      /\ \A e \in Descriptors : fds'[e] = IF e = d THEN taken ELSE fds[e]
      /\ \A v \in Workers : fd'[v] = IF v = w THEN d ELSE fd[v]
      /\ \A v \in Workers : step'[v] = IF v = w THEN "offer" ELSE step[v]
  BY <1>1, <1>2, <1>3
<1>9. InLine'
  <2>1. ASSUME NEW i \in 1..Len(queued'), NEW j \in 1..Len(queued'), i < j
        PROVE  queued'[i] < queued'[j]
    <3>1. /\ i + 1 \in 1..Len(queued) /\ j + 1 \in 1..Len(queued) /\ i + 1 < j + 1
      BY <1>4, <2>1
    <3> QED
      BY <1>4, <3>1 DEF Keeping, InLine
  <2>2. ASSUME NEW i \in 1..Len(queued')
        PROVE  /\ \A v \in Workers : job'[v] < queued'[i]
               /\ \A e \in Descriptors : fds'[e] < queued'[i] /\ -fds'[e] < queued'[i]
    <3>1. i + 1 \in 1..Len(queued) /\ 1 < i + 1 /\ 1 \in 1..Len(queued)
      BY <1>4
    <3>2. taken < queued'[i] /\ queued'[i] \in Nat
      <4>1. taken < queued'[i]
        BY <1>4, <3>1 DEF Keeping, InLine
      <4>2. queued[i + 1] \in Requests
        BY <1>3, <3>1
      <4> QED
        BY <1>4, <4>1, <4>2, RequestsAssumption DEF Requests
    <3>3. /\ \A v \in Workers : job[v] < queued'[i]
          /\ \A e \in Descriptors : fds[e] < queued'[i] /\ -fds[e] < queued'[i]
      BY <1>4, <3>1 DEF Keeping, InLine
    <3>4. -taken < queued'[i]
      BY <1>4, <3>2
    <3> QED
      BY <1>8, <3>2, <3>3, <3>4
  <2>3. \A e \in Descriptors : fds'[e] <= submitted' /\ -fds'[e] <= submitted'
    <3>1. -taken <= submitted
      BY <1>3, <1>4
    <3> QED
      BY <1>2, <1>4, <1>8, <3>1 DEF Keeping, InLine
  <2>4. \A u, v \in Workers : job'[u] = job'[v] /\ job'[u] # None => u = v
    BY <1>6, <1>8 DEF Keeping, InLine
  <2> QED
    BY <2>1, <2>2, <2>3, <2>4 DEF InLine
<1>10. Owners'
  <2>1. ASSUME NEW e \in Descriptors, NEW v \in Workers, job'[v] # None
        PROVE  /\ fds'[e] = job'[v] => e = fd'[v]
               /\ fds'[e] = -job'[v] => e = file'[v] \/ job'[v] \in left'
    <3>1. CASE v = w
      <4>1. -taken # taken
        BY <1>4 DEF None
      <4> QED
        BY <1>7, <1>8, <3>1, <4>1
    <3>2. CASE v # w
      <4>1. taken # -job[v] /\ taken # job[v]
        BY <1>4, <1>6 DEF None
      <4> QED
        BY <1>2, <1>8, <2>1, <3>2, <4>1 DEF Keeping, Owners
    <3> QED
      BY <3>1, <3>2
  <2>2. ASSUME NEW v \in Workers, v \notin robbed'
        PROVE  /\ step'[v] \notin {"idle", "jumped", "gaveup"} => fd'[v] # None /\ fds'[fd'[v]] = job'[v]
               /\ file'[v] # None => fds'[file'[v]] = -job'[v]
    <3>1. CASE v = w
      BY <1>2, <1>3, <1>8, <3>1 DEF Descriptors, None
    <3>2. CASE v # w
      <4>1. v \notin robbed
        BY <1>2, <2>2
      <4>2. job[v] # None => -job[v] # None
        BY <1>6 DEF None
      <4>3. /\ step[v] \notin {"idle", "jumped", "gaveup"} =>
                 job[v] # None /\ fd[v] \in Descriptors /\ fds[fd[v]] = job[v]
            /\ file[v] # None => job[v] # None /\ file[v] \in Descriptors /\ fds[file[v]] = -job[v]
        BY <4>1 DEF Keeping, Owners, Holds, HoldsFile, ServerTypeOK, JobsHaveSockets
      <4>4. /\ step[v] \notin {"idle", "jumped", "gaveup"} => fd[v] # d
            /\ file[v] # None => file[v] # d
        BY <1>1, <4>2, <4>3
      <4> QED
        BY <1>2, <1>8, <3>2, <4>3, <4>4 DEF Descriptors, None
    <3> QED
      BY <3>1, <3>2
  <2> QED
    BY <2>1, <2>2 DEF Owners, Holds, HoldsFile
<1>11. LeaksOnlyUncreated'
  <2> SUFFICES ASSUME NEW e \in Descriptors, fds'[e] # None
               PROVE  \/ fds'[e] \in failed' \/ -fds'[e] \in left'
                      \/ \E v \in Workers : job'[v] # None /\ fds'[e] \in {job'[v], -job'[v]}
    BY DEF LeaksOnlyUncreated
  <2>1. CASE e = d
    BY <1>4, <1>8, <2>1
  <2>2. CASE e # d
    <3>1. \/ fds[e] \in failed \/ -fds[e] \in left
          \/ \E v \in Workers : job[v] # None /\ fds[e] \in {job[v], -job[v]}
      BY <1>8, <2>2 DEF Keeping, LeaksOnlyUncreated
    <3> QED
      BY <1>2, <1>3, <1>8, <2>2, <3>1
  <2> QED
    BY <2>1, <2>2
<1> QED
  BY <1>9, <1>10, <1>11

(* A file is opened at a descriptor that nobody holds. *)
LEMMA OpenKeeps ==
  ASSUME Keeping, NEW w \in Workers, step[w] \in {"serve", "again"},
         NEW l \in {"size", "transfer"}, OpenAs(w, l)
  PROVE  InLine' /\ Owners' /\ LeaksOnlyUncreated'
<1>1. PICK d \in Descriptors :
        /\ fds[d] = None
        /\ fds' = [fds EXCEPT ![d] = -job[w]] /\ file' = [file EXCEPT ![w] = d]
  BY DEF OpenAs, Open
<1>2. /\ step' = [step EXCEPT ![w] = l]
      /\ UNCHANGED <<submitted, queued, job, fd, robbed, failed, left>>
  BY DEF OpenAs, Goto, pool, leaks
<1>3. /\ queued \in Seq(Requests) /\ fds \in [Descriptors -> Int] /\ step \in [Workers -> Steps]
      /\ file \in [Workers -> {None} \cup Descriptors]
      /\ \A v \in Workers : job[v] \in Nat
      /\ job[w] # None /\ job[w] \in Nat /\ file[w] = None /\ submitted \in Nat
  <2>1. /\ -MaxRequests..MaxRequests \subseteq Int /\ Numbers \subseteq Nat
    BY RequestsAssumption DEF Numbers
  <2>2. job[w] # None /\ file[w] = None
    BY DEF Keeping, ServerTypeOK, JobsHaveSockets
  <2> QED
    BY <2>1, <2>2 DEF Keeping, ServerTypeOK
<1>4. /\ \A e \in Descriptors : fds'[e] = IF e = d THEN -job[w] ELSE fds[e]
      /\ \A v \in Workers : file'[v] = IF v = w THEN d ELSE file[v]
      /\ \A v \in Workers : step'[v] = IF v = w THEN l ELSE step[v]
  BY <1>1, <1>2, <1>3
<1>5. -job[w] <= job[w] /\ -(-job[w]) = job[w] /\ -job[w] # job[w] /\ -job[w] # None
  BY <1>3 DEF None
<1>6. InLine'
  <2>1. ASSUME NEW i \in 1..Len(queued), NEW e \in Descriptors
        PROVE  fds'[e] < queued[i] /\ -fds'[e] < queued[i]
    <3>1. job[w] < queued[i] /\ queued[i] \in Nat
      BY <1>3, RequestsAssumption DEF Keeping, InLine, Requests
    <3>2. -job[w] < queued[i]
      BY <1>3, <3>1
    <3> QED
      BY <1>4, <1>5, <3>1, <3>2 DEF Keeping, InLine
  <2>2. \A e \in Descriptors : fds'[e] <= submitted /\ -fds'[e] <= submitted
    <3>1. job[w] <= submitted
      BY DEF Keeping, Ordered
    <3>2. -job[w] <= submitted
      BY <1>3, <3>1
    <3> QED
      BY <1>4, <1>5, <3>1, <3>2 DEF Keeping, InLine
  <2> QED
    BY <1>2, <2>1, <2>2 DEF Keeping, InLine
<1>7. Owners'
  <2>1. ASSUME NEW e \in Descriptors, NEW v \in Workers, job'[v] # None
        PROVE  /\ fds'[e] = job'[v] => e = fd'[v]
               /\ fds'[e] = -job'[v] => e = file'[v] \/ job'[v] \in left'
    <3>1. CASE v = w
      <4>1. fds[e] = -job[w] => job[w] \in left
        BY <1>3, <3>1 DEF Keeping, Owners, Descriptors, None
      <4> QED
        BY <1>2, <1>4, <1>5, <2>1, <3>1, <4>1 DEF Keeping, Owners
    <3>2. CASE v # w
      <4>1. job[v] # job[w]
        BY <1>3, <3>2 DEF Keeping, InLine
      <4>2. -job[w] # -job[v] /\ -job[w] # job[v]
        BY <1>3, <4>1 DEF None
      <4> QED
        BY <1>2, <1>4, <2>1, <3>2, <4>2 DEF Keeping, Owners
    <3> QED
      BY <3>1, <3>2
  <2>2. ASSUME NEW v \in Workers, v \notin robbed'
        PROVE  /\ step'[v] \notin {"idle", "jumped", "gaveup"} => fd'[v] # None /\ fds'[fd'[v]] = job'[v]
               /\ file'[v] # None => fds'[file'[v]] = -job'[v]
    <3>1. v \notin robbed
      BY <1>2, <2>2
    <3>2. job[v] # None => -job[v] # None
      BY <1>3 DEF None
    <3>3. /\ step[v] \notin {"idle", "jumped", "gaveup"} =>
               job[v] # None /\ fd[v] \in Descriptors /\ fds[fd[v]] = job[v]
          /\ file[v] # None => job[v] # None /\ file[v] \in Descriptors /\ fds[file[v]] = -job[v]
      BY <3>1 DEF Keeping, Owners, Holds, HoldsFile, ServerTypeOK, JobsHaveSockets
    <3>4. /\ step[v] \notin {"idle", "jumped", "gaveup"} => fd[v] # d
          /\ file[v] # None => file[v] # d
      BY <1>1, <3>2, <3>3
    <3> QED
      BY <1>2, <1>4, <3>3, <3>4 DEF Descriptors, None
  <2> QED
    BY <2>1, <2>2 DEF Owners, Holds, HoldsFile
<1>8. LeaksOnlyUncreated'
  BY <1>2, <1>3, <1>4 DEF Keeping, LeaksOnlyUncreated
<1> QED
  BY <1>6, <1>7, <1>8

(* What a worker closes is its own, or was taken from it before; it closes *)
(* its socket only on the way out.                                         *)
LEMMA CloseKeeps ==
  ASSUME Keeping, NEW w \in Workers, step[w] \notin {"idle", "jumped", "gaveup"},
         NEW d \in Descriptors, Close(w, d), NEW l \in Steps, Goto(w, l),
         file' = [file EXCEPT ![w] = None], UNCHANGED <<submitted, queued, job, fd, failed>>,
         \/ d = file[w] /\ left' = left
         \/ /\ l \in {"jumped", "gaveup"}
            /\ left' = IF file[w] = None THEN left ELSE left \cup {job[w]}
  PROVE  InLine' /\ Owners' /\ LeaksOnlyUncreated'
<1>1. /\ fds' = [fds EXCEPT ![d] = None] /\ step' = [step EXCEPT ![w] = l]
      /\ robbed' = robbed \cup {v \in Workers \ {w} : \/ fd[v] = d /\ Holds(v)
                                                      \/ file[v] = d /\ HoldsFile(v)}
  BY DEF Close, Goto
<1>2. /\ queued \in Seq(Requests) /\ fds \in [Descriptors -> Int] /\ step \in [Workers -> Steps]
      /\ file \in [Workers -> {None} \cup Descriptors]
      /\ \A v \in Workers : job[v] \in Nat
      /\ job[w] # None /\ submitted \in Nat
  <2>1. -MaxRequests..MaxRequests \subseteq Int
    BY RequestsAssumption
  <2> QED
    BY <2>1, RequestsAssumption DEF Keeping, ServerTypeOK, JobsHaveSockets, Numbers
<1>3. /\ \A e \in Descriptors : fds'[e] = IF e = d THEN None ELSE fds[e]
      /\ \A v \in Workers : file'[v] = IF v = w THEN None ELSE file[v]
      /\ \A v \in Workers : step'[v] = IF v = w THEN l ELSE step[v]
  BY <1>1, <1>2
<1>4. /\ left \subseteq left' /\ robbed \subseteq robbed'
      /\ \A v \in Workers \ {w} : v \notin robbed' =>
           /\ fd[v] = d => ~Holds(v)
           /\ file[v] = d => ~HoldsFile(v)
  BY <1>1
<1>5. InLine'
  <2>1. ASSUME NEW i \in 1..Len(queued), NEW e \in Descriptors
        PROVE  fds'[e] < queued[i] /\ -fds'[e] < queued[i]
    <3>1. CASE fds'[e] = fds[e]
      BY <3>1 DEF Keeping, InLine
    <3>2. CASE fds'[e] = None
      <4>1. None < queued[i]
        BY <1>2, RequestsAssumption DEF Requests, None
      <4> QED
        BY <3>2, <4>1, MinusNone
    <3> QED
      BY <1>3, <3>1, <3>2
  <2>2. \A e \in Descriptors : fds'[e] <= submitted /\ -fds'[e] <= submitted
    <3>1. None <= submitted
      BY <1>2 DEF None
    <3> QED
      BY <1>3, <3>1, MinusNone DEF Keeping, InLine
  <2> QED
    BY <2>1, <2>2 DEF Keeping, InLine
<1>6. Owners'
  <2>1. ASSUME NEW e \in Descriptors, NEW v \in Workers, job'[v] # None
        PROVE  /\ fds'[e] = job'[v] => e = fd'[v]
               /\ fds'[e] = -job'[v] => e = file'[v] \/ job'[v] \in left'
    <3>1. job[v] # None /\ -job[v] # None
      BY <1>2, <2>1 DEF None
    <3>2. CASE v = w
      <4>1. fds[e] = -job[w] => e = file[w] \/ job[w] \in left
        BY <3>1, <3>2 DEF Keeping, Owners
      <4>2. file[w] # None /\ fds'[e] = -job[w] /\ e = file[w] => job[w] \in left'
        BY <1>3, <3>1, <3>2
      <4> QED
        BY <1>3, <1>4, <3>1, <3>2, <4>1, <4>2 DEF Keeping, Owners, Descriptors, None
    <3>3. CASE v # w
      BY <1>3, <1>4, <3>1, <3>3 DEF Keeping, Owners
    <3> QED
      BY <3>2, <3>3
  <2>2. ASSUME NEW v \in Workers, v \notin robbed'
        PROVE  /\ step'[v] \notin {"idle", "jumped", "gaveup"} => fd'[v] # None /\ fds'[fd'[v]] = job'[v]
               /\ file'[v] # None => fds'[file'[v]] = -job'[v]
    <3>1. v \notin robbed
      BY <1>4, <2>2
    <3>2. /\ step[v] \notin {"idle", "jumped", "gaveup"} =>
               job[v] # None /\ fd[v] \in Descriptors /\ fds[fd[v]] = job[v] /\ Holds(v)
          /\ file[v] # None =>
               job[v] # None /\ file[v] \in Descriptors /\ fds[file[v]] = -job[v] /\ HoldsFile(v)
      BY <3>1 DEF Keeping, Owners, Holds, HoldsFile, ServerTypeOK, JobsHaveSockets
    <3>3. CASE v # w
      BY <1>3, <1>4, <2>2, <3>2, <3>3 DEF Descriptors, None
    <3>4. CASE v = w
      <4>1. file'[v] = None
        BY <1>3, <3>4
      <4>2. ASSUME step'[v] \notin {"idle", "jumped", "gaveup"}
            PROVE  fd'[v] # None /\ fds'[fd'[v]] = job'[v]
        <5>1. d = file[w]
          BY <1>3, <3>4, <4>2
        <5>2. fds[d] = -job[w] /\ fds[fd[w]] = job[w] /\ fd[w] \in Descriptors
          BY <3>2, <3>4, <5>1 DEF Descriptors, None
        <5>3. fd[w] # d
          BY <1>2, <5>2 DEF None
        <5> QED
          BY <1>3, <3>4, <5>2, <5>3 DEF Descriptors, None
      <4> QED
        BY <4>1, <4>2
    <3> QED
      BY <3>3, <3>4
  <2> QED
    BY <2>1, <2>2 DEF Owners, Holds, HoldsFile
<1>7. LeaksOnlyUncreated'
  BY <1>3, <1>4 DEF Keeping, LeaksOnlyUncreated
<1> QED
  BY <1>5, <1>6, <1>7

(* A worker that returns leaves no socket but that of a handler that was   *)
(* not made.                                                               *)
LEMMA ReturnKeeps ==
  ASSUME Keeping, NEW w \in Workers, step[w] \notin {"idle", "size", "transfer"}, Return(w),
         \/ fds' = fds /\ failed' = failed \cup {job[w]} /\ robbed' = robbed \ {w}
         \/ /\ fds' = [fds EXCEPT ![fd[w]] = None] /\ failed' = failed
            /\ robbed' = (robbed \cup {v \in Workers : \/ fd[v] = fd[w] /\ Holds(v)
                                                       \/ file[v] = fd[w] /\ HoldsFile(v)}) \ {w}
  PROVE  InLine' /\ Owners' /\ LeaksOnlyUncreated'
<1>1. /\ job' = [job EXCEPT ![w] = None] /\ step' = [step EXCEPT ![w] = "idle"]
      /\ fd' = [fd EXCEPT ![w] = None]
      /\ job[w] # None /\ UNCHANGED <<submitted, queued, file, left>>
  BY DEF Return, Goto, Pool!Release, Pool!NoJob, None
<1>2. /\ queued \in Seq(Requests) /\ job \in [Workers -> Nat] /\ fds \in [Descriptors -> Int]
      /\ fd \in [Workers -> {None} \cup Descriptors] /\ step \in [Workers -> Steps]
      /\ submitted \in Nat /\ fd[w] \in Descriptors /\ file[w] = None
  <2>1. /\ -MaxRequests..MaxRequests \subseteq Int /\ Numbers \subseteq Nat
    BY RequestsAssumption DEF Numbers
  <2>2. fd[w] \in Descriptors /\ file[w] = None
    BY DEF Keeping, ServerTypeOK, JobsHaveSockets
  <2> QED
    BY <2>1, <2>2 DEF Keeping, ServerTypeOK
<1>3. /\ \A v \in Workers : job'[v] = IF v = w THEN None ELSE job[v]
      /\ \A v \in Workers : fd'[v] = IF v = w THEN None ELSE fd[v]
      /\ \A v \in Workers : step'[v] = IF v = w THEN "idle" ELSE step[v]
  BY <1>1, <1>2
<1>4. /\ \A e \in Descriptors : fds'[e] = fds[e] \/ (fds'[e] = None /\ e = fd[w])
      /\ \A v \in Workers \ {w} : v \notin robbed' => v \notin robbed
      /\ failed \subseteq failed'
  BY <1>2
<1>5. ASSUME NEW v \in Workers \ {w}, v \notin robbed'
      PROVE  /\ Holds(v) => fds'[fd[v]] = fds[fd[v]]
             /\ HoldsFile(v) => fds'[file[v]] = fds[file[v]]
  <2>1. /\ Holds(v) => fd[v] \in Descriptors
        /\ HoldsFile(v) => file[v] \in Descriptors
    BY DEF Keeping, ServerTypeOK, Holds, HoldsFile
  <2>2. CASE fds' = fds
    BY <2>2
  <2>3. CASE fds' # fds
    <3>1. /\ fds' = [fds EXCEPT ![fd[w]] = None]
          /\ fd[v] = fd[w] => ~Holds(v)
          /\ file[v] = fd[w] => ~HoldsFile(v)
      BY <1>5, <2>3
    <3> QED
      BY <1>2, <2>1, <3>1
  <2> QED
    BY <2>2, <2>3
<1>6. \A i \in 1..Len(queued) : queued[i] \in Nat /\ None < queued[i]
  BY <1>2, RequestsAssumption DEF Requests, None
<1>7. InLine'
  <2>1. \A i \in 1..Len(queued) : \A v \in Workers : job'[v] < queued[i]
    BY <1>3, <1>6 DEF Keeping, InLine
  <2>2. ASSUME NEW i \in 1..Len(queued), NEW e \in Descriptors
        PROVE  fds'[e] < queued[i] /\ -fds'[e] < queued[i]
    <3>1. CASE fds'[e] = fds[e]
      BY <3>1 DEF Keeping, InLine
    <3>2. CASE fds'[e] = None
      BY <1>6, <3>2, MinusNone
    <3> QED
      BY <1>4, <3>1, <3>2
  <2>3. \A e \in Descriptors : fds'[e] <= submitted /\ -fds'[e] <= submitted
    <3>1. None <= submitted
      BY <1>2 DEF None
    <3> QED
      BY <1>4, <3>1, MinusNone DEF Keeping, InLine
  <2>4. \A u, v \in Workers : job'[u] = job'[v] /\ job'[u] # None => u = v
    BY <1>3 DEF Keeping, InLine
  <2> QED
    BY <1>1, <2>1, <2>2, <2>3, <2>4 DEF Keeping, InLine
<1>8. Owners'
  <2>1. ASSUME NEW e \in Descriptors, NEW v \in Workers, job'[v] # None
        PROVE  /\ fds'[e] = job'[v] => e = fd'[v]
               /\ fds'[e] = -job'[v] => e = file'[v] \/ job'[v] \in left'
    <3>1. v # w /\ job'[v] = job[v] /\ fd'[v] = fd[v] /\ job[v] # None
      BY <1>3, <2>1
    <3>2. -job[v] # None
      BY <1>2, <3>1 DEF None
    <3> QED
      BY <1>1, <1>4, <3>1, <3>2 DEF Keeping, Owners
  <2>2. ASSUME NEW v \in Workers, v \notin robbed'
        PROVE  /\ step'[v] \notin {"idle", "jumped", "gaveup"} => fd'[v] # None /\ fds'[fd'[v]] = job'[v]
               /\ file'[v] # None => fds'[file'[v]] = -job'[v]
    <3>1. CASE v = w
      BY <1>1, <1>2, <1>3, <3>1
    <3>2. CASE v # w
      <4>1. v \notin robbed
        BY <1>4, <2>2, <3>2
      <4>2. /\ step[v] \notin {"idle", "jumped", "gaveup"} => Holds(v)
            /\ file[v] # None => HoldsFile(v)
        BY <4>1 DEF Keeping, Owners
      <4> QED
        BY <1>1, <1>3, <1>5, <2>2, <3>2, <4>2 DEF Holds, HoldsFile
    <3> QED
      BY <3>1, <3>2
  <2> QED
    BY <2>1, <2>2 DEF Owners, Holds, HoldsFile
<1>9. LeaksOnlyUncreated'
  <2> SUFFICES ASSUME NEW e \in Descriptors, fds'[e] # None
               PROVE  \/ fds'[e] \in failed' \/ -fds'[e] \in left'
                      \/ \E v \in Workers : job'[v] # None /\ fds'[e] \in {job'[v], -job'[v]}
    BY DEF LeaksOnlyUncreated
  <2>1. fds'[e] = fds[e]
    BY <1>4
  <2>2. CASE fds[e] = job[w]
    <3>1. e = fd[w]
      BY <1>1, <2>2 DEF Keeping, Owners
    <3>2. failed' = failed \cup {job[w]}
      BY <1>2, <3>1
    <3> QED
      BY <2>1, <2>2, <3>2
  <2>3. CASE fds[e] = -job[w]
    <3>1. job[w] \in left
      BY <1>1, <1>2, <2>3 DEF Keeping, Owners, Descriptors, None
    <3>2. -fds[e] = job[w]
      BY <1>2, <2>3
    <3> QED
      BY <1>1, <2>1, <3>1, <3>2
  <2>4. CASE fds[e] \notin {job[w], -job[w]}
    <3>1. \/ fds[e] \in failed \/ -fds[e] \in left
          \/ \E v \in Workers : job[v] # None /\ fds[e] \in {job[v], -job[v]}
      BY <2>1 DEF Keeping, LeaksOnlyUncreated
    <3> QED
      BY <1>1, <1>3, <1>4, <2>1, <2>4, <3>1
  <2> QED
    BY <2>2, <2>3, <2>4
<1> QED
  BY <1>7, <1>8, <1>9

(* What a handler does until it serves a request opens and closes nothing. *)
LEMMA AskKeeps ==
  ASSUME Keeping, NEW w \in Workers,
         Offer(w) \/ Listen(w) \/ Hear(w) \/ CopyHeader(w) \/ CopyBody(w)
  PROVE  InLine' /\ Owners' /\ LeaksOnlyUncreated'
<1>1. step[w] \in {"offer", "listen", "hear", "header", "body"}
  BY DEF Offer, Listen, Hear, CopyHeader, CopyBody, At
<1>2. CASE NotCreated(w)
  <2>1. Return(w) /\ fds' = fds /\ failed' = failed \cup {job[w]} /\ robbed' = robbed \ {w}
    BY <1>2 DEF NotCreated
  <2> QED
    BY <1>1, <2>1, ReturnKeeps
<1>3. CASE ~NotCreated(w)
  <2>1. UNCHANGED <<submitted, queued, job, fd, file, fds, robbed, failed, left>>
    BY <1>3 DEF Offer, Listen, Hear, CopyHeader, CopyBody, pool, table, leaks
  <2>2. \E l \in {"listen", "hear", "header", "body", "serve"} : Goto(w, l)
    BY <1>3, Zenon DEF Offer, Listen, Hear, CopyHeader, CopyBody
  <2>3. \E l \in Steps : step' = [step EXCEPT ![w] = l]
    BY <2>2 DEF Goto, Steps
  <2> QED
    BY <1>1, <2>1, <2>3, QuietKeeps
<1> QED
  BY <1>2, <1>3

(* A transfer opens and closes its file, and ends. *)
LEMMA ServeKeeps ==
  ASSUME Keeping, NEW w \in Workers, Serve(w)
  PROVE  InLine' /\ Owners' /\ LeaksOnlyUncreated'
<1>1. CASE OpenSize(w) \/ OpenAgain(w) \/ OpenWrite(w)
  <2>1. step[w] \in {"serve", "again"} /\ (OpenAs(w, "size") \/ OpenAs(w, "transfer"))
    BY <1>1 DEF OpenSize, OpenAgain, OpenWrite, At
  <2> QED
    BY <2>1, OpenKeeps
<1>2. CASE CloseSize(w) \/ Finish(w) \/ CloseFile(w)
  <2>1. /\ step[w] \in {"size", "transfer"}
        /\ CloseAs(w, "again") \/ CloseAs(w, "done") \/ CloseAs(w, "closed")
    BY <1>2 DEF CloseSize, Finish, CloseFile, At
  <2>2. PICK l \in {"again", "done", "closed"} : CloseAs(w, l)
    BY <2>1
  <2>3. file[w] \in Descriptors /\ l \in Steps
    BY <2>1 DEF Keeping, ServerTypeOK, JobsHaveSockets, Steps
  <2>4. /\ Close(w, file[w]) /\ Goto(w, l) /\ file' = [file EXCEPT ![w] = None] /\ left' = left
        /\ UNCHANGED <<submitted, queued, job, fd, failed>>
    BY <2>2 DEF CloseAs, pool, leaks
  <2> QED
    BY <2>1, <2>3, <2>4, CloseKeeps
<1>3. CASE ErrorPacket(w)
  <2>1. /\ step[w] = "serve" /\ step' = [step EXCEPT ![w] = "jumped"] /\ "jumped" \in Steps
        /\ UNCHANGED <<submitted, queued, job, fd, file, fds, robbed, failed, left>>
    BY <1>3 DEF ErrorPacket, At, Goto, Steps, pool, table, leaks
  <2> QED
    BY <2>1, QuietKeeps
<1>4. CASE Terminate(w) \/ GiveUp(w)
  <2>1. /\ step[w] \in {"serve", "transfer", "closed"} /\ Close(w, fd[w])
        /\ Jump(w, "jumped") \/ Jump(w, "gaveup")
    BY <1>4 DEF Terminate, GiveUp, At
  <2>2. PICK l \in {"jumped", "gaveup"} : Jump(w, l)
    BY <2>1
  <2>3. fd[w] \in Descriptors /\ l \in Steps
    BY <2>1 DEF Keeping, ServerTypeOK, JobsHaveSockets, Steps
  <2>4. /\ Goto(w, l) /\ file' = [file EXCEPT ![w] = None]
        /\ left' = IF file[w] = None THEN left ELSE left \cup {job[w]}
        /\ UNCHANGED <<submitted, queued, job, fd, failed>>
    BY <2>2 DEF Jump, pool
  <2> QED
    BY <2>1, <2>2, <2>3, <2>4, CloseKeeps
<1> QED
  BY <1>1, <1>2, <1>3, <1>4 DEF Serve

(* Every step keeps what is owned by whom. *)
LEMMA KeepingStep == Keeping /\ [ServerNext]_serverVars => Keeping'
<1> SUFFICES ASSUME Keeping, [ServerNext]_serverVars
             PROVE  Keeping'
  OBVIOUS
<1> DEFINE Rest == InLine' /\ Owners' /\ LeaksOnlyUncreated'
<1>1. ServerTypeOK' /\ Ordered'
  BY TypeStep, OrderStep DEF Keeping
<1>2. ASSUME NEW w \in Workers, FreeHandler(w)
      PROVE  Rest
  <2>1. step[w] \notin {"idle", "size", "transfer"}
    BY <1>2 DEF FreeHandler, At
  <2> QED
    BY <1>2, <2>1, ReturnKeeps DEF FreeHandler
<1>3. ASSUME NEW w \in Workers, CreateFails(w) \/ Dies(w)
      PROVE  Rest
  <2>1. UNCHANGED <<submitted, queued, job, step, fd, file, fds, robbed, failed, left>>
    BY <1>3 DEF CreateFails, Dies, pool, table, leaks
  <2> QED
    BY <2>1, QuietKeeps
<1>4. ASSUME NEW n \in Requests, ClientAnswer(n)
      PROVE  Rest
  <2>1. UNCHANGED <<submitted, queued, job, step, fd, file, fds, robbed, failed, left>>
    BY <1>4 DEF ClientAnswer, pool, table, leaks
  <2> QED
    BY <2>1, QuietKeeps
<1>5. ASSUME UNCHANGED serverVars
      PROVE  Rest
  <2>1. UNCHANGED <<submitted, queued, job, step, fd, file, fds, robbed, failed, left>>
    BY <1>5 DEF serverVars, pool, table, leaks
  <2> QED
    BY <2>1, QuietKeeps
<1>6. Rest
  BY <1>2, <1>3, <1>4, <1>5, ReceiveKeeps, CreateKeeps, AskKeeps, ServeKeeps DEF ServerNext, Worker
<1> QED
  BY <1>1, <1>6 DEF Keeping

(* At the start nothing is open. *)
LEMMA KeepingInit == ServerInit => Keeping
<1> SUFFICES ASSUME ServerInit
             PROVE  Keeping
  OBVIOUS
<1>1. ServerTypeOK /\ Ordered
  BY Starts
<1>2. queued = <<>> /\ submitted = 0 /\ job = [w \in Workers |-> 0]
  BY DEF ServerInit, Pool!Init, Pool!NoJob
<1> QED
  BY <1>1, <1>2, MinusNone
     DEF ServerInit, Keeping, InLine, Owners, Holds, HoldsFile, LeaksOnlyUncreated, None

(* What every reachable state of the server satisfies. *)
LEMMA Kept == ServerSpec => []Keeping
BY KeepingInit, KeepingStep, PTL DEF ServerSpec

(* Every way out of a handler but the failure to make it closes its socket *)
(* and, unless the transfer is jumped out of, its file, whatever is closed *)
(* twice.                                                                  *)
THEOREM SocketsAreClosed == ServerSpec => []LeaksOnlyUncreated
<1>1. Keeping => LeaksOnlyUncreated
  BY DEF Keeping
<1> QED
  BY <1>1, Kept, PTL

(* A socket or file is taken from a handler only by one that terminated,   *)
(* gave up or was robbed itself: never by one that served its request      *)
(* undisturbed.                                                            *)
THEOREM OnlyFailedTake == ServerSpec => SocketTakenByFailed
<1> DEFINE Taken == \A v \in robbed' \ robbed : \E w \in Workers \ {v} :
                      /\ \E d \in Descriptors : d \in {fd[w], file[w]} /\ d \in {fd[v], file[v]}
                      /\ w \in robbed \/ step[w] \in {"jumped", "gaveup"}
<1>1. Keeping /\ [ServerNext]_serverVars => [Taken]_serverVars
  <2> SUFFICES ASSUME Keeping, [ServerNext]_serverVars, NEW v \in robbed' \ robbed
               PROVE  \E w \in Workers \ {v} :
                        /\ \E d \in Descriptors : d \in {fd[w], file[w]} /\ d \in {fd[v], file[v]}
                        /\ w \in robbed \/ step[w] \in {"jumped", "gaveup"}
    OBVIOUS
  <2> DEFINE Hit(d) == {u \in Workers : \/ fd[u] = d /\ Holds(u)
                                        \/ file[u] = d /\ HoldsFile(u)}
  <2>1. \E w \in Workers : \E d \in {fd[w], file[w]} :
               v # w /\ v \in Hit(d) /\ step[w] # "idle" /\ (d = fd[w] \/ file[w] # None)
    <3>1. PICK w \in Workers : \/ CloseSize(w) \/ Finish(w) \/ CloseFile(w)
                               \/ Terminate(w) \/ GiveUp(w) \/ FreeHandler(w)
      BY DEF ServerNext, Worker, Serve, Receive, Create, CreateFails, Offer, Listen, NotCreated, Hear,
             CopyHeader, CopyBody, OpenSize, OpenAgain, OpenWrite, OpenAs, ErrorPacket, Dies,
             ClientAnswer, serverVars, table
    <3>2. step[w] # "idle"
      BY <3>1 DEF CloseSize, Finish, CloseFile, Terminate, GiveUp, FreeHandler, At
    <3>3. CASE CloseSize(w) \/ Finish(w) \/ CloseFile(w)
      <4>1. robbed' = robbed \cup (Hit(file[w]) \ {w})
        BY <3>3 DEF CloseSize, Finish, CloseFile, CloseAs, Close
      <4>2. step[w] \in {"size", "transfer"}
        BY <3>3 DEF CloseSize, Finish, CloseFile, At
      <4>3. file[w] # None
        BY <4>2 DEF Keeping, ServerTypeOK, JobsHaveSockets
      <4> QED
        BY <3>2, <4>1, <4>3
    <3>4. CASE Terminate(w) \/ GiveUp(w)
      <4>1. robbed' = robbed \cup (Hit(fd[w]) \ {w})
        BY <3>4 DEF Terminate, GiveUp, Close
      <4> QED
        BY <3>2, <4>1
    <3>5. CASE FreeHandler(w)
      <4>1. robbed' = (robbed \cup Hit(fd[w])) \ {w}
        BY <3>5 DEF FreeHandler
      <4> QED
        BY <3>2, <4>1
    <3> QED
      BY <3>1, <3>3, <3>4, <3>5
  <2>2. PICK w \in Workers : \E d \in {fd[w], file[w]} :
               v # w /\ v \in Hit(d) /\ step[w] # "idle" /\ (d = fd[w] \/ file[w] # None)
    BY <2>1
  <2>3. PICK d \in {fd[w], file[w]} :
               v # w /\ v \in Hit(d) /\ step[w] # "idle" /\ (d = fd[w] \/ file[w] # None)
    BY <2>2
  <2>4. /\ v \in Workers /\ job[v] \in Nat /\ job[w] \in Nat /\ job[w] # None
        /\ step[v] = "idle" => job[v] = None /\ fd[v] = None /\ file[v] = None
        /\ fd[w] \in Descriptors
    <3>1. Numbers \subseteq Nat
      BY RequestsAssumption DEF Numbers
    <3> QED
      BY <2>3, <3>1 DEF Keeping, ServerTypeOK, JobsHaveSockets
  <2>5. /\ d \in Descriptors /\ d \in {fd[v], file[v]}
        /\ job[v] # None /\ fds[d] \in {job[v], -job[v]}
    <3>1. \/ d = fd[v] /\ fds[d] = job[v] /\ fd[v] # None
          \/ d = file[v] /\ fds[d] = -job[v] /\ file[v] # None
      BY <2>3 DEF Holds, HoldsFile
    <3>2. d \in Descriptors
      BY <2>4, <3>1 DEF Keeping, ServerTypeOK
    <3>3. step[v] # "idle"
      BY <2>4, <3>1
    <3>4. job[v] # None
      BY <2>4, <3>3 DEF Keeping, ServerTypeOK, JobsHaveSockets
    <3> QED
      BY <3>1, <3>2, <3>4
  <2>6. w \in robbed \/ step[w] \in {"jumped", "gaveup"}
    <3> SUFFICES ASSUME w \notin robbed, step[w] \notin {"jumped", "gaveup"}
                 PROVE  FALSE
      OBVIOUS
    <3>1. fds[d] \in {job[w], -job[w]}
      BY <2>3 DEF Keeping, Owners, Holds, HoldsFile
    <3>2. job[v] = job[w]
      BY <2>4, <2>5, <3>1 DEF None
    <3> QED
      BY <2>3, <2>4, <2>5, <3>2 DEF Keeping, InLine
  <2> QED
    BY <2>3, <2>4, <2>5, <2>6
<1>2. ServerSpec => [][ServerNext]_serverVars
  BY PTL DEF ServerSpec
<1> QED
  BY <1>1, <1>2, Kept, PTL DEF SocketTakenByFailed

-----------------------------------------------------------------------------
(* One transfer: Transfer. *)

-----------------------------------------------------------------------------
(* Block numbers on the wire. *)

(* A remainder is below the divisor, and no larger than the number. *)
LEMMA ModRange ==
  ASSUME NEW n \in Nat, NEW d \in Nat \ {0}
  PROVE  n % d \in 0..d-1 /\ n % d <= n
<1>1. n % d \in 0..d-1
  BY SMTT(10)
<1>2. n = (d * (n \div d)) + (n % d)
  BY SMTT(10)
<1>3. n \div d \in Nat
  BY SMTT(10)
<1> QED
  BY <1>1, <1>2, <1>3, SMTT(10)

(* A multiple of d closer to 0 than d is 0. *)
LEMMA SmallMultiple ==
  ASSUME NEW q \in Int, NEW d \in Nat \ {0}, d * q < d, -d < d * q
  PROVE  q = 0
<1>1. CASE q > 0
  <2>1. d * q >= d
    BY <1>1, SMTT(10)
  <2> QED
    BY <2>1
<1>2. CASE q < 0
  <2>1. d * (-q) >= d
    BY <1>2, SMTT(10)
  <2>2. d * (-q) = -(d * q)
    BY SMTT(10)
  <2> QED
    BY <2>1, <2>2
<1> QED
  BY <1>1, <1>2

(* Two numbers that look the same on the wire and are less than a round    *)
(* apart are the same.                                                     *)
LEMMA ModSame ==
  ASSUME NEW a \in Int, NEW b \in Int, NEW d \in Nat \ {0},
         a % d = b % d, a - b < d, b - a < d
  PROVE  a = b
<1> DEFINE p == a \div d
           q == b \div d
           r == a % d
<1>1. a = (d * p) + r /\ b = (d * q) + r
  BY SMTT(10)
<1>2. p \in Int /\ q \in Int /\ r \in Int
  BY SMTT(10)
<1> HIDE DEF p, q, r
<1>3. a - b = d * (p - q)
  BY <1>1, <1>2, SMTT(10)
<1>4. p - q = 0
  BY <1>2, <1>3, SmallMultiple
<1> QED
  BY <1>1, <1>2, <1>4

(* Whole rounds do not change what is left of them. *)
LEMMA ModShift ==
  ASSUME NEW q \in Nat, NEW d \in Nat \ {0}, NEW x \in 0..d-1
  PROVE  ((q * d) + x) % d = x
<1> DEFINE a == (q * d) + x
           p == a \div d
           r == a % d
<1>0. a \in Nat
  BY SMTT(10)
<1>1. a = (d * p) + r /\ p \in Int /\ r \in 0..d-1
  BY <1>0, SMTT(10)
<1>2. a = (d * q) + x
  BY SMTT(10)
<1> HIDE DEF a, p, r
<1>3. r - x = d * (q - p)
  BY <1>0, <1>1, <1>2, SMTT(10)
<1>4. q - p = 0
  BY <1>1, <1>3, SmallMultiple
<1>5. r = x
  BY <1>1, <1>3, <1>4
<1> QED
  BY <1>5 DEF r, a

(* What an int makes of the bytes before a block is below its range, and   *)
(* right as long as they are within it.                                    *)
LEMMA BeforeBound ==
  ASSUME NEW n \in Nat \ {0}
  PROVE  Before(n) \in Int /\ Before(n) <= IntBlocks - 1
<1>1. IntBlocks \in Nat \ {0}
  BY SizesAssumption
<1>2. (n - 1 + IntBlocks) \in Nat /\ (2 * IntBlocks) \in Nat \ {0}
  BY <1>1
<1>3. (n - 1 + IntBlocks) % (2 * IntBlocks) \in 0..(2 * IntBlocks) - 1
  BY <1>2, ModRange
<1> QED
  BY <1>1, <1>3 DEF Before

(* Before counts right what an int can count. *)
LEMMA BeforeSmall ==
  ASSUME NEW n \in 1..IntBlocks
  PROVE  Before(n) = n - 1
<1>1. IntBlocks \in Nat \ {0}
  BY SizesAssumption
<1> DEFINE d == 2 * IntBlocks
           x == n - 1 + IntBlocks
<1>2. 0 \in Nat /\ d \in Nat \ {0} /\ x \in 0..d - 1
  BY <1>1
<1>3. x - IntBlocks = n - 1
  BY <1>1
<1> HIDE DEF d, x
<1>4. ((0 * d) + x) % d = x
  BY <1>2, ModShift, Zenon
<1>5. (0 * d) + x = x
  BY <1>2
<1>6. x % d = x
  BY <1>4, <1>5
<1> QED
  BY <1>3, <1>6 DEF Before, d, x

(* What is on its way after a Send was on its way before or is sent now.   *)
LEMMA SendOnly ==
  ASSUME NEW packets, NEW newest, Send(packets, newest)
  PROVE  net' \subseteq net \cup packets
  BY DEF Send

-----------------------------------------------------------------------------
(* What the packets on their way look like. *)
PacketTyped(m) ==
  /\ m \in [kind : {"DATA", "ACK", "OACK"}, n : 0..MaxSent, chunk : 0..blocks, short : BOOLEAN]
  /\ m.kind = "DATA" => /\ m.n > 0
                        /\ op = "RRQ" => m = Block(m.n, m.chunk)
                        /\ op = "WRQ" => m = DataPacket(m.n, m.n, m.n = blocks)
  /\ m.kind = "ACK" => m = Ack(m.n)
  /\ m.kind = "OACK" => m.n = 0
  /\ op = "WRQ" => m.n <= blocks

PacketsTyped == \A m \in net : PacketTyped(m)

(* What is untouched before the blocks begin, and by the other operation. *)
Stages ==
  /\ op = "RRQ" => base = -1 /\ pc # "recv"
  /\ op = "WRQ" => got = <<>> /\ pc \notin {"oack", "send", "ack"}
  /\ pc = "start" => net = {} /\ base = -1
  /\ pc \in {"start", "oack", "open"} =>
       /\ last = 0 /\ slot = 0 /\ written = <<>>
       /\ got = <<>> /\ read = 0 /\ First = 0 /\ ~complete
       /\ op = "RRQ" => \A m \in net : m.kind # "DATA"
  /\ slot = 0 \/ slot < window
  /\ Len(got) <= MaxSent

(* A write: nothing is acknowledged that did not come, nothing comes that  *)
(* the client did not send.                                                *)
Numbered ==
  op = "WRQ" =>
    /\ base <= last /\ last <= base + window + 1 /\ last < IdSpace
    /\ \A m \in net : /\ m.kind = "DATA" => m.n <= base + window
                      /\ m.kind = "ACK" => m.n <= last

(* Less than a round before what the client may send next, or would if he  *)
(* was given any acknowledgement on its way.                               *)
Fresh ==
  op = "WRQ" =>
    \A m \in net :
      /\ m.n + IdSpace > base + window
      /\ \A a \in net : a.kind = "ACK" => m.n + IdSpace > a.n + window

Saved ==
  op = "WRQ" =>
    /\ pc # "failed" => Len(written) = last
    /\ pc = "done" => last = blocks
    /\ InOrder(written)

Inv == TypeOK /\ PacketsTyped /\ Stages /\ Numbered /\ Fresh /\ Saved

(* The sizes, and how they compare. *)
LEMMA Windows ==
  ASSUME TypeOK
  PROVE  /\ MaxBlocks \in Nat /\ MaxWindow \in Nat \ {0} /\ IdSpace \in Nat \ {0}
         /\ MaxSent \in Nat /\ blocks <= MaxSent /\ IntBlocks \in Nat \ {0}
         /\ blocks \in Nat \ {0} /\ window \in Nat /\ window <= MaxWindow
         /\ IdSpace > 2 * window /\ IdSpace > window + 1
  BY SizesAssumption DEF TypeOK

(* Blocks are counted in naturals. *)
LEMMA FirstTyped ==
  ASSUME TypeOK
  PROVE  First \in Nat
<1>1. outer \in Nat /\ block \in Nat /\ IdSpace \in Nat
  BY SizesAssumption DEF TypeOK
<1> QED
  BY <1>1, SMTT(10) DEF First

(* The client is never misled by an acknowledgement whose number has come  *)
(* round.                                                                  *)
LEMMA AckMeansItself ==
  ASSUME Inv, op = "WRQ", NEW n \in 0..blocks, Ack(n) \in net,
         NEW k \in base + 1 .. base + window, k % IdSpace = n % IdSpace
  PROVE  k = n
<1>1. n <= last /\ n + IdSpace > base + window
  BY DEF Inv, Numbered, Fresh, Ack
<1>2. base \in Int /\ last \in Nat /\ last <= base + window + 1 /\ n \in Nat
  BY DEF Inv, Numbered, TypeOK
<1>3. IdSpace \in Nat \ {0} /\ window \in Nat /\ IdSpace > window + 1
  BY Windows DEF Inv
<1>4. k - n < IdSpace /\ n - k < IdSpace
  BY <1>1, <1>2, <1>3
<1>5. k \in Int /\ n \in Int
  BY <1>2, <1>3
<1> QED
  BY <1>3, <1>4, <1>5, ModSame, Zenon

-----------------------------------------------------------------------------
(* Types. *)

Types == TypeOK /\ PacketsTyped /\ Stages

(* A packet that is sent and typed leaves all packets typed.               *)
LEMMA SendTyped ==
  ASSUME Types, NEW packets, NEW newest, Send(packets, newest),
         blocks' = blocks, op' = op,
         \A m \in packets : PacketTyped(m)
  PROVE  PacketsTyped' /\ \A m \in net' : m.kind \in {"DATA", "ACK", "OACK"} /\ m.n \in 0..MaxSent
<1>1. net' \subseteq net \cup packets
  BY SendOnly
<1> QED
  BY <1>1 DEF Types, PacketsTyped, PacketTyped, Block, DataPacket, Before, Ack

(* An ACK is typed, and brings no block. *)
LEMMA AckTyped ==
  ASSUME Types, NEW n \in 0..MaxSent, op = "WRQ" => n <= blocks, NEW newest, Send({Ack(n)}, newest),
         blocks' = blocks, op' = op
  PROVE  /\ PacketsTyped'
         /\ \A m \in net' : m.kind \in {"DATA", "ACK", "OACK"} /\ m.n \in 0..MaxSent
         /\ \A m \in net' : m.kind = "DATA" => m \in net
<1>1. 0 \in 0..blocks
  BY DEF Types, TypeOK
<1>4. PacketTyped(Ack(n))
  BY <1>1 DEF PacketTyped, Ack
<1>2. PacketsTyped' /\ \A m \in net' : m.kind \in {"DATA", "ACK", "OACK"} /\ m.n \in 0..MaxSent
  BY <1>4, SendTyped
<1>3. net' \subseteq net \cup {Ack(n)}
  BY SendOnly
<1> QED
  BY <1>2, <1>3 DEF Ack

(* An OACK is typed, and brings no block. *)
LEMMA OackTyped ==
  ASSUME Types, NEW newest, Send({Oack}, newest), blocks' = blocks, op' = op
  PROVE  /\ PacketsTyped'
         /\ \A m \in net' : m.kind \in {"DATA", "ACK", "OACK"} /\ m.n \in 0..MaxSent
         /\ \A m \in net' : m.kind = "DATA" => m \in net
<1>1. 0 \in 0..blocks /\ 0 \in 0..MaxSent /\ 0 <= blocks
  BY Windows DEF Types, TypeOK
<1>4. PacketTyped(Oack)
  BY <1>1 DEF PacketTyped, Oack
<1>2. PacketsTyped' /\ \A m \in net' : m.kind \in {"DATA", "ACK", "OACK"} /\ m.n \in 0..MaxSent
  BY <1>4, SendTyped
<1>3. net' \subseteq net \cup {Oack}
  BY SendOnly
<1> QED
  BY <1>2, <1>3 DEF Oack

(* A packet without a block is typed, and brings no block.                 *)
LEMMA RequestTypes ==
  ASSUME Types, RequestWithoutOptions \/ RequestWithOptions \/ RequestRefused
  PROVE  Types'
<1>1. CASE RequestWithoutOptions
  BY <1>1 DEF RequestWithoutOptions, Types, TypeOK, PacketsTyped, PacketTyped, Stages, First, Block, DataPacket, Before, Ack,
              request, sending, receiving, client
<1>2. CASE RequestRefused
  BY <1>2 DEF RequestRefused, Types, TypeOK, PacketsTyped, PacketTyped, Stages, First, Block, DataPacket, Before, Ack,
              request, sending, receiving, client
<1>3. CASE RequestWithOptions
  <2>1. /\ op' = op /\ blocks' = blocks /\ window' \in 0..MaxWindow
        /\ pc = "start" /\ pc' \in {"oack", "open"} /\ (pc' = "oack" <=> op = "RRQ")
        /\ UNCHANGED <<read, buffer, outer, block, last, slot, written, base, got, complete, stale>>
    BY <1>3, SizesAssumption DEF RequestWithOptions, sending, receiving, client, Types, TypeOK
  <2>2. Send({Oack}, 0)
    BY <1>3 DEF RequestWithOptions
  <2>3. /\ PacketsTyped'
        /\ \A m \in net' : m.kind \in {"DATA", "ACK", "OACK"} /\ m.n \in 0..MaxSent
        /\ \A m \in net' : m.kind = "DATA" => m \in net
    BY <2>1, <2>2, OackTyped
  <2>4. TypeOK'
    BY <2>1, <2>3 DEF Types, TypeOK
  <2>5. Stages'
    BY <2>1, <2>3 DEF Types, Stages, TypeOK, First
  <2> QED
    BY <2>3, <2>4, <2>5 DEF Types
<1> QED
  BY <1>1, <1>2, <1>3

(* The answers to an OACK keep the types. *)
LEMMA OackTypes ==
  ASSUME Types, OackAnswered \/ OackTimeout
  PROVE  Types'
<1>1. CASE OackAnswered \/ (OackTimeout /\ net' = net)
  BY <1>1 DEF OackAnswered, OackTimeout, Types, TypeOK, PacketsTyped, PacketTyped, Stages, First, Block, DataPacket, Before, Ack,
              request, sending, receiving, client
<1>2. CASE OackTimeout /\ Send({Oack}, 0) /\ pc' = pc
  <2>1. /\ pc = "oack" /\ pc' = pc
        /\ UNCHANGED <<op, blocks, window, read, buffer, outer, block, last, slot, written,
                       base, got, complete, stale>>
    BY <1>2 DEF OackTimeout, request, sending, receiving, client
  <2>3. /\ PacketsTyped'
        /\ \A m \in net' : m.kind \in {"DATA", "ACK", "OACK"} /\ m.n \in 0..MaxSent
        /\ \A m \in net' : m.kind = "DATA" => m \in net
    BY <2>1, <1>2, OackTyped
  <2>4. TypeOK'
    BY <2>1, <2>3 DEF Types, TypeOK
  <2>5. Stages'
    BY <2>1, <2>3 DEF Types, Stages, First
  <2> QED
    BY <2>3, <2>4, <2>5 DEF Types
<1> QED
  BY <1>1, <1>2 DEF OackTimeout

(* Looking for the file keeps the types. *)
LEMMA StartTypes ==
  ASSUME Types, Start
  PROVE  Types'
<1>1. /\ pc = "open" /\ pc' \in {"send", "recv", "failed"}
      /\ pc' = "send" => op = "RRQ"
      /\ pc' = "recv" => op = "WRQ"
      /\ UNCHANGED <<op, blocks, window, read, buffer, outer, block, last, slot, written,
                     base, got, complete, stale>>
  BY DEF Start, request, sending, receiving, client
<1>2. 0 \in 0..MaxSent /\ 0 <= blocks
  BY Windows DEF Types, TypeOK
<1>3. PacketsTyped' /\ \A m \in net' : m.kind \in {"DATA", "ACK", "OACK"} /\ m.n \in 0..MaxSent
  <2>1. CASE net' = net
    BY <1>1, <2>1 DEF Types, TypeOK, PacketsTyped, PacketTyped, Block, DataPacket, Before, Ack
  <2>2. CASE Send({Ack(0)}, 0)
    BY <1>1, <1>2, <2>2, AckTyped
  <2> QED
    BY <2>1, <2>2 DEF Start
<1>4. TypeOK'
  BY <1>1, <1>3 DEF Types, TypeOK
<1>5. Stages'
  BY <1>1 DEF Types, Stages
<1> QED
  BY <1>3, <1>4, <1>5 DEF Types

(* What is read and sent stays within the file and the bound. *)
LEMMA SendBlocksTypes ==
  ASSUME Types, SendBlocks
  PROVE  Types'
<1> DEFINE filled == [p \in Places |-> IF p < window /\ read + p < blocks
                                       THEN read + p + 1 ELSE buffer[p]]
<1>1. /\ pc = "send" /\ pc' \in {"ack", "done"}
      /\ buffer' = filled
      /\ read' = IF read + window < blocks THEN read + window ELSE blocks
      /\ UNCHANGED <<op, blocks, window, outer, block, last, slot, written,
                     base, got, complete, stale>>
  BY DEF SendBlocks, request, receiving, client
<1>2. /\ blocks \in Nat /\ window \in Nat /\ window <= MaxWindow /\ MaxWindow \in Nat
      /\ read \in 0..blocks /\ buffer \in [Places -> 0..blocks] /\ First \in Nat /\ op = "RRQ"
      /\ First + window <= MaxSent /\ MaxSent \in Nat
  BY <1>1, FirstTyped, SizesAssumption DEF SendBlocks, Types, TypeOK, Stages
<1>3. filled \in [Places -> 0..blocks]
  BY <1>2 DEF Places
<1>4. \A n \in Sent : PacketTyped(Block(n, filled[n - First - 1]))
  <2> SUFFICES ASSUME NEW n \in Sent
               PROVE  PacketTyped(Block(n, filled[n - First - 1]))
    OBVIOUS
  <2>1. n \in 0..MaxSent /\ n > 0 /\ n - First - 1 \in Places
    BY <1>2 DEF Sent, Places
  <2>2. filled[n - First - 1] \in 0..blocks
    BY <2>1, <1>3
  <2> HIDE DEF filled
  <2> QED
    BY <2>1, <2>2, <1>2 DEF PacketTyped, Block, DataPacket
<1>5. PacketsTyped' /\ \A m \in net' : m.kind \in {"DATA", "ACK", "OACK"} /\ m.n \in 0..MaxSent
  <2>1. CASE net' = net
    BY <1>1, <2>1 DEF Types, TypeOK, PacketsTyped, PacketTyped, Block, DataPacket, Before, Ack
  <2>2. CASE Send({Block(n, filled[n - First - 1]) : n \in Sent}, First + window)
    BY <1>1, <1>4, <2>2, SendTyped
  <2> QED
    BY <2>1, <2>2 DEF SendBlocks
<1>6. read' \in 0..blocks
  BY <1>1, <1>2
<1> HIDE DEF filled
<1>7. TypeOK'
  BY <1>1, <1>3, <1>5, <1>6 DEF Types, TypeOK
<1>8. Stages'
  BY <1>1, <1>2 DEF Types, Stages
<1> QED
  BY <1>5, <1>7, <1>8 DEF Types

(* What an ACK makes of the counts is typed. *)
LEMMA ReceiveAckTypes ==
  ASSUME Types, ReceiveAck \/ GarbledAck
  PROVE  Types'
<1>1. CASE GarbledAck
  BY <1>1 DEF GarbledAck, Types, TypeOK, PacketsTyped, PacketTyped, Stages, First, Block, DataPacket, Before, Ack,
              request, sending, receiving, client
<1>2. CASE ReceiveAck
  <2>1. PICK m \in net :
          /\ IF IsReply(WireId(m))
             THEN /\ block' = WireId(m)
                  /\ outer' = IF WireId(m) < block THEN outer + 1 ELSE outer
             ELSE UNCHANGED <<outer, block>>
          /\ stale' = (stale \/ m.n + 1 \in Sent \/ m.n \notin Sent)
    BY <1>2 DEF ReceiveAck
  <2>2. /\ pc = "ack" /\ pc' = "send"
        /\ UNCHANGED <<op, blocks, window, net, read, buffer, last, slot, written,
                       base, got, complete>>
    BY <1>2 DEF ReceiveAck, request, receiving, client
  <2>3. WireId(m) \in 0..IdSpace - 1
    <3>1. m.n \in Nat /\ IdSpace \in Nat \ {0}
      BY Windows DEF Types, TypeOK
    <3> QED
      BY <3>1, ModRange DEF WireId
  <2>4. outer' \in Nat /\ block' \in 0..IdSpace - 1
    BY <2>1, <2>3 DEF Types, TypeOK
  <2>5. stale' \in BOOLEAN
    BY <2>1 DEF Types, TypeOK
  <2>6. TypeOK'
    BY <2>2, <2>4, <2>5 DEF Types, TypeOK
  <2>7. PacketsTyped'
    BY <2>2 DEF Types, PacketsTyped, PacketTyped, Block, DataPacket, Before, Ack
  <2>8. Stages'
    BY <2>2 DEF Types, Stages
  <2> QED
    BY <2>6, <2>7, <2>8 DEF Types
<1> QED
  BY <1>1, <1>2

(* The block that follows the last one is in the file. *)
LEMMA NextBlock ==
  ASSUME Types, op = "WRQ", NEW m \in net, IsNext(m)
  PROVE  last + 1 <= m.n /\ last + 1 \in 1..blocks /\ last + 1 < IdSpace
<1>1. m.n \in Nat /\ m.n <= blocks /\ last \in Nat /\ blocks \in Nat /\ IdSpace \in Nat \ {0}
  BY Windows DEF Types, TypeOK, PacketsTyped, PacketTyped
<1>2. m.n % IdSpace \in 0..IdSpace - 1 /\ m.n % IdSpace <= m.n
  BY <1>1, ModRange
<1> DEFINE id == m.n % IdSpace
<1>3. id = last + 1
  BY DEF IsNext, WireId
<1> HIDE DEF id
<1> QED
  BY <1>1, <1>2, <1>3 DEF id

(* The end of a turn, and of a write, is at most an ACK. *)
LEMMA EndTurnTypes ==
  ASSUME Types, NEW id \in 0..blocks, window > 0, EndTurn(id), UNCHANGED request, op = "WRQ"
  PROVE  /\ slot' \in Places /\ (slot' = 0 \/ slot' < window)
         /\ PacketsTyped' /\ \A m \in net' : m.kind \in {"DATA", "ACK", "OACK"} /\ m.n \in 0..MaxSent
<1>1. slot \in Nat /\ (slot = 0 \/ slot < window) /\ window \in Nat /\ window <= MaxWindow
      /\ MaxWindow \in Nat /\ slot' \in {0, slot + 1} /\ (slot' = 0 \/ slot + 1 # window)
  BY SizesAssumption DEF Types, TypeOK, Stages, EndTurn, Places
<1>2. slot' \in Places /\ (slot' = 0 \/ slot' < window)
  BY <1>1 DEF Places
<1>3. CASE net' = net
  BY <1>2, <1>3 DEF Types, TypeOK, PacketsTyped, PacketTyped, Block, DataPacket, Before, Ack, request
<1>4. CASE Send({Ack(id)}, id)
  <2>1. id \in 0..MaxSent /\ id <= blocks
    BY Windows DEF Types
  <2> QED
    BY <1>2, <1>4, <2>1, AckTyped DEF request
<1> QED
  BY <1>3, <1>4 DEF EndTurn

(* What a block makes of the counts and of the new file is typed. *)
LEMMA ReceiveDataTypes ==
  ASSUME Types, NEW k \in 1..blocks, ReceiveData(k)
  PROVE  Types'
<1>1. PICK m \in net : /\ m.kind = "DATA" /\ m.n = k
                       /\ IF IsNext(m) THEN TakeBlock(m) ELSE SkipBlock(m)
  BY DEF ReceiveData
<1>2. /\ pc = "recv" /\ window > 0
      /\ UNCHANGED <<op, blocks, window, read, buffer, outer, block, base, got, complete, stale>>
  BY DEF ReceiveData, request, sending, client
<1>3. op = "WRQ"
  BY <1>2 DEF Types, Stages, TypeOK
<1>4. m.chunk \in 1..blocks
  BY <1>1, <1>3 DEF Types, PacketsTyped, PacketTyped, TypeOK, DataPacket
<1>5. UNCHANGED request
  BY <1>2 DEF request
<1>6. CASE IsNext(m) /\ TakeBlock(m)
  <2>1. last + 1 \in 1..blocks
    BY <1>3, <1>6, NextBlock
  <2>2. /\ last' = last + 1 /\ written' = Append(written, m.chunk)
        /\ pc' \in {"recv", "done"}
    BY <1>2, <1>6 DEF TakeBlock
  <2>3. last' \in 0..blocks /\ written' \in Seq(1..blocks)
    BY <1>4, <2>1, <2>2 DEF Types, TypeOK
  <2>4. /\ slot' \in Places /\ (slot' = 0 \/ slot' < window)
        /\ PacketsTyped' /\ \A p \in net' : p.kind \in {"DATA", "ACK", "OACK"} /\ p.n \in 0..MaxSent
    <3>1. last + 1 \in 0..blocks /\ last + 1 \in 0..MaxSent /\ last + 1 <= blocks
      BY <2>1, Windows DEF Types
    <3>2. CASE m.short
      <4>1. Send({Ack(last + 1)}, last + 1) /\ slot' = slot
        BY <1>6, <3>2 DEF TakeBlock
      <4> QED
        BY <3>1, <4>1, <1>2, AckTyped DEF Types, TypeOK, Stages
    <3>3. CASE ~m.short
      <4>1. EndTurn(last + 1)
        BY <1>6, <3>3 DEF TakeBlock
      <4> QED
        BY <3>1, <4>1, <1>2, <1>3, <1>5, EndTurnTypes
    <3> QED
      BY <3>2, <3>3
  <2>5. TypeOK'
    BY <1>2, <2>2, <2>3, <2>4 DEF Types, TypeOK
  <2>6. Stages'
    BY <1>2, <1>3, <2>2, <2>4 DEF Types, Stages
  <2> QED
    BY <2>4, <2>5, <2>6 DEF Types
<1>7. CASE SkipBlock(m)
  <2>1. EndTurn(last) /\ UNCHANGED <<pc, last, written>>
    BY <1>7 DEF SkipBlock
  <2>2. last \in 0..blocks
    BY DEF Types, TypeOK
  <2>3. /\ slot' \in Places /\ (slot' = 0 \/ slot' < window)
        /\ PacketsTyped' /\ \A p \in net' : p.kind \in {"DATA", "ACK", "OACK"} /\ p.n \in 0..MaxSent
    BY <1>2, <1>3, <1>5, <2>1, <2>2, EndTurnTypes
  <2>4. TypeOK'
    BY <1>2, <2>1, <2>3 DEF Types, TypeOK
  <2>5. Stages'
    BY <1>2, <1>3, <2>1, <2>3 DEF Types, Stages
  <2> QED
    BY <2>3, <2>4, <2>5 DEF Types
<1> QED
  BY <1>1, <1>6, <1>7

(* Bad blocks, and blocks that cannot be written, keep the types. *)
LEMMA ReceiveTypes ==
  ASSUME Types, GarbledData \/ AckForever \/ DiskFull
  PROVE  Types'
<1>1. CASE GarbledData \/ AckForever
  <2>1. /\ Send({Ack(last)}, last) /\ pc = "recv" /\ pc' = pc /\ slot' \in {0, slot}
        /\ UNCHANGED <<op, blocks, window, read, buffer, outer, block, last, written,
                       base, got, complete, stale>>
    BY <1>1 DEF GarbledData, AckForever, request, sending, receiving, client
  <2>2. /\ last \in 0..MaxSent /\ last <= blocks
        /\ slot' \in Places /\ (slot' = 0 \/ slot' < window)
    BY <2>1, SizesAssumption, Windows DEF Types, TypeOK, Stages, Places
  <2>3. /\ PacketsTyped'
        /\ \A m \in net' : m.kind \in {"DATA", "ACK", "OACK"} /\ m.n \in 0..MaxSent
    BY <2>1, <2>2, AckTyped
  <2>4. TypeOK'
    BY <2>1, <2>2, <2>3 DEF Types, TypeOK
  <2>5. Stages'
    BY <2>1, <2>2 DEF Types, Stages
  <2> QED
    BY <2>3, <2>4, <2>5 DEF Types
<1>2. CASE DiskFull
  BY <1>2 DEF DiskFull, Types, TypeOK, PacketsTyped, PacketTyped, Stages, First, Block, DataPacket, Before, Ack,
              request, sending, client
<1> QED
  BY <1>1, <1>2

(* A client's count stays within the file. *)
LEMMA ClientAckTypes ==
  ASSUME Inv, NEW n \in 0..blocks, ClientReceiveAck(n)
  PROVE  Types' /\ base' = n
<1>1. /\ op = "WRQ" /\ Ack(n) \in net
      /\ UNCHANGED <<op, blocks, window, pc, net, read, buffer, outer, block, last, slot, written,
                     got, complete, stale>>
  BY DEF ClientReceiveAck, request, sending, receiving
<1>2. PICK k \in base + 1 .. base + window : k % IdSpace = n % IdSpace /\ base' = k
  BY DEF ClientReceiveAck
<1>3. k = n
  BY <1>1, <1>2, AckMeansItself, Zenon
<1>4. base' = n
  BY <1>2, <1>3
<1>5. n \in -1..blocks
  BY DEF Inv, TypeOK
<1>6. TypeOK'
  BY <1>1, <1>4, <1>5 DEF Inv, TypeOK
<1>7. PacketsTyped' /\ Stages'
  BY <1>1 DEF Inv, PacketsTyped, PacketTyped, Block, DataPacket, Before, Ack, Stages, First
<1> QED
  BY <1>4, <1>6, <1>7 DEF Types

(* The client's other steps keep the types. *)
LEMMA ClientTypes ==
  ASSUME Types,
         \/ \E n \in 1..blocks : ClientSend(n)
         \/ ClientReceiveOack \/ ClientReceiveData \/ ClientSendAck \/ Lose
  PROVE  Types'
<1>1. ASSUME NEW n \in 1..blocks, ClientSend(n)
      PROVE  Types'
  <2>1. /\ op = "WRQ" /\ base >= 0 /\ Send({DataPacket(n, n, n = blocks)}, n)
        /\ UNCHANGED <<op, blocks, window, pc, read, buffer, outer, block, last, slot, written,
                       base, got, complete, stale>>
    BY <1>1 DEF ClientSend, request, sending, receiving, client
  <2>2. PacketTyped(DataPacket(n, n, n = blocks))
    BY <2>1, Windows DEF PacketTyped, DataPacket, Types, TypeOK
  <2>3. PacketsTyped' /\ \A m \in net' : m.kind \in {"DATA", "ACK", "OACK"} /\ m.n \in 0..MaxSent
    BY <2>1, <2>2, SendTyped
  <2>4. TypeOK'
    BY <2>1, <2>3 DEF Types, TypeOK
  <2>5. Stages'
    BY <2>1 DEF Types, Stages, First
  <2> QED
    BY <2>3, <2>4, <2>5 DEF Types
<1>2. CASE ClientReceiveOack
  <2>1. /\ Oack \in net /\ net' \subseteq net \cup {Ack(0)}
        /\ IF op = "WRQ" THEN base = -1 /\ base' = 0 ELSE got = <<>> /\ base' = base
        /\ UNCHANGED <<op, blocks, window, pc, read, buffer, outer, block, last, slot, written,
                       got, complete, stale>>
    BY <1>2 DEF ClientReceiveOack, request, sending, receiving
  <2>2. PacketTyped(Ack(0)) /\ Ack(0).kind = "ACK" /\ Ack(0).n = 0 /\ 0 \in -1..blocks /\ 0 \in 0..MaxSent
    BY Windows DEF PacketTyped, Ack, Types, TypeOK
  <2>3. \A m \in net' : PacketTyped(m) /\ m.kind \in {"DATA", "ACK", "OACK"} /\ m.n \in 0..MaxSent
    BY <2>1, <2>2 DEF Types, TypeOK, PacketsTyped
  <2>4. PacketsTyped'
    BY <2>1, <2>3 DEF PacketsTyped, PacketTyped, Block, DataPacket, Before, Ack
  <2>5. TypeOK'
    BY <2>1, <2>2, <2>3 DEF Types, TypeOK
  <2>6. Stages'
    BY <2>1, <2>2 DEF Types, Stages, First
  <2> QED
    BY <2>4, <2>5, <2>6 DEF Types
<1>3. CASE ClientReceiveData
  <2>1. PICK m \in net : /\ m.kind = "DATA" /\ Len(got) < MaxSent
                         /\ got' = Append(got, m.chunk) /\ complete' = m.short
    BY <1>3 DEF ClientReceiveData
  <2>2. /\ op = "RRQ"
        /\ UNCHANGED <<op, blocks, window, pc, net, read, buffer, outer, block, last, slot, written,
                       base, stale>>
    BY <1>3 DEF ClientReceiveData, request, sending, receiving
  <2>3. m.chunk \in 0..blocks /\ m.short \in BOOLEAN
    BY DEF Types, PacketsTyped, PacketTyped
  <2>4. got' \in Seq(0..blocks) /\ Len(got') <= MaxSent
    BY <2>1, <2>3, Windows DEF Types, TypeOK
  <2>5. TypeOK'
    BY <2>1, <2>2, <2>3, <2>4 DEF Types, TypeOK
  <2>6. PacketsTyped'
    BY <2>2 DEF Types, PacketsTyped, PacketTyped, Block, DataPacket, Before, Ack
  <2>7. Stages'
    BY <2>1, <2>2, <2>4 DEF Types, Stages, First
  <2> QED
    BY <2>5, <2>6, <2>7 DEF Types
<1>4. CASE ClientSendAck
  <2>1. /\ op = "RRQ" /\ Send({Ack(Len(got))}, Len(got)) /\ got # <<>>
        /\ UNCHANGED <<op, blocks, window, pc, read, buffer, outer, block, last, slot, written,
                       base, got, complete, stale>>
    BY <1>4 DEF ClientSendAck, request, sending, receiving, client
  <2>2. Len(got) \in 0..MaxSent
    BY Windows DEF Types, TypeOK, Stages
  <2>3. PacketsTyped' /\ \A m \in net' : m.kind \in {"DATA", "ACK", "OACK"} /\ m.n \in 0..MaxSent
    BY <2>1, <2>2, AckTyped
  <2>4. TypeOK'
    BY <2>1, <2>3 DEF Types, TypeOK
  <2>5. Stages'
    BY <2>1 DEF Types, Stages, First
  <2> QED
    BY <2>3, <2>4, <2>5 DEF Types
<1>5. CASE Lose
  BY <1>5 DEF Lose, Types, TypeOK, PacketsTyped, PacketTyped, Stages, First, Block, DataPacket, Before, Ack,
              request, sending, receiving, client
<1> QED
  BY <1>1, <1>2, <1>3, <1>4, <1>5

-----------------------------------------------------------------------------
(* Writes. *)

Written == Numbered /\ Fresh /\ Saved

(* A packet that is sent leaves the network fresh when it is less than a   *)
(* round before what may be sent next.                                     *)
LEMMA FreshSent ==
  ASSUME Inv, op = "WRQ", NEW p, Send({p}, p.n), UNCHANGED <<op, window, base>>, p.n \in Nat,
         p.n + IdSpace > base + window,
         \A a \in net : a.kind = "ACK" => p.n + IdSpace > a.n + window
  PROVE  Fresh'
<1>1. \A m \in net' : m = p \/ (m \in net /\ m.n + IdSpace > p.n + window)
  BY DEF Send
<1>2. /\ IdSpace \in Nat /\ window \in Nat /\ IdSpace > window /\ blocks \in Nat /\ base \in Int
      /\ \A m \in net : m.n \in Nat
  BY Windows, SMTT(30) DEF Inv, TypeOK
<1>3. \A m \in net : m.n + IdSpace > base + window
                     /\ \A a \in net : a.kind = "ACK" => m.n + IdSpace > a.n + window
  BY DEF Inv, Fresh
<1>4. p.n + IdSpace > p.n + window
  BY <1>2
<1>5. ASSUME NEW m \in net'
      PROVE  /\ m.n + IdSpace > base + window
             /\ \A a \in net' : a.kind = "ACK" => m.n + IdSpace > a.n + window
  BY <1>1, <1>3, <1>4
<1> QED
  BY <1>5 DEF Fresh

(* What is acknowledged never lags behind by a window, nor runs ahead of   *)
(* what came.                                                              *)
LEMMA AckFresh ==
  ASSUME Inv, op = "WRQ", NEW id \in Nat, last <= id, id <= last + 1, Send({Ack(id)}, id),
         UNCHANGED <<op, window, base>>, pc # "start"
  PROVE  Fresh'
<1>1. Ack(id).n = id /\ Ack(id).kind = "ACK"
  BY DEF Ack
<1>2. /\ IdSpace \in Nat /\ window \in Nat /\ IdSpace > window /\ base \in Int /\ last \in Nat
      /\ base <= last /\ \A a \in net : a.kind = "ACK" => a.n <= last /\ a.n \in Nat
  BY Windows, SMTT(30) DEF Inv, TypeOK, Numbered
<1>3. id + IdSpace > base + window /\ \A a \in net : a.kind = "ACK" => id + IdSpace > a.n + window
  BY <1>2
<1> QED
  BY <1>1, <1>3, FreshSent

(* A request that is answered has nothing written yet. *)
LEMMA RequestWritten ==
  ASSUME Inv, op = "WRQ",
         RequestWithoutOptions \/ RequestWithOptions \/ RequestRefused \/ OackAnswered \/ OackTimeout
  PROVE  Written'
<1>1. ~OackAnswered /\ ~OackTimeout
  BY DEF OackAnswered, OackTimeout, Inv, Stages
<1>2. /\ pc = "start" /\ pc' \in {"open", "failed"}
      /\ UNCHANGED <<op, last, written, base>>
  BY <1>1 DEF RequestWithoutOptions, RequestWithOptions, RequestRefused, request, receiving, client
<1>3. net = {} /\ base = -1 /\ last = 0 /\ written = <<>>
  BY <1>2 DEF Inv, Stages
<1>4. net' \subseteq {Oack}
  BY <1>1, <1>3 DEF RequestWithoutOptions, RequestWithOptions, RequestRefused, Send
<1>5. \A m \in net' : m.n = 0 /\ m.kind = "OACK"
  BY <1>4 DEF Oack
<1>6. window' \in 0..MaxWindow
  BY <1>1, SizesAssumption DEF RequestWithoutOptions, RequestWithOptions, RequestRefused, request, Inv, TypeOK
<1>7. PICK asked \in 0..MaxWindow : window' = asked
  BY <1>6
<1>8. asked \in Nat /\ IdSpace > asked /\ IdSpace \in Nat /\ base \in Int /\ base + 1 = 0
  BY <1>3, SizesAssumption
<1>9. Numbered'
  <2>1. base <= last /\ last <= base + asked + 1 /\ last < IdSpace
    BY <1>3, <1>8
  <2>2. base' <= last' /\ last' <= base' + window' + 1 /\ last' < IdSpace
    BY <1>2, <1>7, <2>1
  <2> QED
    BY <1>5, <2>2 DEF Numbered
<1>10. Fresh'
  <2>1. 0 + IdSpace > base + asked /\ base' + window' = base + asked
    BY <1>2, <1>7, <1>8
  <2> QED
    BY <1>5, <2>1 DEF Fresh
<1>11. Saved'
  BY <1>2, <1>3 DEF Saved, InOrder
<1> QED
  BY <1>9, <1>10, <1>11 DEF Written

(* Nor has a write that begins. *)
LEMMA StartWritten ==
  ASSUME Inv, op = "WRQ", Start
  PROVE  Written'
<1>1. /\ pc = "open" /\ pc' # "done" /\ pc' # "start" /\ last = 0
      /\ UNCHANGED <<op, blocks, window, last, written, base>>
  BY DEF Start, request, receiving, client, Inv, Stages
<1>2. CASE net' = net
  BY <1>1, <1>2 DEF Inv, Written, Numbered, Fresh, Saved, InOrder
<1>3. CASE Send({Ack(0)}, 0)
  <2>1. Fresh'
    BY <1>1, <1>3, AckFresh
  <2>2. net' \subseteq net \cup {Ack(0)} /\ Ack(0).kind = "ACK" /\ Ack(0).n = 0
    BY <1>3, SendOnly DEF Ack
  <2>3. Numbered'
    BY <1>1, <2>2 DEF Inv, Numbered
  <2>4. Saved'
    BY <1>1 DEF Inv, Saved, InOrder
  <2> QED
    BY <2>1, <2>3, <2>4 DEF Written
<1> QED
  BY <1>2, <1>3 DEF Start

(* The block that has the number after the last one is the next block.     *)
LEMMA NextMeansItself ==
  ASSUME Inv, op = "WRQ", NEW m \in net, m.kind = "DATA", IsNext(m)
  PROVE  m.n = last + 1 /\ m.chunk = last + 1
<1>0. m.chunk = m.n
  BY DEF Inv, PacketsTyped, PacketTyped, DataPacket
<1>1. /\ m.n \in Nat /\ last \in Nat /\ base \in Int /\ window \in Nat
      /\ IdSpace \in Nat \ {0} /\ IdSpace > window /\ m.chunk = m.n
      /\ m.n <= base + window /\ base <= last
  BY <1>0, Windows, SMTT(30) DEF Inv, TypeOK, Numbered
<1>2. last + 1 <= m.n /\ last + 1 < IdSpace
  BY NextBlock DEF Inv, Types
<1>3. (0 * IdSpace) + (last + 1) = last + 1 /\ last + 1 \in 0..IdSpace - 1
  BY <1>1, <1>2
<1>4. ((0 * IdSpace) + (last + 1)) % IdSpace = last + 1
  BY <1>1, <1>3, ModShift
<1>5. (last + 1) % IdSpace = last + 1
  BY <1>3, <1>4
<1>6. m.n % IdSpace = (last + 1) % IdSpace
  BY <1>5 DEF IsNext, WireId
<1>7. m.n - (last + 1) < IdSpace /\ (last + 1) - m.n < IdSpace /\ m.n \in Int /\ last + 1 \in Int
  BY <1>1, <1>2
<1>8. m.n = last + 1
  BY <1>1, <1>6, <1>7, ModSame, Zenon
<1> QED
  BY <1>1, <1>8

(* A block that is taken is the next one, and acknowledged after. *)
LEMMA ReceiveDataWritten ==
  ASSUME Inv, op = "WRQ", NEW k \in 1..blocks, ReceiveData(k)
  PROVE  Written'
<1>1. PICK m \in net : /\ m.kind = "DATA"
                       /\ IF IsNext(m) THEN TakeBlock(m) ELSE SkipBlock(m)
  BY DEF ReceiveData
<1>2. pc = "recv" /\ UNCHANGED <<op, blocks, window, base>>
  BY DEF ReceiveData, request, client
<1>3. last \in Nat /\ written \in Seq(1..blocks) /\ blocks \in Nat
  BY Windows DEF Inv, TypeOK
<1>4. \A id : Ack(id).kind = "ACK" /\ Ack(id).n = id
  BY DEF Ack
<1>5. CASE IsNext(m) /\ TakeBlock(m)
  <2>1. m.n = last + 1 /\ m.chunk = last + 1 /\ last + 1 < IdSpace
    BY <1>1, <1>5, NextMeansItself, NextBlock DEF Inv, Types
  <2>2. last' = last + 1 /\ written' = Append(written, last + 1)
    BY <1>5, <2>1 DEF TakeBlock
  <2>3. \/ net' = net
        \/ Send({Ack(last + 1)}, last + 1)
    BY <1>5 DEF TakeBlock, EndTurn
  <2>4. net' \subseteq net \cup {Ack(last + 1)}
    BY <2>3, SendOnly
  <2>5. Numbered'
    <3>1. last' <= base + window
      BY <1>1, <2>1, <2>2 DEF Inv, Numbered
    <3>2. /\ base <= last /\ base \in Int /\ window \in Nat /\ IdSpace \in Nat
          /\ \A p \in net : p.n \in Nat /\ (p.kind = "ACK" => p.n <= last)
                            /\ (p.kind = "DATA" => p.n <= base + window)
      BY Windows, SMTT(30) DEF Inv, Numbered, TypeOK
    <3>3. base' <= last' /\ last' <= base' + window' + 1 /\ last' < IdSpace
      BY <1>2, <1>3, <2>1, <2>2, <3>1, <3>2
    <3>4. ASSUME NEW p \in net'
          PROVE  (p.kind = "DATA" => p.n <= base + window) /\ (p.kind = "ACK" => p.n <= last')
      <4>1. CASE p \in net
        BY <1>3, <2>2, <3>2, <4>1
      <4>2. CASE p = Ack(last + 1)
        BY <1>3, <1>4, <2>2, <4>2
      <4> QED
        BY <2>4, <4>1, <4>2
    <3> QED
      BY <1>2, <3>3, <3>4 DEF Numbered
  <2>6. Fresh'
    <3>1. CASE net' = net
      BY <1>2, <3>1 DEF Inv, Fresh
    <3>2. CASE Send({Ack(last + 1)}, last + 1)
      BY <1>2, <1>3, <3>2, AckFresh
    <3> QED
      BY <2>3, <3>1, <3>2
  <2>7. Len(written) = last /\ InOrder(written)
    BY <1>2 DEF Inv, Saved
  <2>8. Len(written') = last' /\ InOrder(written')
    BY <1>3, <2>2, <2>7 DEF InOrder
  <2>9. pc' = "done" => last' = blocks
    <3>1. m.short => m.n = blocks
      BY <1>1 DEF Inv, PacketsTyped, PacketTyped, DataPacket
    <3> QED
      BY <1>2, <1>5, <2>1, <2>2, <3>1 DEF TakeBlock
  <2> QED
    BY <1>2, <2>5, <2>6, <2>8, <2>9 DEF Written, Saved
<1>6. CASE SkipBlock(m)
  <2>1. UNCHANGED <<pc, last, written>> /\ (net' = net \/ Send({Ack(last)}, last))
    BY <1>6 DEF SkipBlock, EndTurn
  <2>2. net' \subseteq net \cup {Ack(last)}
    BY <2>1, SendOnly
  <2>3. Numbered'
    BY <1>2, <1>3, <1>4, <2>1, <2>2 DEF Inv, Numbered
  <2>4. Fresh'
    <3>1. CASE net' = net
      BY <1>2, <3>1 DEF Inv, Fresh
    <3>2. CASE Send({Ack(last)}, last)
      BY <1>2, <1>3, <3>2, AckFresh
    <3> QED
      BY <2>1, <3>1, <3>2
  <2>5. Saved'
    BY <1>2, <2>1 DEF Inv, Saved, InOrder
  <2> QED
    BY <2>3, <2>4, <2>5 DEF Written
<1> QED
  BY <1>1, <1>5, <1>6

(* What is not taken leaves what is written. *)
LEMMA ReceiveWritten ==
  ASSUME Inv, op = "WRQ", GarbledData \/ AckForever \/ DiskFull
  PROVE  Written'
<1>1. CASE GarbledData \/ AckForever
  <2>1. /\ Send({Ack(last)}, last) /\ pc = "recv"
        /\ UNCHANGED <<op, blocks, window, pc, last, written, base>>
    BY <1>1 DEF GarbledData, AckForever, request, receiving, client
  <2>2. net' \subseteq net \cup {Ack(last)} /\ Ack(last).kind = "ACK" /\ Ack(last).n = last
        /\ last \in Nat
    BY <2>1, SendOnly DEF Ack, Inv, TypeOK
  <2>3. Numbered'
    BY <2>1, <2>2 DEF Inv, Numbered
  <2>4. Fresh'
    BY <2>1, <2>2, AckFresh
  <2>5. Saved'
    BY <2>1 DEF Inv, Saved, InOrder
  <2> QED
    BY <2>3, <2>4, <2>5 DEF Written
<1>2. CASE DiskFull
  BY <1>2 DEF DiskFull, Inv, Written, Numbered, Fresh, Saved, InOrder, request, client
<1> QED
  BY <1>1, <1>2

(* The client sends no block too early, and counts none that was not       *)
(* written.                                                                *)
LEMMA ClientWritten ==
  ASSUME Inv, op = "WRQ",
         \/ \E n \in 1..blocks : ClientSend(n)
         \/ \E n \in 0..blocks : ClientReceiveAck(n)
         \/ ClientReceiveOack \/ Lose
  PROVE  Written'
<1>0. /\ base \in Int /\ window \in Nat /\ IdSpace \in Nat /\ IdSpace > 2 * window
      /\ IdSpace > window + 1 /\ last \in Nat /\ blocks \in Nat
      /\ base <= last /\ last <= base + window + 1 /\ last < IdSpace
      /\ \A m \in net : /\ m.n \in Nat
                        /\ m.kind = "DATA" => m.n <= base + window
                        /\ m.kind = "ACK" => m.n <= last
  BY Windows DEF Inv, TypeOK, Numbered
<1>1. ASSUME NEW n \in 1..blocks, ClientSend(n)
      PROVE  Written'
  <2>1. /\ base >= 0 /\ n \in base + 1 .. base + window /\ Send({DataPacket(n, n, n = blocks)}, n)
        /\ UNCHANGED <<op, blocks, window, pc, last, written, base>>
    BY <1>1 DEF ClientSend, request, receiving, client
  <2>2. DataPacket(n, n, n = blocks).kind = "DATA" /\ DataPacket(n, n, n = blocks).n = n
    BY DEF DataPacket
  <2>3. net' \subseteq net \cup {DataPacket(n, n, n = blocks)}
    BY <2>1, SendOnly
  <2>4. Numbered'
    BY <1>0, <2>1, <2>2, <2>3 DEF Numbered
  <2>5. n \in Nat /\ n + IdSpace > base + window
        /\ \A a \in net : a.kind = "ACK" => n + IdSpace > a.n + window
    BY <1>0, <2>1
  <2>6. Fresh'
    BY <2>1, <2>2, <2>5, FreshSent
  <2>7. Saved'
    BY <2>1 DEF Inv, Saved, InOrder
  <2> QED
    BY <2>4, <2>6, <2>7 DEF Written
<1>2. ASSUME NEW n \in 0..blocks, ClientReceiveAck(n)
      PROVE  Written'
  <2>1. Ack(n) \in net /\ UNCHANGED <<op, blocks, window, pc, net, last, written>>
    BY <1>2 DEF ClientReceiveAck, request, receiving
  <2>2. base' = n
    BY <1>2, ClientAckTypes
  <2>3. \E k \in base + 1 .. base + window : base' = k
    BY <1>2 DEF ClientReceiveAck
  <2>4. Ack(n).kind = "ACK" /\ Ack(n).n = n
    BY DEF Ack
  <2>5. n <= last /\ n > base
    BY <1>0, <2>1, <2>2, <2>3, <2>4
  <2>6. Numbered'
    BY <1>0, <2>1, <2>2, <2>5 DEF Numbered
  <2>7. Fresh'
    BY <2>1, <2>2, <2>4 DEF Inv, Fresh
  <2>8. Saved'
    BY <2>1 DEF Inv, Saved, InOrder
  <2> QED
    BY <2>6, <2>7, <2>8 DEF Written
<1>3. CASE ClientReceiveOack
  <2>1. /\ base = -1 /\ base' = 0 /\ net' = net \ {Oack}
        /\ UNCHANGED <<op, blocks, window, pc, last, written>>
    BY <1>3 DEF ClientReceiveOack, request, receiving
  <2>2. Numbered'
    BY <1>0, <2>1 DEF Numbered
  <2>3. Fresh'
    BY <1>0, <2>1 DEF Inv, Fresh
  <2>4. Saved'
    BY <2>1 DEF Inv, Saved, InOrder
  <2> QED
    BY <2>2, <2>3, <2>4 DEF Written
<1>4. CASE Lose
  BY <1>4 DEF Lose, Inv, Written, Numbered, Fresh, Saved, InOrder, request, receiving, client
<1> QED
  BY <1>1, <1>2, <1>3, <1>4

-----------------------------------------------------------------------------
(* A transfer begins with nothing sent or written. *)
LEMMA InvInit == Init => Inv
<1> SUFFICES ASSUME Init
             PROVE  Inv
  OBVIOUS
<1>1. /\ MaxBlocks \in Nat \ {0} /\ MaxWindow \in Nat \ {0} /\ IdSpace \in Nat \ {0}
      /\ blocks \in Nat \ {0} /\ MaxSent \in Nat
  BY SizesAssumption DEF Init
<1>9. MaxBlocks >= blocks /\ buffer \in [Places -> 0..blocks] /\ slot \in Places
  BY <1>1 DEF Init, Places
<1>2. TypeOK
  <2> HIDE DEF Places
  <2> QED
    BY <1>1, <1>9 DEF Init, TypeOK
<1>3. PacketsTyped
  BY DEF Init, PacketsTyped
<1>4. First = 0
  BY <1>1 DEF Init, First
<1>5. Stages
  BY <1>1, <1>4 DEF Init, Stages
<1>6. base <= last /\ last <= base + window + 1 /\ last < IdSpace
  BY <1>1 DEF Init
<1>7. Numbered /\ Fresh
  BY <1>6 DEF Init, Numbered, Fresh
<1>8. Saved
  BY DEF Init, Saved, InOrder
<1> QED
  BY <1>2, <1>3, <1>5, <1>7, <1>8 DEF Inv

(* Nothing changes where no variable does. *)
LEMMA Stutter ==
  ASSUME Inv, UNCHANGED vars
  PROVE  Inv'
<1> USE DEF vars
<1>1. TypeOK' /\ PacketsTyped' /\ Stages'
  BY DEF Inv, TypeOK, PacketsTyped, PacketTyped, Stages, First, Block, DataPacket, Before, Ack
<1>2. Numbered' /\ Fresh' /\ Saved'
  BY DEF Inv, Numbered, Fresh, Saved, InOrder
<1> QED
  BY <1>1, <1>2 DEF Inv

(* Every step keeps the invariant. *)
LEMMA InvNext ==
  ASSUME Inv, Next
  PROVE  Inv'
<1>1. Types
  BY DEF Inv, Types
<1>2. Types'
  <2>1. CASE RequestWithoutOptions \/ RequestWithOptions \/ RequestRefused
    BY <1>1, <2>1, RequestTypes
  <2>2. CASE OackAnswered \/ OackTimeout
    BY <1>1, <2>2, OackTypes
  <2>3. CASE Start
    BY <1>1, <2>3, StartTypes
  <2>4. CASE SendBlocks
    BY <1>1, <2>4, SendBlocksTypes
  <2>5. CASE ReceiveAck \/ GarbledAck
    BY <1>1, <2>5, ReceiveAckTypes
  <2>6. CASE \E n \in 1..blocks : ReceiveData(n)
    BY <1>1, <2>6, ReceiveDataTypes
  <2>7. CASE GarbledData \/ AckForever \/ DiskFull
    BY <1>1, <2>7, ReceiveTypes
  <2>8. CASE \E n \in 0..blocks : ClientReceiveAck(n)
    BY <2>8, ClientAckTypes
  <2>9. CASE \/ \E n \in 1..blocks : ClientSend(n)
             \/ ClientReceiveOack \/ ClientReceiveData \/ ClientSendAck \/ Lose
    BY <1>1, <2>9, ClientTypes
  <2> QED
    BY <2>1, <2>2, <2>3, <2>4, <2>5, <2>6, <2>7, <2>8, <2>9 DEF Next
<1>3. Written'
  <2>0. op' = op
    BY DEF Next, RequestWithoutOptions, RequestWithOptions, RequestRefused, OackAnswered, OackTimeout,
       Start, SendBlocks, ReceiveAck, GarbledAck, ReceiveData, GarbledData, AckForever, DiskFull,
       ClientSend, ClientReceiveAck, ClientReceiveOack, ClientReceiveData, ClientSendAck, Lose, request
  <2>1. CASE op # "WRQ"
    BY <2>0, <2>1 DEF Written, Numbered, Fresh, Saved
  <2>2. CASE op = "WRQ"
    <3>1. ~SendBlocks /\ ~ReceiveAck /\ ~GarbledAck /\ ~ClientReceiveData /\ ~ClientSendAck
      BY <2>2 DEF SendBlocks, ReceiveAck, GarbledAck, ClientReceiveData, ClientSendAck, Inv, Stages
    <3>2. CASE RequestWithoutOptions \/ RequestWithOptions \/ RequestRefused \/ OackAnswered \/ OackTimeout
      BY <2>2, <3>2, RequestWritten
    <3>3. CASE Start
      BY <2>2, <3>3, StartWritten
    <3>4. CASE \E n \in 1..blocks : ReceiveData(n)
      BY <2>2, <3>4, ReceiveDataWritten
    <3>5. CASE GarbledData \/ AckForever \/ DiskFull
      BY <2>2, <3>5, ReceiveWritten
    <3>6. CASE \/ \E n \in 1..blocks : ClientSend(n)
               \/ \E n \in 0..blocks : ClientReceiveAck(n)
               \/ ClientReceiveOack \/ Lose
      BY <2>2, <3>6, ClientWritten
    <3> QED
      BY <3>1, <3>2, <3>3, <3>4, <3>5, <3>6 DEF Next
  <2> QED
    BY <2>1, <2>2
<1> QED
  BY <1>2, <1>3 DEF Types, Written, Inv

(* The invariant holds throughout. *)
LEMMA Invariance == Spec => []Inv
<1>1. Inv /\ [Next]_vars => Inv'
  BY InvNext, Stutter
<1> QED
  BY InvInit, <1>1, PTL DEF Spec

(* Every variable of a transfer keeps its type: block numbers, places in   *)
(* the buffer and the client's count never leave the file, although the    *)
(* client takes an acknowledgement by its number modulo IdSpace.           *)
THEOREM TransferTyped == Spec => []TypeOK
<1>1. Inv => TypeOK
  BY DEF Inv
<1> QED
  BY Invariance, <1>1, PTL

(* Whatever the network does, _recv_file writes the blocks of the client's *)
(* file once each and in order, and ends only with the last.               *)
THEOREM UploadsAreFaithful == Spec => []UploadFaithful
<1>1. Inv => UploadFaithful
  BY DEF Inv, Saved, UploadFaithful
<1> QED
  BY Invariance, <1>1, PTL

(* A client of _recv_file is never told of more blocks than were written.  *)
THEOREM AckedWereWritten == Spec => []AckedIsWritten
<1>1. Inv => AckedIsWritten
  <2> SUFFICES ASSUME Inv, pc \in {"recv", "done"}
               PROVE  base <= Len(written)
    BY DEF AckedIsWritten
  <2>1. CASE op = "WRQ"
    BY <2>1 DEF Inv, Numbered, Saved
  <2>2. CASE op = "RRQ"
    BY <2>2 DEF Inv, Stages, TypeOK
  <2> QED
    BY <2>1, <2>2 DEF Inv, TypeOK
<1> QED
  BY Invariance, <1>1, PTL

(* _recv_file never ends a file with as many blocks as there are numbers,  *)
(* or more.                                                                *)
THEOREM LongUploadsDoNotEnd == Spec => []LongUploadsNeverEnd
<1>1. Inv => LongUploadsNeverEnd
  BY DEF Inv, Numbered, Saved, LongUploadsNeverEnd
<1> QED
  BY Invariance, <1>1, PTL

-----------------------------------------------------------------------------
(* Reads. *)

(* What may have been sent so far. *)
Top == IF pc \in {"ack", "failed"} THEN First + window ELSE First

(* As long as every ACK is for all that was sent, the server reads on      *)
(* where the client is, and what is on its way is less than a round away.  *)
(* An int that counts the bytes of the file stops both at its end; with    *)
(* one that comes round before, there is no end.                           *)
Paced ==
  /\ First <= Len(got) /\ Len(got) <= Top
  /\ \A m \in net : m.kind = "DATA" =>
       /\ m.n <= Top /\ m.n + IdSpace > Top + window /\ window > 0
       /\ m.n <= blocks => m.chunk = m.n
       /\ blocks < IntBlocks => m.n <= blocks
  /\ pc \in {"start", "oack", "open", "send"} => read = IF First < blocks THEN First ELSE blocks
  /\ pc = "ack" => read = IF First + window < blocks THEN First + window ELSE blocks
  /\ blocks <= IntBlocks => Len(got) <= blocks /\ (Len(got) = blocks => complete)
  /\ complete => Len(got) = blocks /\ blocks <= IntBlocks
  /\ pc = "done" => Len(got) = blocks /\ blocks < IntBlocks
  /\ \A k \in 1..Len(got) : k <= blocks => got[k] = k

Downloads ==
  op = "RRQ" =>
    /\ \A m \in net : m.kind = "ACK" => m.n <= Len(got)
    /\ ~stale => Paced

(* The reply to a block just sent is taken for it, also when its number    *)
(* came round: outer_block_id and block_id then count as far as it.        *)
LEMMA ReplyCounts ==
  ASSUME TypeOK, NEW n \in First + 1 .. First + window
  PROVE  /\ IsReply(n % IdSpace)
         /\ ((IF n % IdSpace < block THEN outer + 1 ELSE outer) * IdSpace) + (n % IdSpace) = n
<1>1. /\ IdSpace \in Nat \ {0} /\ window \in Nat /\ IdSpace > window
      /\ outer \in Nat /\ block \in 0..IdSpace - 1 /\ First \in Nat
  BY Windows, FirstTyped, SMTT(30) DEF TypeOK
<1> DEFINE round == outer * IdSpace
           x == n - round
           lastBlock == block + window
<1>2. First = round + block /\ round \in Nat
  BY <1>1, SMTT(10) DEF First
<1>3. n = round + x /\ x \in block + 1 .. lastBlock /\ n \in Nat
  BY <1>1, <1>2
<1>4. CASE x < IdSpace
  <2>1. x \in 0..IdSpace - 1
    BY <1>1, <1>3, <1>4
  <2>2. (round + x) % IdSpace = x
    BY <1>1, <2>1, ModShift
  <2>3. n % IdSpace = x
    BY <1>3, <2>2
  <2>4. block <= x /\ x <= lastBlock /\ ~(x < block)
    BY <1>1, <1>3
  <2>5. IsReply(x)
    BY <2>4 DEF IsReply
  <2> QED
    BY <1>3, <2>3, <2>4, <2>5
<1>5. CASE x >= IdSpace
  <2> DEFINE y == x - IdSpace
  <2>1. /\ y \in 0..IdSpace - 1 /\ y < block /\ lastBlock - IdSpace \in 0..IdSpace - 1
        /\ y <= lastBlock - IdSpace
    BY <1>1, <1>3, <1>5
  <2>2. (outer + 1) * IdSpace = round + IdSpace
    BY <1>1, SMTT(10)
  <2>3. n = ((outer + 1) * IdSpace) + y
    BY <1>1, <1>2, <1>3, <2>2
  <2>4. (((outer + 1) * IdSpace) + y) % IdSpace = y
    <3>1. outer + 1 \in Nat /\ y \in 0..IdSpace - 1
      BY <1>1, <2>1
    <3> HIDE DEF y
    <3> QED
      BY <1>1, <3>1, ModShift, Zenon
  <2>5. n % IdSpace = y
    BY <2>3, <2>4
  <2>6. ((1 * IdSpace) + (lastBlock - IdSpace)) % IdSpace = lastBlock - IdSpace
    BY <1>1, <2>1, ModShift
  <2>7. (1 * IdSpace) + (lastBlock - IdSpace) = lastBlock
    BY <1>1
  <2>8. lastBlock % IdSpace = lastBlock - IdSpace
    BY <2>6, <2>7
  <2>9. IsReply(y)
    BY <2>1, <2>8 DEF IsReply
  <2> QED
    BY <2>1, <2>3, <2>5, <2>9
<1> QED
  BY <1>1, <1>3, <1>4, <1>5

(* The blocks of a window end where an int says that the file does.        *)
LEMMA SentEnds ==
  ASSUME TypeOK, NEW n \in First + 1 .. First + window, First <= blocks, n \notin Sent
  PROVE  blocks < IntBlocks /\ blocks < n
<1>1. First \in Nat /\ blocks \in Nat /\ window \in Nat /\ IntBlocks \in Nat
  BY Windows, FirstTyped
<1>2. PICK k \in First + 1..n : ~(Before(k) < blocks)
  BY DEF Sent
<1>3. k \in Nat \ {0} /\ Before(k) \in Int /\ Before(k) <= IntBlocks - 1
  BY <1>1, <1>2, BeforeBound
<1>4. blocks < IntBlocks
  BY <1>1, <1>2, <1>3
<1>5. ASSUME k <= blocks
      PROVE  FALSE
  <2>1. k \in 1..IntBlocks
    BY <1>1, <1>3, <1>4, <1>5
  <2>2. Before(k) = k - 1
    BY <2>1, BeforeSmall
  <2> QED
    BY <1>1, <1>2, <1>3, <1>5, <2>2
<1> QED
  BY <1>1, <1>3, <1>4, <1>5, <1>2

(* No block is sent beyond a file whose bytes an int counts.               *)
LEMMA SentWithin ==
  ASSUME TypeOK, NEW n \in Sent, First <= blocks, blocks < IntBlocks
  PROVE  n <= blocks
<1>1. First \in Nat /\ blocks \in Nat /\ window \in Nat /\ IntBlocks \in Nat
      /\ n \in First + 1 .. First + window
  BY Windows, FirstTyped DEF Sent
<1> SUFFICES ASSUME n > blocks
             PROVE  FALSE
  BY <1>1
<1>2. blocks + 1 \in First + 1..n /\ blocks + 1 \in 1..IntBlocks
  BY <1>1
<1>3. Before(blocks + 1) < blocks
  BY <1>2 DEF Sent
<1>4. Before(blocks + 1) = (blocks + 1) - 1
  BY <1>2, BeforeSmall
<1> QED
  BY <1>1, <1>3, <1>4

(* A window is sent from where the client is, and ends with the file. *)
LEMMA SendBlocksDownloads ==
  ASSUME Inv, Downloads, SendBlocks
  PROVE  Downloads'
<1> DEFINE filled == [p \in Places |-> IF p < window /\ read + p < blocks
                                       THEN read + p + 1 ELSE buffer[p]]
           sent == {Block(n, filled[n - First - 1]) : n \in Sent}
<1>1. /\ pc = "send" /\ pc' \in {"ack", "done"}
      /\ pc' = "done" => window > 0 /\ Sent = {} /\ net' = net
      /\ pc' = "ack" => Send(sent, First + window)
      /\ UNCHANGED <<op, blocks, window, outer, block, got, complete, stale>>
  BY DEF SendBlocks, request, client
<1>2. /\ First' = First
  BY <1>1 DEF First
<1>3. /\ op = "RRQ" /\ First \in Nat /\ window \in Nat /\ blocks \in Nat /\ IdSpace \in Nat
      /\ IdSpace > 2 * window /\ window <= MaxWindow /\ MaxWindow \in Nat /\ Len(got) \in Nat
      /\ got \in Seq(0..blocks) /\ IntBlocks \in Nat /\ TypeOK
      /\ \A m \in net : m.n \in Nat
  BY <1>1, Windows, FirstTyped, SMTT(30) DEF Inv, TypeOK, Stages
<1>4. \A m \in sent : m.kind = "DATA"
  <2> HIDE DEF filled
  <2> QED
    BY DEF Block, DataPacket
<1>5. net' \subseteq net \cup sent
  BY <1>1, SendOnly
<1>6. \A m \in net : m.kind = "ACK" => m.n <= Len(got)
  BY <1>3 DEF Downloads
<1>7. \A m \in net' : m.kind = "ACK" => m.n <= Len(got')
  BY <1>1, <1>4, <1>5, <1>6
<1>8. ASSUME ~stale
      PROVE  Paced'
  <2>1. /\ Paced /\ read = (IF First < blocks THEN First ELSE blocks) /\ Top = First
        /\ Len(got) = First
    BY <1>1, <1>3, <1>8 DEF Downloads, Paced, Top
  <2>2. \A m \in net : m.kind = "DATA" =>
          /\ m.n <= First /\ m.n + IdSpace > First + window /\ window > 0
          /\ m.n <= blocks => m.chunk = m.n
          /\ blocks < IntBlocks => m.n <= blocks
    BY <2>1 DEF Paced
  <2>9. blocks <= IntBlocks => First <= blocks
    BY <2>1 DEF Paced
  <2>3. CASE pc' = "done"
    <3>1. First + 1 \in First + 1 .. First + window /\ First + 1 \notin Sent
      BY <1>1, <1>3, <2>3
    <3>2. blocks < IntBlocks /\ blocks <= First
      <4>1. CASE First <= blocks
        BY <1>3, <3>1, <4>1, SentEnds
      <4>2. CASE blocks < First
        <5>1. PICK k \in First + 1..First + 1 : ~(Before(k) < blocks)
          BY <3>1 DEF Sent
        <5>2. k \in Nat \ {0} /\ Before(k) \in Int /\ Before(k) <= IntBlocks - 1
          BY <1>3, <5>1, BeforeBound
        <5> QED
          BY <1>3, <4>2, <5>1, <5>2
      <4> QED
        BY <1>3, <4>1, <4>2
    <3>3. Top' = First /\ net' = net
      BY <1>1, <1>2, <2>3 DEF Top
    <3>4. Len(got) = blocks
      BY <1>3, <2>1, <2>9, <3>2
    <3> QED
      BY <1>1, <1>2, <2>1, <2>2, <2>3, <3>2, <3>3, <3>4 DEF Paced
  <2>4. CASE pc' = "ack"
    <3>1. Top' = First + window
      BY <1>1, <1>2, <2>4 DEF Top
    <3>2. ASSUME NEW n \in Sent
          PROVE  /\ n <= First + window /\ n + IdSpace > (First + window) + window /\ window > 0
                 /\ n <= blocks => filled[n - First - 1] = n
                 /\ blocks < IntBlocks => n <= blocks
      <4>1. n \in First + 1 .. First + window
        BY DEF Sent
      <4>2. ASSUME n <= blocks
            PROVE  filled[n - First - 1] = n
        <5>1. /\ n - First - 1 \in Places /\ n - First - 1 < window /\ read = First
              /\ First + (n - First - 1) < blocks /\ First + (n - First - 1) + 1 = n
          BY <1>3, <2>1, <4>1, <4>2 DEF Places
        <5> QED
          BY <5>1
      <4>3. blocks < IntBlocks => n <= blocks
        BY <1>3, <2>9, SentWithin
      <4> QED
        BY <1>3, <4>1, <4>2, <4>3
    <3>3. \A m \in sent : /\ m.n <= First + window
                          /\ m.n + IdSpace > (First + window) + window /\ window > 0
                          /\ m.n <= blocks => m.chunk = m.n
                          /\ blocks < IntBlocks => m.n <= blocks
      <4> HIDE DEF filled
      <4> QED
        BY <3>2 DEF Block, DataPacket
    <3>4. \A m \in net' : m \in sent \/ (m \in net /\ m.n + IdSpace > (First + window) + window)
      BY <1>1, <2>4 DEF Send
    <3> HIDE DEF sent, filled
    <3>5. \A m \in net' : m.kind = "DATA" =>
            /\ m.n <= First + window /\ m.n + IdSpace > (First + window) + window /\ window > 0
            /\ m.n <= blocks => m.chunk = m.n
            /\ blocks < IntBlocks => m.n <= blocks
      BY <1>3, <2>2, <3>3, <3>4
    <3>6. Len(got) <= First + window
      BY <1>3, <2>1 DEF Paced
    <3>7. read' = IF First + window < blocks THEN First + window ELSE blocks
      <4>1. read' = IF read + window < blocks THEN read + window ELSE blocks
        BY DEF SendBlocks
      <4> QED
        BY <1>3, <2>1, <4>1
    <3> QED
      BY <1>1, <1>2, <2>1, <2>4, <3>1, <3>5, <3>6, <3>7 DEF Paced
  <2> QED
    BY <1>1, <2>3, <2>4
<1> QED
  BY <1>1, <1>7, <1>8 DEF Downloads

(* An ACK that is not stale moves the server to where the client is. *)
LEMMA ReceiveAckDownloads ==
  ASSUME Inv, Downloads, ReceiveAck
  PROVE  Downloads'
<1>1. PICK m \in net :
        /\ m.kind = "ACK"
        /\ IF IsReply(WireId(m))
           THEN /\ block' = WireId(m)
                /\ outer' = IF WireId(m) < block THEN outer + 1 ELSE outer
           ELSE UNCHANGED <<outer, block>>
        /\ stale' = (stale \/ m.n + 1 \in Sent \/ m.n \notin Sent)
  BY DEF ReceiveAck
<1>2. /\ pc = "ack" /\ pc' = "send"
      /\ UNCHANGED <<op, blocks, window, net, read, got, complete>>
  BY DEF ReceiveAck, request, client
<1>3. /\ op = "RRQ" /\ First \in Nat /\ window \in Nat /\ blocks \in Nat /\ IdSpace \in Nat
      /\ Len(got) \in Nat /\ IntBlocks \in Nat /\ TypeOK
      /\ \A p \in net : p.n \in Nat
  BY <1>2, Windows, FirstTyped, SMTT(30) DEF Inv, TypeOK, Stages
<1>4. \A p \in net : p.kind = "ACK" => p.n <= Len(got)
  BY <1>3 DEF Downloads
<1>5. ASSUME ~stale'
      PROVE  Paced'
  <2>1. ~stale /\ m.n \in Sent /\ m.n + 1 \notin Sent
    BY <1>1, <1>5
  <2>2. Paced /\ Top = First + window
    BY <1>2, <1>3, <2>1 DEF Downloads, Top
  <2>3. m.n \in First + 1 .. First + window
    BY <2>1 DEF Sent
  <2>4. First' = m.n
    <3>1. /\ IsReply(WireId(m))
          /\ ((IF WireId(m) < block THEN outer + 1 ELSE outer) * IdSpace) + WireId(m) = m.n
      BY <1>3, <2>3, ReplyCounts DEF WireId
    <3> QED
      BY <1>1, <3>1, Zenon DEF First
  <2>9. /\ First <= Len(got) /\ Len(got) <= First + window /\ m.n <= Len(got)
        /\ blocks <= IntBlocks => Len(got) <= blocks
        /\ read = IF First + window < blocks THEN First + window ELSE blocks
    BY <1>1, <1>2, <1>4, <2>2 DEF Paced
  <2>5. /\ Len(got) = m.n
        /\ read = IF m.n < blocks THEN m.n ELSE blocks
        /\ blocks < IntBlocks \/ m.n = First + window
    <3>1. CASE m.n = First + window
      BY <1>3, <2>9, <3>1
    <3>2. CASE m.n < First + window
      <4>1. m.n + 1 \in First + 1 .. First + window
        BY <1>3, <2>3, <3>2
      <4>2. PICK k \in First + 1..m.n + 1 : ~(Before(k) < blocks)
        BY <2>1, <4>1 DEF Sent
      <4>3. k \in Nat \ {0} /\ Before(k) \in Int /\ Before(k) <= IntBlocks - 1
        BY <1>3, <2>3, <4>2, BeforeBound
      <4>4. blocks < IntBlocks
        BY <1>3, <4>2, <4>3
      <4>5. First <= blocks
        BY <1>3, <2>9, <4>4
      <4>6. blocks < m.n + 1
        BY <1>3, <2>1, <4>1, <4>5, SentEnds
      <4> QED
        BY <1>3, <2>3, <2>9, <3>2, <4>4, <4>6
    <3> QED
      BY <1>3, <2>3, <3>1, <3>2
  <2>6. \A p \in net : p.kind = "DATA" =>
          /\ p.n <= First + window /\ p.n + IdSpace > First + window + window /\ window > 0
          /\ p.n <= blocks => p.chunk = p.n
          /\ blocks < IntBlocks => p.n <= blocks
    BY <2>2 DEF Paced
  <2>10. blocks < IntBlocks => blocks <= m.n \/ m.n = First + window
    BY <1>3, <2>5, <2>9
  <2>7. \A p \in net : p.kind = "DATA" =>
          /\ p.n <= m.n /\ p.n + IdSpace > m.n + window /\ window > 0
          /\ p.n <= blocks => p.chunk = p.n
          /\ blocks < IntBlocks => p.n <= blocks
    BY <1>3, <2>3, <2>5, <2>6, <2>10
  <2>8. Top' = m.n
    BY <1>2, <2>4 DEF Top
  <2> QED
    BY <1>2, <1>3, <2>2, <2>4, <2>5, <2>7, <2>8 DEF Paced
<1> QED
  BY <1>1, <1>2, <1>4, <1>5 DEF Downloads

(* The client takes the block he waits for, and no other whose number has  *)
(* come round.                                                             *)
LEMMA BlockMeansItself ==
  ASSUME Inv, op = "RRQ", Paced, NEW m \in net, m.kind = "DATA",
         WireId(m) = (Len(got) + 1) % IdSpace
  PROVE  m.n = Len(got) + 1 /\ m.n <= Top /\ (m.n <= blocks => m.chunk = m.n)
<1> TypeOK
  BY DEF Inv
<1>6. /\ First \in Nat /\ window \in Nat /\ IdSpace \in Nat \ {0} /\ IdSpace > window
  <2>1. window \in Nat /\ IdSpace \in Nat \ {0} /\ IdSpace > window + 1
    BY Windows
  <2> QED
    BY <2>1, FirstTyped
<1>7. Len(got) \in Nat /\ m.n \in Nat
  BY DEF TypeOK
<1>8. /\ m.n <= blocks => m.chunk = m.n
      /\ m.n <= Top /\ m.n + IdSpace > Top + window /\ window > 0
      /\ First <= Len(got) /\ Len(got) <= Top
  BY DEF Paced
<1>1. /\ First \in Nat /\ window \in Nat /\ IdSpace \in Nat \ {0} /\ IdSpace > window
      /\ Len(got) \in Nat /\ m.n \in Nat
      /\ m.n <= Top /\ m.n + IdSpace > Top + window /\ window > 0
      /\ First <= Len(got) /\ Len(got) <= Top
  BY <1>6, <1>7, <1>8
<1>2. Top \in Nat /\ Top <= First + window
  BY <1>1 DEF Top
<1>3. m.n - (Len(got) + 1) < IdSpace /\ (Len(got) + 1) - m.n < IdSpace
  BY <1>1, <1>2
<1>4. m.n \in Int /\ Len(got) + 1 \in Int
  BY <1>1
<1>5. m.n = Len(got) + 1
  BY <1>1, <1>3, <1>4, ModSame, Zenon DEF WireId
<1> QED
  BY <1>1, <1>5, <1>8

(* The client takes the next chunk, and sees the end only with the last. *)
LEMMA ClientDataDownloads ==
  ASSUME Inv, Downloads, ClientReceiveData
  PROVE  Downloads'
<1>1. PICK m \in net : /\ m.kind = "DATA" /\ ~complete
                       /\ WireId(m) = (Len(got) + 1) % IdSpace
                       /\ got' = Append(got, m.chunk) /\ complete' = m.short
  BY DEF ClientReceiveData
<1>2. /\ op = "RRQ"
      /\ UNCHANGED <<op, blocks, window, pc, net, read, outer, block, stale>>
  BY DEF ClientReceiveData, request, sending
<1>3. /\ got \in Seq(0..blocks) /\ Len(got) \in Nat /\ m.chunk \in 0..blocks
      /\ blocks \in Nat /\ First \in Nat /\ IntBlocks \in Nat
      /\ \A p \in net : p.n \in Nat
  BY <1>1, Windows, FirstTyped, SMTT(30) DEF Inv, TypeOK, PacketsTyped, PacketTyped
<1>7. m.n > 0 /\ (m.short <=> Before(m.n) = blocks - 1)
  BY <1>1, <1>2 DEF Inv, PacketsTyped, PacketTyped, Block, DataPacket
<1>4. Len(got') = Len(got) + 1
  BY <1>1, <1>3
<1>5. \A p \in net' : p.kind = "ACK" => p.n <= Len(got')
  BY <1>2, <1>3, <1>4 DEF Downloads
<1>6. ASSUME ~stale
      PROVE  Paced'
  <2>1. Paced
    BY <1>2, <1>6 DEF Downloads
  <2>2. m.n = Len(got) + 1 /\ m.n <= Top /\ (m.n <= blocks => m.chunk = m.n)
    BY <1>1, <1>2, <2>1, BlockMeansItself
  <2>3. First' = First /\ Top' = Top
    BY <1>2 DEF First, Top
  <2>4. First <= Len(got) + 1 /\ Len(got) + 1 <= Top
    BY <1>3, <2>1, <2>2 DEF Paced
  <2>5. \A k \in 1..Len(got') : k <= blocks => got'[k] = k
    BY <1>1, <1>3, <1>4, <2>1, <2>2 DEF Paced
  <2>6. blocks <= IntBlocks => Len(got) <= blocks /\ (Len(got) = blocks => complete)
    BY <2>1 DEF Paced
  <2>7. pc # "done"
    BY <1>1, <1>3, <2>1, <2>6 DEF Paced
  <2>8. blocks <= IntBlocks => Len(got') <= blocks
    BY <1>1, <1>3, <1>4, <2>6
  <2>9. Before(m.n) \in Int /\ Before(m.n) <= IntBlocks - 1
    BY <1>1, <1>3, <1>7, BeforeBound
  <2>10. blocks <= IntBlocks => Before(m.n) = m.n - 1
    <3>1. blocks <= IntBlocks => m.n \in 1..IntBlocks
      BY <1>1, <1>3, <1>4, <2>2, <2>8
    <3> QED
      BY <3>1, BeforeSmall
  <2>11. blocks <= IntBlocks /\ Len(got') = blocks => complete'
    BY <1>1, <1>3, <1>4, <1>7, <2>2, <2>10
  <2>12. complete' => Len(got') = blocks /\ blocks <= IntBlocks
    BY <1>1, <1>3, <1>4, <1>7, <2>2, <2>9, <2>10
  <2> QED
    BY <1>2, <1>4, <2>1, <2>3, <2>4, <2>5, <2>7, <2>8, <2>11, <2>12 DEF Paced
<1> QED
  BY <1>2, <1>5, <1>6 DEF Downloads

(* The other steps of a read send no block, count nothing and end nothing. *)
LEMMA OtherDownloads ==
  ASSUME Inv, Downloads, op = "RRQ",
         UNCHANGED <<op, blocks, read, outer, block, got, complete, stale>>,
         window' \in Nat, window' = window \/ pc = "start",
         pc' = pc \/ pc \in {"start", "oack", "open"} \/ (pc = "ack" /\ pc' = "failed"),
         pc' \notin {"ack", "done"} \/ pc' = pc,
         \A m \in net' : m \in net \/ m.kind = "OACK" \/ (m.kind = "ACK" /\ m.n <= Len(got))
  PROVE  Downloads'
<1>1. \A m \in net' : m.kind = "ACK" => m.n <= Len(got')
  BY DEF Downloads
<1>2. ASSUME ~stale
      PROVE  Paced'
  <2>1. Paced
    BY <1>2 DEF Downloads
  <2>2. First' = First /\ First \in Nat /\ window \in Nat /\ Len(got) \in Nat
    BY Windows, FirstTyped DEF First, Inv, TypeOK
  <2>3. CASE pc \in {"start", "oack", "open"}
    <3>1. First = 0 /\ got = <<>> /\ read = 0 /\ ~complete
      BY <2>3 DEF Inv, Stages
    <3>2. \A m \in net' : m.kind # "DATA"
      BY <2>3 DEF Inv, Stages
    <3>3. Len(got) = 0 /\ 0 < blocks /\ blocks \in Nat
      BY <3>1, Windows DEF Inv
    <3>4. pc' \notin {"ack", "done"}
      BY <2>3
    <3>5. Len(got') <= Top'
      <4>1. PICK asked \in Nat : window' = asked
        OBVIOUS
      <4>2. 0 <= 0 /\ 0 <= 0 + asked
        BY <4>1
      <4> QED
        BY <2>2, <3>1, <3>3, <4>1, <4>2 DEF Top
    <3>6. /\ First' = 0 /\ Len(got') = 0 /\ read' = 0 /\ blocks' = blocks
      BY <2>2, <3>1, <3>3
    <3>7. ~complete'
      BY <3>1
    <3>8. First' <= Len(got') /\ read' = IF First' < blocks' THEN First' ELSE blocks'
      BY <3>3, <3>6
    <3>9. Len(got') <= blocks' /\ Len(got') # blocks' /\ 1..Len(got') = {}
      BY <3>3, <3>6
    <3> HIDE DEF Top, First
    <3> QED
      BY <3>2, <3>4, <3>5, <3>7, <3>8, <3>9 DEF Paced
  <2>4. CASE pc' = pc /\ window' = window
    <3>1. Top' = Top
      BY <2>2, <2>4 DEF Top
    <3>2. \A m \in net' : m.kind = "DATA" => m \in net
      OBVIOUS
    <3> QED
      BY <2>1, <2>2, <2>4, <3>1, <3>2 DEF Paced
  <2>5. CASE pc = "ack" /\ pc' = "failed" /\ window' = window
    <3>1. Top' = Top
      BY <2>2, <2>5 DEF Top
    <3>2. \A m \in net' : m.kind = "DATA" => m \in net
      OBVIOUS
    <3> QED
      BY <2>1, <2>2, <2>5, <3>1, <3>2 DEF Paced
  <2> QED
    BY <2>3, <2>4, <2>5
<1> QED
  BY <1>1, <1>2 DEF Downloads

(* Every step of a read keeps its pace. *)
LEMMA DownloadsNext ==
  ASSUME Inv, Downloads, Next
  PROVE  Downloads'
<1>1. CASE op # "RRQ"
  <2>1. op' = op
    BY DEF Next, RequestWithoutOptions, RequestWithOptions, RequestRefused, OackAnswered, OackTimeout,
       Start, SendBlocks, ReceiveAck, GarbledAck, ReceiveData, GarbledData, AckForever, DiskFull,
       ClientSend, ClientReceiveAck, ClientReceiveOack, ClientReceiveData, ClientSendAck, Lose, request
  <2> QED
    BY <1>1, <2>1 DEF Downloads
<1>2. CASE op = "RRQ"
  <2>0. window \in Nat
    BY Windows DEF Inv
  <2>1. /\ ~(\E n \in 1..blocks : ReceiveData(n)) /\ ~GarbledData /\ ~AckForever /\ ~DiskFull
        /\ ~(\E n \in 1..blocks : ClientSend(n)) /\ ~(\E n \in 0..blocks : ClientReceiveAck(n))
        /\ ~Lose
    BY <1>2 DEF ReceiveData, GarbledData, AckForever, DiskFull, ClientSend, ClientReceiveAck, Lose,
                Inv, Stages
  <2>2. CASE RequestWithoutOptions \/ RequestRefused \/ OackAnswered \/ GarbledAck
    <3>1. /\ UNCHANGED <<op, blocks, window, net, read, outer, block, got, complete, stale>>
          /\ \/ pc \in {"start", "oack"} /\ pc' \in {"open", "failed"}
             \/ pc = "ack" /\ pc' = "failed"
      BY <2>2 DEF RequestWithoutOptions, RequestRefused, OackAnswered, GarbledAck, request, sending, client
    <3> QED
      BY <1>2, <2>0, <3>1, OtherDownloads
  <2>3. CASE RequestWithOptions
    <3>1. /\ UNCHANGED <<op, blocks, read, outer, block, got, complete, stale>>
          /\ pc = "start" /\ pc' \in {"oack", "open"} /\ window' \in Nat /\ Send({Oack}, 0)
      BY <2>3, SizesAssumption DEF RequestWithOptions, sending, client
    <3>2. \A m \in net' : m \in net \/ m.kind = "OACK"
      BY <3>1, SendOnly DEF Oack
    <3> QED
      BY <1>2, <3>1, <3>2, OtherDownloads
  <2>4. CASE OackTimeout
    <3>1. /\ UNCHANGED <<op, blocks, window, read, outer, block, got, complete, stale>>
          /\ pc = "oack" /\ pc' \in {"oack", "failed"} /\ (net' = net \/ Send({Oack}, 0))
      BY <2>4 DEF OackTimeout, request, sending, client
    <3>2. \A m \in net' : m \in net \/ m.kind = "OACK"
      BY <3>1, SendOnly DEF Oack
    <3> QED
      BY <1>2, <2>0, <3>1, <3>2, OtherDownloads
  <2>5. CASE Start
    <3>1. /\ UNCHANGED <<op, blocks, window, net, read, outer, block, got, complete, stale>>
          /\ pc = "open" /\ pc' \in {"send", "failed"}
      BY <1>2, <2>5 DEF Start, request, sending, client
    <3> QED
      BY <1>2, <2>0, <3>1, OtherDownloads
  <2>6. CASE ClientReceiveOack
    <3>1. /\ UNCHANGED <<op, blocks, window, pc, read, outer, block, got, complete, stale>>
          /\ net' \subseteq net \cup {Ack(0)} /\ got = <<>>
      BY <1>2, <2>6 DEF ClientReceiveOack, request, sending
    <3>2. \A m \in net' : m \in net \/ (m.kind = "ACK" /\ m.n <= Len(got))
      BY <3>1 DEF Ack
    <3> QED
      BY <1>2, <2>0, <3>1, <3>2, OtherDownloads
  <2>7. CASE ClientSendAck
    <3>1. /\ UNCHANGED <<op, blocks, window, pc, read, outer, block, got, complete, stale>>
          /\ Send({Ack(Len(got))}, Len(got))
      BY <2>7 DEF ClientSendAck, request, sending, client
    <3>2. Len(got) \in Nat
      BY DEF Inv, TypeOK
    <3>3. \A m \in net' : m \in net \/ (m.kind = "ACK" /\ m.n <= Len(got))
      BY <3>1, <3>2, SendOnly DEF Ack
    <3> QED
      BY <1>2, <2>0, <3>1, <3>3, OtherDownloads
  <2>8. CASE SendBlocks
    BY <2>8, SendBlocksDownloads
  <2>9. CASE ReceiveAck
    BY <2>9, ReceiveAckDownloads
  <2>10. CASE ClientReceiveData
    BY <2>10, ClientDataDownloads
  <2> QED
    BY <2>1, <2>2, <2>3, <2>4, <2>5, <2>6, <2>7, <2>8, <2>9, <2>10 DEF Next
<1> QED
  BY <1>1, <1>2

(* As long as every ACK is for all the blocks that were just sent,         *)
(* _send_file gives the client the chunks of the file in order, also when  *)
(* block numbers come round; the client sees the end, and the server ends, *)
(* only there, and only when an int counts the bytes of the file.          *)
THEOREM DownloadsAreFaithful == Spec => []DownloadFaithful
<1>1. Init => Downloads
  <2> SUFFICES ASSUME Init
               PROVE  Downloads
    OBVIOUS
  <2>1. IdSpace \in Nat /\ blocks \in Nat /\ blocks > 0
    BY SizesAssumption DEF Init
  <2>2. First = 0
    BY <2>1 DEF Init, First
  <2> QED
    BY <2>1, <2>2 DEF Init, Downloads, Paced, Top
<1>2. Inv /\ Downloads /\ [Next]_vars => Downloads'
  <2>1. CASE Next
    BY <2>1, DownloadsNext
  <2>2. CASE UNCHANGED vars
    BY <2>2 DEF vars, Downloads, Paced, Top, First
  <2> QED
    BY <2>1, <2>2
<1>3. Downloads => DownloadFaithful
  BY DEF Downloads, Paced, DownloadFaithful
<1> QED
  BY <1>1, <1>2, <1>3, Invariance, PTL DEF Spec
=============================================================================
