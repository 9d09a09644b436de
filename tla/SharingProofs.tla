---------------------------- MODULE SharingProofs ----------------------------
(***************************************************************************)
(* Proofs about module Sharing: the types, that listings show what stays,  *)
(* that no update is lost to itself, and that every crash has its cause,   *)
(* for any workers, users and bounds on rows.  The invariant has two       *)
(* halves: what the rows are, and what each request under way holds of     *)
(* them; the second is written for one worker, with one lemma for what the *)
(* others' statements do to it.                                            *)
(***************************************************************************)
EXTENDS Sharing, NaturalsInduction, WellFoundedInduction, TLAPS

-----------------------------------------------------------------------------
(* The inductive invariant.                                                *)

(* The rows: of their types, below rows that are there, and none that was  *)
(* never inserted.                                                         *)
Endings == {"no", "pointer", "overrun"}
Tables ==
  /\ group \in BOOLEAN /\ members \subseteq Users
  /\ dirs \in [DirIds -> DirRows \cup {NoRow}] /\ files \in [FileIds -> FileRows \cup {NoRow}]
  /\ dcreated \in 0..MaxDirs /\ fcreated \in 0..MaxFiles
  /\ ended \in Endings

Dirs == {d \in DirIds : dirs[d] # NoRow}
Files == {f \in FileIds : files[f] # NoRow}

Schema ==
  /\ \A d \in Dirs : d <= dcreated /\ group /\ dirs[d].parent \in {Root} \cup Dirs
  /\ \A f \in Files : f <= fcreated /\ group /\ files[f].dir \in {Root, Elsewhere} \cup Dirs

(* What a request is made of.                                              *)
Kinds == {"none", "makeDirectory", "createFile", "groupTree", "groupMembers", "updateDirectory",
          "deleteDirectory", "directoryInfo", "directoryChildren", "updateFile", "getFile",
          "deleteFile", "saveFile", "myGroups"}
Tags == {"dir", "file", "user", "group"}

Requests ==
  [kind : Kinds, user : {0} \cup Users, dir : {Root, Elsewhere} \cup DirIds, file : {0} \cup FileIds,
   perm : {NotGiven} \cup Perms,
   row : {NoRow} \cup [owner : Users] \cup [owner : Users, perm : Perms],
   list : SUBSET (Tags \X Nat)]

(* What it must hold when its next statement is label: whose it is, what   *)
(* it found, the permission it is to write, and no list yet.               *)
Asked == {"group", "member", "findDir", "hasDir", "inherit", "insert"}

Fits(r, label) ==
  /\ label \in Asked /\ ~(label = "hasDir" /\ r.kind = "createFile") => r.user \in Users
  /\ label \in Asked /\ r.dir = Elsewhere => r.kind = "saveFile"
  /\ label \in {"group", "member", "findDir", "hasDir"} => r.kind # "saveFile"
  /\ label \notin {"dir", "file", "user", "answer"} => r.list = {}
  /\ label \in {"group", "member", "updateFile"} /\ r.kind = "updateFile"
       => r.file \in FileIds /\ r.row \in [owner : Users, perm : Perms]
  /\ label = "updateFile" => r.kind = "updateFile"
  /\ label \in {"findDir", "updateDir"} /\ r.kind = "updateDirectory" => r.perm \in Perms
  /\ label = "updateDir" => r.kind = "updateDirectory"
  /\ label = "insert" => r.perm \in Perms

Fitting == pc \in [Workers -> Labels] /\ req \in [Workers -> Requests]
           /\ \A w \in Workers : Fits(req[w], pc[w])

(* A request under which nobody has written finds what it read.            *)
AsRead(w) ==
  LET r == req[w] IN
  /\ pc[w] = "insert" /\ HasDir(r.dir) => r.perm = DirRow(r.dir).perm
  /\ pc[w] \in {"group", "member", "updateFile"} /\ r.kind = "updateFile"
       => HasFile(r.file) /\ FileRow(r.file).perm = r.row.perm
  /\ pc[w] = "group" /\ r.kind \in {"directoryInfo", "directoryChildren"} => group

Undisturbed == disturbed \subseteq Workers /\ \A w \in Workers \ disturbed : AsRead(w)

(* What stayed of a listing so far is listed, or still to come.            *)
Ids == 1..MaxUsers + MaxDirs + MaxFiles
ToCome(w, tag) ==
  \A i \in Ids : <<tag, i>> \in stayed[w] =>
    <<tag, i>> \in req[w].list \/ \A e \in req[w].list : e[1] = tag => e[2] < i
AllListed(w, tag) == \A i \in Ids : <<tag, i>> \in stayed[w] => <<tag, i>> \in req[w].list

Listing(w) ==
  /\ pc[w] # "idle" => stayed[w] \subseteq Entries(req[w]) /\ Entries(req[w]) \subseteq since[w]
                       /\ req[w].list \subseteq since[w]
  /\ pc[w] \in {"dir", "file"} => req[w].kind \in {"groupTree", "directoryChildren"}
  /\ pc[w] = "user" => req[w].kind = "groupMembers"
  /\ pc[w] = "dir" => ToCome(w, "dir")
  /\ pc[w] \in {"dir", "file"} => ToCome(w, "file")
  /\ pc[w] = "file" => AllListed(w, "dir")
  /\ pc[w] = "user" => ToCome(w, "user")
  /\ pc[w] = "answer" => stayed[w] \subseteq req[w].list

Listings == \A w \in Workers : Listing(w)

IInv == Tables /\ Schema /\ Fitting /\ Undisturbed /\ Listings

-----------------------------------------------------------------------------
(* Requests.                                                               *)

(* Another group's directory has none of the numbers of this group's. *)
LEMMA NothingElsewhere == Elsewhere \notin {Root} \cup DirIds
BY BoundsAssumption DEF Elsewhere, Root, DirIds

(* A request that arrives for a first statement is one it can serve. *)
LEMMA ArrivalsFit ==
  ASSUME NEW label, NEW r \in Arriving(label)
  PROVE  /\ r \in Requests /\ Fits(r, label) /\ r.list = {}
         /\ label = "group" => r.kind \in {"makeDirectory", "createFile", "groupTree", "groupMembers"}
         /\ label = "findDir" =>
              r.kind \in {"updateDirectory", "deleteDirectory", "directoryInfo", "directoryChildren"}
         /\ label = "inherit" => r.kind = "saveFile"
         /\ label = "groups" => r.kind = "myGroups"
         /\ label = "findFile" => /\ r.kind \in {"updateFile", "getFile", "deleteFile"}
                                  /\ r.user \in Users /\ r.file \in FileIds /\ r.dir # Elsewhere
<1>1. CASE label = "group"
  <2>1. PICK kind \in {"makeDirectory", "createFile", "groupTree", "groupMembers"} :
          r \in Ask(kind, {Root} \cup DirIds, {0}, {NotGiven}) \cup Ask(kind, {Root}, {0}, {NotGiven})
    BY <1>1 DEF Arriving
  <2>2. r \in Requests /\ r.user \in Users /\ r.list = {} /\ r.kind = kind /\ r.dir # Elsewhere
    BY <2>1, NothingElsewhere DEF Ask, Requests, Kinds
  <2> QED BY <1>1, <2>1, <2>2 DEF Fits, Asked
<1>2. CASE label = "findDir"
  <2>1. PICK kind \in {"updateDirectory", "deleteDirectory", "directoryInfo", "directoryChildren"} :
          r \in Ask("updateDirectory", DirIds, {0}, Perms)
          \/ (kind # "updateDirectory" /\ r \in Ask(kind, DirIds, {0}, {NotGiven}))
    BY <1>2 DEF Arriving
  <2>2. /\ r \in Requests /\ r.user \in Users /\ r.list = {}
        /\ r.kind \in {"updateDirectory", kind}
        /\ (kind # "updateDirectory" /\ r.kind = kind) \/ r.perm \in Perms
        /\ r.dir # Elsewhere
    BY <2>1, NothingElsewhere DEF Ask, Requests, Kinds
  <2> QED BY <1>2, <2>1, <2>2 DEF Fits, Asked
<1>3. CASE label = "findFile"
  <2>1. PICK kind \in {"updateFile", "getFile", "deleteFile"},
             ps \in {{NotGiven}, Perms \cup {NotGiven}} :
          r \in Ask(kind, {Root}, FileIds, ps)
    BY <1>3 DEF Arriving
  <2>2. /\ r \in Requests /\ r.list = {} /\ r.kind = kind /\ r.user \in Users /\ r.file \in FileIds
        /\ r.dir # Elsewhere
    BY <2>1, NothingElsewhere DEF Ask, Requests, Kinds
  <2> QED BY <1>3, <2>1, <2>2 DEF Fits, Asked
<1>4. CASE label = "inherit"
  <2>1. r \in Ask("saveFile", {Root, Elsewhere} \cup DirIds, {0}, {NotGiven})
    BY <1>4 DEF Arriving
  <2>2. r \in Requests /\ r.user \in Users /\ r.list = {} /\ r.kind = "saveFile"
    BY <2>1 DEF Ask, Requests, Kinds
  <2> QED BY <1>4, <2>2 DEF Fits, Asked
<1>5. CASE label = "groups"
  <2>1. r \in Ask("myGroups", {Root}, {0}, {NotGiven})
    BY <1>5 DEF Arriving
  <2>2. r \in Requests /\ r.list = {} /\ r.kind = "myGroups"
    BY <2>1 DEF Ask, Requests, Kinds
  <2> QED BY <1>5, <2>2 DEF Fits, Asked
<1> QED BY <1>1, <1>2, <1>3, <1>4, <1>5 DEF Arriving

(* What a handler asks of a request whose statement it sends. *)
LEMMA NowFits ==
  ASSUME Fitting, NEW w \in Workers, NEW label, label # "idle", NEW r \in Now(w, label)
  PROVE  /\ up /\ r \in Requests /\ Fits(r, label)
         /\ \/ pc[w] = label /\ r = req[w]
            \/ pc[w] = "idle" /\ r \in Arriving(label)
<1>1. CASE up /\ pc[w] = label BY <1>1 DEF Now, Fitting
<1>2. CASE up /\ pc[w] = "idle" BY <1>2, ArrivalsFit DEF Now
<1> QED BY <1>1, <1>2 DEF Now

(* Fields of a record that are replaced are replaced, and the others kept. *)
LEMMA ExceptFields ==
  ASSUME NEW K, NEW U, NEW D, NEW F, NEW P, NEW R, NEW L,
         NEW r \in [kind : K, user : U, dir : D, file : F, perm : P, row : R, list : L],
         NEW user \in U, NEW perm \in P, NEW dir \in D, NEW row \in R
  PROVE  LET k == [r EXCEPT !.user = user, !.perm = perm, !.dir = dir, !.row = row] IN
         /\ k \in [kind : K, user : U, dir : D, file : F, perm : P, row : R, list : L]
         /\ k.kind = r.kind /\ k.dir = dir /\ k.file = r.file /\ k.perm = perm
         /\ k.list = r.list /\ k.user = user /\ k.row = row
OBVIOUS

(* Dropping what nobody looks at leaves a request a request. *)
LEMMA KeptOfRequest ==
  ASSUME NEW r \in Requests, NEW label
  PROVE  LET k == Kept(r, label) IN
         /\ k \in Requests
         /\ k.kind = r.kind /\ k.file = r.file /\ k.list = r.list
         /\ label # "free" => k.dir = r.dir /\ k.perm = r.perm
         /\ \/ k.user = r.user
            \/ label \in {"free", "updateDir", "deleteDir", "updateFile", "deleteFile", "dir", "user"}
            \/ label = "hasDir" /\ r.kind = "createFile"
         /\ label # "deleteFile" => k.row = r.row
<1> DEFINE drop == label \in {"free", "updateDir", "deleteDir", "updateFile", "deleteFile",
                              "dir", "user"}
                   \/ (label = "hasDir" /\ r.kind = "createFile")
           user == IF drop THEN 0 ELSE r.user
           perm == IF label = "free" THEN NotGiven ELSE r.perm
           dir == IF label = "free" THEN Root ELSE r.dir
           row == IF label = "deleteFile" THEN NoRow ELSE r.row
<1>1. Kept(r, label) = [r EXCEPT !.user = user, !.perm = perm, !.dir = dir, !.row = row]
  BY DEF Kept
<1>2. /\ user \in {0} \cup Users /\ row \in {NoRow, r.row}
      /\ row \in {NoRow} \cup [owner : Users] \cup [owner : Users, perm : Perms]
      /\ perm \in {NotGiven} \cup Perms /\ dir \in {Root, Elsewhere} \cup DirIds
  BY DEF Requests
<1>3. /\ \/ user = r.user
         \/ label \in {"free", "updateDir", "deleteDir", "updateFile", "deleteFile", "dir", "user"}
         \/ label = "hasDir" /\ r.kind = "createFile"
      /\ label # "deleteFile" => row = r.row
      /\ label # "free" => dir = r.dir /\ perm = r.perm
  OBVIOUS
<1> HIDE DEF user, row, perm, dir
<1>4. /\ [r EXCEPT !.user = user, !.perm = perm, !.dir = dir, !.row = row] \in Requests
      /\ \A k : k = [r EXCEPT !.user = user, !.perm = perm, !.dir = dir, !.row = row] =>
           /\ k.kind = r.kind /\ k.dir = dir /\ k.file = r.file /\ k.perm = perm
           /\ k.list = r.list /\ k.user = user /\ k.row = row
  <2> DEFINE k == [r EXCEPT !.user = user, !.perm = perm, !.dir = dir, !.row = row]
             Rows == {NoRow} \cup [owner : Users] \cup [owner : Users, perm : Perms]
  <2>1. r \in [kind : Kinds, user : {0} \cup Users, dir : {Root, Elsewhere} \cup DirIds,
               file : {0} \cup FileIds, perm : {NotGiven} \cup Perms, row : Rows,
               list : SUBSET (Tags \X Nat)]
    BY DEF Requests
  <2>2. row \in Rows  BY <1>2
  <2> HIDE DEF Rows
  <2>3. /\ k \in [kind : Kinds, user : {0} \cup Users, dir : {Root, Elsewhere} \cup DirIds,
                  file : {0} \cup FileIds, perm : {NotGiven} \cup Perms, row : Rows,
                  list : SUBSET (Tags \X Nat)]
        /\ k.kind = r.kind /\ k.dir = dir /\ k.file = r.file /\ k.perm = perm
        /\ k.list = r.list /\ k.user = user /\ k.row = row
    BY <1>2, <2>1, <2>2, ExceptFields
  <2> QED BY <2>3 DEF Requests, Rows
<1> QED BY <1>1, <1>3, <1>4

(* What follows group_find_by_id fits the request again. *)
LEMMA AfterGroupFits ==
  ASSUME NEW r \in Requests, Fits(r, "group")
  PROVE  LET l == AfterGroup(r) IN
         /\ l \in Labels \ {"idle", "insert", "group", "updateFile", "file", "answer", "dir"}
         /\ Fits(Kept(r, l), l)
         /\ l = "user" => r.kind = "groupMembers"
<1>0. AfterGroup(r) \in {"hasDir", "user", "deleteFile", "member"} BY DEF AfterGroup
<1>1. AfterGroup(r) = "user" => r.kind = "groupMembers" BY DEF AfterGroup
<1>2. Fits(Kept(r, AfterGroup(r)), AfterGroup(r)) BY <1>0, KeptOfRequest DEF Fits, Asked
<1> QED BY <1>0, <1>1, <1>2 DEF Labels

(* The same after group_is_member. *)
LEMMA AfterMemberFits ==
  ASSUME NEW r \in Requests, Fits(r, "member")
  PROVE  LET l == AfterMember(r) IN
         l # "answered" =>
           /\ l \in Labels \ {"idle", "insert", "group", "member", "file", "user", "answer"}
           /\ Fits(Kept(r, l), l)
           /\ l = "dir" => r.kind \in {"groupTree", "directoryChildren"}
<1>0. AfterMember(r) \in {"inherit", "findDir", "dir", "updateFile", "answered"}
      /\ (AfterMember(r) = "updateFile" => r.kind = "updateFile")
      /\ (AfterMember(r) = "findDir" => r.kind = "createFile")
  BY DEF AfterMember
<1>1. AfterMember(r) = "dir" => r.kind \in {"groupTree", "directoryChildren"} BY DEF AfterMember
<1>2. AfterMember(r) # "answered" => Fits(Kept(r, AfterMember(r)), AfterMember(r))
  BY <1>0, <1>1, KeptOfRequest DEF Fits, Asked
<1> QED BY <1>0, <1>1, <1>2 DEF Labels

(* The same after directory_find_by_id. *)
LEMMA AfterFindDirFits ==
  ASSUME NEW r \in Requests, Fits(r, "findDir")
  PROVE  LET l == AfterFindDir(r) IN
         l # "answered" =>
           /\ l \in {"updateDir", "deleteDir", "group", "hasDir"}
           /\ Fits(Kept(r, l), l)
           /\ l = "group" => r.kind \in {"directoryInfo", "directoryChildren"}
<1>0. /\ AfterFindDir(r) \in {"updateDir", "deleteDir", "group", "hasDir", "answered"}
      /\ AfterFindDir(r) = "updateDir" => r.kind = "updateDirectory"
      /\ AfterFindDir(r) = "group" => r.kind \in {"directoryInfo", "directoryChildren"}
  BY DEF AfterFindDir
<1>2. AfterFindDir(r) # "answered" => Fits(Kept(r, AfterFindDir(r)), AfterFindDir(r))
  BY <1>0, KeptOfRequest DEF Fits, Asked
<1> QED BY <1>0, <1>2

-----------------------------------------------------------------------------
(* The others.  A step either ends every request, or leaves all but one.   *)

SameFor(v) == pc'[v] = pc[v] /\ req'[v] = req[v]
AllEnd == pc' = [w \in Workers |-> "idle"] /\ req' = [w \in Workers |-> NoReq]
OthersKept(w) == AllEnd \/ \A v \in Workers \ {w} : SameFor(v)

(* No request is held by a worker that serves none. *)
LEMMA NoReqFits == NoReq \in Requests /\ Fits(NoReq, "idle") /\ "idle" \in Labels
BY NothingElsewhere DEF NoReq, Requests, Kinds, Fits, Asked, Labels

(* A worker that goes on. *)
LEMMA Continues ==
  ASSUME Fitting, NEW w \in Workers, NEW r \in Requests, NEW label \in Labels,
         Fits(Kept(r, label), label), Continue(w, r, label)
  PROVE  Fitting' /\ OthersKept(w) /\ pc'[w] = label /\ req'[w] = Kept(r, label)
<1>1. /\ pc' \in [Workers -> Labels] /\ req' \in [Workers -> Requests]
      /\ pc'[w] = label /\ req'[w] = Kept(r, label) /\ \A v \in Workers \ {w} : SameFor(v)
  BY KeptOfRequest DEF Continue, Goto, Fitting, SameFor
<1>2. \A v \in Workers : Fits(req'[v], pc'[v])
  BY <1>1 DEF Fitting, SameFor
<1> QED BY <1>1, <1>2 DEF Fitting, OthersKept

(* A worker that has answered. *)
LEMMA Answers ==
  ASSUME Fitting, NEW w \in Workers, Answer(w)
  PROVE  Fitting' /\ OthersKept(w) /\ pc'[w] = "idle"
<1>1. /\ pc' \in [Workers -> Labels] /\ req' \in [Workers -> Requests]
      /\ pc'[w] = "idle" /\ req'[w] = NoReq /\ \A v \in Workers \ {w} : SameFor(v)
  BY NoReqFits DEF Answer, Goto, Fitting, SameFor
<1>2. \A v \in Workers : Fits(req'[v], pc'[v])
  BY <1>1, NoReqFits DEF Fitting, SameFor
<1> QED BY <1>1, <1>2 DEF Fitting, OthersKept

(* The end of the process. *)
LEMMA Crashes ==
  ASSUME Crash \/ Overrun, NEW w \in Workers
  PROVE  Fitting' /\ OthersKept(w) /\ AllEnd /\ pc'[w] = "idle"
<1>1. pc' \in [Workers -> Labels] /\ req' \in [Workers -> Requests] /\ AllEnd
  BY NoReqFits DEF Crash, Overrun, End, AllEnd
<1>2. \A v \in Workers : Fits(req'[v], pc'[v])
  BY <1>1, NoReqFits DEF AllEnd
<1> QED BY <1>1, <1>2 DEF Fitting, OthersKept, AllEnd

(* What the ghosts say of a request that was under way and goes on, and of *)
(* one that begins.                                                        *)
LEMMA Observed ==
  ASSUME Observe, NEW v \in Workers, pc'[v] # "idle"
  PROVE  /\ stayed'[v] \subseteq Entries(req[v])' /\ Entries(req[v])' \subseteq since'[v]
         /\ pc[v] # "idle" =>
              /\ stayed'[v] \subseteq stayed[v] /\ since[v] \subseteq since'[v]
              /\ v \notin disturbed' => v \notin disturbed /\ (pc'[v] = pc[v] => Found(v)' = Found(v))
BY DEF Observe

(* A row that nobody has written is still as it was read. *)
LEMMA OthersRead ==
  ASSUME Undisturbed, Observe, NEW v \in Workers, SameFor(v), v \notin disturbed'
  PROVE  AsRead(v)'
<1>1. CASE pc[v] = "idle"
  BY <1>1 DEF SameFor, AsRead
<1>2. CASE pc[v] # "idle"
  <2>1. v \notin disturbed /\ Found(v)' = Found(v)
    BY <1>2, Observed DEF SameFor
  <2>2. AsRead(v)
    BY <2>1 DEF Undisturbed
  <2>3. CASE pc[v] = "insert"
    <3>1. Found(v) = DirRow(req[v].dir) /\ Found(v)' = DirRow(req[v].dir)'
      BY <2>3 DEF Found, SameFor
    <3> QED BY <2>1, <2>2, <2>3, <3>1 DEF AsRead, SameFor, HasDir
  <2>4. CASE pc[v] = "group" /\ req[v].kind \in {"directoryInfo", "directoryChildren"}
    <3>1. Found(v) = <<group>> /\ Found(v)' = <<group'>>
      BY <2>4 DEF Found, SameFor
    <3> QED BY <2>1, <2>2, <2>4, <3>1 DEF AsRead, SameFor
  <2>5. CASE pc[v] \in {"group", "member", "updateFile"} /\ req[v].kind = "updateFile"
    <3>1. Found(v) = FileRow(req[v].file) /\ Found(v)' = FileRow(req[v].file)'
      BY <2>5 DEF Found, SameFor
    <3> QED BY <2>1, <2>2, <2>5, <3>1 DEF AsRead, SameFor, HasFile
  <2> QED BY <2>3, <2>4, <2>5 DEF AsRead, SameFor
<1> QED BY <1>1, <1>2

(* What stayed of another's listing is listed, or still to come. *)
LEMMA OthersList ==
  ASSUME NEW v \in Workers, Listing(v), Observe, SameFor(v)
  PROVE  Listing(v)'
<1>1. CASE pc[v] = "idle"
  BY <1>1 DEF SameFor, Listing
<1>2. CASE pc[v] # "idle"
  <2>1. /\ stayed'[v] \subseteq Entries(req[v])' /\ Entries(req[v])' \subseteq since'[v]
        /\ stayed'[v] \subseteq stayed[v] /\ since[v] \subseteq since'[v]
    BY <1>2, Observed DEF SameFor
  <2>2. \A tag : ToCome(v, tag) => ToCome(v, tag)'
    BY <2>1 DEF ToCome, SameFor
  <2>3. \A tag : AllListed(v, tag) => AllListed(v, tag)'
    BY <2>1 DEF AllListed, SameFor
  <2>4. req'[v].list \subseteq since'[v]
    BY <1>2, <2>1 DEF Listing, SameFor
  <2>5. pc[v] = "answer" => stayed'[v] \subseteq req'[v].list
    BY <2>1 DEF Listing, SameFor
  <2> QED BY <2>1, <2>2, <2>3, <2>4, <2>5 DEF Listing, SameFor
<1> QED BY <1>1, <1>2

(* Nothing is read or listed after the end. *)
LEMMA AfterTheEnd ==
  ASSUME NEW v \in Workers, pc'[v] = "idle"
  PROVE  AsRead(v)' /\ Listing(v)'
BY DEF AsRead, Listing

(* A request that lists nothing yet, or is about to begin. *)
LEMMA NothingListed ==
  ASSUME NEW w \in Workers, Observe, req'[w].list = {},
         pc'[w] \notin {"file", "answer"},
         pc'[w] = "dir" => req'[w].kind \in {"groupTree", "directoryChildren"},
         pc'[w] = "user" => req'[w].kind = "groupMembers"
  PROVE  Listing(w)'
<1>1. pc'[w] # "idle" =>
        stayed'[w] \subseteq Entries(req[w])' /\ Entries(req[w])' \subseteq since'[w]
  BY Observed
<1>2. \A tag : ToCome(w, tag)'
  BY DEF ToCome
<1> QED BY <1>1, <1>2 DEF Listing

-----------------------------------------------------------------------------
(* The worker's own step: its request goes on as it should, and the others *)
(* are left alone.                                                         *)

Own(w) == Fitting' /\ OthersKept(w) /\ (w \notin disturbed' => AsRead(w)') /\ Listing(w)'

(* The handler has answered. *)
LEMMA OwnAnswer ==
  ASSUME Fitting, NEW w \in Workers, Answer(w)
  PROVE  Own(w)
BY Answers, AfterTheEnd DEF Own

(* The process has ended. *)
LEMMA OwnCrash ==
  ASSUME Fitting, NEW w \in Workers, Crash \/ Overrun
  PROVE  Own(w)
BY Crashes, AfterTheEnd DEF Own

(* The handler has answered, or run over a buffer. *)
LEMMA OwnPrinted ==
  ASSUME Fitting, NEW w \in Workers, AnswerPrinted(w)
  PROVE  Own(w) /\ (ended \in Endings => ended' \in Endings)
<1>1. Answer(w) \/ Overrun BY DEF AnswerPrinted
<1>2. ended \in Endings => ended' \in Endings BY DEF AnswerPrinted, Overrun, End, Endings
<1> QED BY <1>1, <1>2, OwnAnswer, OwnCrash

(* The handler goes on to a statement that lists nothing before it. *)
LEMMA OwnContinue ==
  ASSUME Fitting, Observe, NEW w \in Workers, NEW r \in Requests,
         NEW label \in Labels \ {"file", "answer"}, Fits(Kept(r, label), label),
         r.list = {}, Continue(w, r, label),
         label = "dir" => r.kind \in {"groupTree", "directoryChildren"},
         label = "user" => r.kind = "groupMembers"
  PROVE  /\ Fitting' /\ OthersKept(w) /\ Listing(w)'
         /\ pc'[w] = label /\ req'[w] = Kept(r, label)
         /\ label \notin {"insert", "group", "member", "updateFile"} => AsRead(w)'
<1>1. Fitting' /\ OthersKept(w) /\ pc'[w] = label /\ req'[w] = Kept(r, label)
  BY Continues
<1>2. Kept(r, label).list = {} /\ Kept(r, label).kind = r.kind
  BY KeptOfRequest
<1>3. Listing(w)'
  BY <1>1, <1>2, NothingListed
<1>4. label \notin {"insert", "group", "member", "updateFile"} => AsRead(w)'
  BY <1>1 DEF AsRead
<1> QED BY <1>1, <1>3, <1>4

(* The file that an update found is still as it found it after a statement *)
(* that writes nothing.                                                    *)
LEMMA StillAsRead ==
  ASSUME Fitting, Undisturbed, Observe, UNCHANGED db, NEW w \in Workers, w \notin disturbed',
         pc[w] \in {"group", "member"}, pc'[w] \in {"member", "updateFile"},
         req'[w] = Kept(req[w], pc'[w])
  PROVE  AsRead(w)'
<1>1. w \notin disturbed
  BY Observed
<1>2. AsRead(w)
  BY <1>1 DEF Undisturbed
<1>3. req'[w].kind = req[w].kind /\ req'[w].file = req[w].file /\ req'[w].row = req[w].row
  BY KeptOfRequest DEF Fitting
<1>4. req[w].kind = "updateFile" =>
        HasFile(req[w].file) /\ FileRow(req[w].file).perm = req[w].row.perm
  BY <1>2 DEF AsRead
<1>5. FileRow(req[w].file)' = FileRow(req[w].file)
  BY <1>3 DEF FileRow, db
<1> QED BY <1>3, <1>4, <1>5 DEF AsRead, HasFile

(* group_find_by_id *)
LEMMA FindGroupOwn ==
  ASSUME IInv, Observe, NEW w \in Workers, FindGroup(w)
  PROVE  Own(w)
<1>0. Fitting /\ Undisturbed BY DEF IInv
<1>1. PICK r \in Now(w, "group") :
        /\ Answer(w) \/ Crash \/ Continue(w, r, AfterGroup(r))
        /\ UNCHANGED db
  BY DEF FindGroup
<1>2. /\ r \in Requests /\ Fits(r, "group")
      /\ (pc[w] = "group" /\ r = req[w]) \/ r.kind # "updateFile"
  BY <1>0, <1>1, NowFits, ArrivalsFit
<1>3. CASE Continue(w, r, AfterGroup(r))
  <2>1. /\ AfterGroup(r) \in Labels \ {"idle", "insert", "group", "updateFile", "file", "answer", "dir"}
        /\ Fits(Kept(r, AfterGroup(r)), AfterGroup(r))
        /\ AfterGroup(r) = "user" => r.kind = "groupMembers"
    BY <1>2, AfterGroupFits
  <2>2. r.list = {} BY <1>2 DEF Fits
  <2>3. /\ Fitting' /\ OthersKept(w) /\ Listing(w)'
        /\ pc'[w] = AfterGroup(r) /\ req'[w] = Kept(r, AfterGroup(r))
        /\ AfterGroup(r) # "member" => AsRead(w)'
    BY <1>0, <1>2, <1>3, <2>1, <2>2, OwnContinue
  <2>4. w \notin disturbed' => AsRead(w)'
    <3>1. CASE pc'[w] = "member" /\ r.kind # "updateFile"
      <4>1. req'[w].kind = r.kind BY <1>2, <2>3, KeptOfRequest
      <4> QED BY <3>1, <4>1 DEF AsRead
    <3>2. CASE pc'[w] = "member" /\ pc[w] = "group" /\ r = req[w]
      BY <1>0, <1>1, <2>3, <3>2, StillAsRead
    <3> QED BY <1>2, <2>3, <3>1, <3>2
  <2> QED BY <2>3, <2>4 DEF Own
<1> QED BY <1>0, <1>1, <1>3, OwnAnswer, OwnCrash

(* group_is_member *)
LEMMA IsMemberOwn ==
  ASSUME IInv, Observe, NEW w \in Workers, IsMember(w)
  PROVE  Own(w)
<1>0. Fitting /\ Undisturbed /\ pc[w] = "member" BY DEF IInv, IsMember, At
<1>1. /\ \/ Answer(w) \/ AnswerPrinted(w)
         \/ AfterMember(req[w]) # "answered" /\ Continue(w, req[w], AfterMember(req[w]))
      /\ UNCHANGED db
  BY DEF IsMember
<1>2. req[w] \in Requests /\ Fits(req[w], "member")
  BY <1>0 DEF Fitting
<1>3. CASE AfterMember(req[w]) # "answered" /\ Continue(w, req[w], AfterMember(req[w]))
  <2> DEFINE l == AfterMember(req[w])
  <2>1. /\ l \in Labels \ {"idle", "insert", "group", "member", "file", "user", "answer"}
        /\ Fits(Kept(req[w], l), l)
        /\ l = "dir" => req[w].kind \in {"groupTree", "directoryChildren"}
    BY <1>2, <1>3, AfterMemberFits
  <2>2. req[w].list = {} BY <1>2 DEF Fits
  <2>3. /\ Fitting' /\ OthersKept(w) /\ Listing(w)'
        /\ pc'[w] = l /\ req'[w] = Kept(req[w], l)
        /\ l # "updateFile" => AsRead(w)'
    BY <1>0, <1>2, <1>3, <2>1, <2>2, OwnContinue
  <2>4. w \notin disturbed' => AsRead(w)'
    BY <1>0, <1>1, <2>3, StillAsRead
  <2> QED BY <2>3, <2>4 DEF Own
<1> QED BY <1>0, <1>1, <1>3, OwnAnswer, OwnPrinted

(* directory_find_by_id *)
LEMMA FindDirOwn ==
  ASSUME IInv, Observe, NEW w \in Workers, FindDir(w)
  PROVE  Own(w)
<1>0. Fitting /\ Undisturbed /\ Schema /\ Tables BY DEF IInv
<1>1. PICK r \in Now(w, "findDir") :
        /\ \/ Answer(w) \/ Crash
           \/ HasDir(r.dir) /\ Proceed(w, IF r.kind = "createFile"
                                         THEN [r EXCEPT !.perm = MayDo(DirRow(r.dir), r.user)] ELSE r,
                                      AfterFindDir(r))
        /\ UNCHANGED db
  BY DEF FindDir
<1>2. r \in Requests /\ Fits(r, "findDir")
  BY <1>0, <1>1, NowFits
<1> DEFINE q == IF r.kind = "createFile" THEN [r EXCEPT !.perm = MayDo(DirRow(r.dir), r.user)] ELSE r
<1>3. HasDir(r.dir) => q \in Requests /\ Fits(q, "findDir") /\ q.list = {} /\ q.kind = r.kind
  <2>1. HAVE HasDir(r.dir)
  <2>2. DirRow(r.dir) \in DirRows
    BY <1>0, <2>1 DEF HasDir, DirRow, Tables
  <2>3. MayDo(DirRow(r.dir), r.user) \in Perms
    BY <2>2 DEF MayDo, DirRows, Perms
  <2>4. CASE r.kind = "createFile"
    BY <1>2, <2>3, <2>4 DEF Requests, Fits, Asked
  <2> QED BY <1>2, <2>4 DEF Fits
<1>4. HasDir(r.dir) => AfterFindDir(q) = AfterFindDir(r)
  BY <1>2 DEF AfterFindDir, Requests
<1>5. CASE HasDir(r.dir) /\ AfterFindDir(r) # "answered" /\ Continue(w, q, AfterFindDir(r))
  <2> HIDE DEF q
  <2>1. /\ AfterFindDir(r) \in {"updateDir", "deleteDir", "group", "hasDir"}
        /\ Fits(Kept(q, AfterFindDir(q)), AfterFindDir(q))
        /\ AfterFindDir(r) = "group" => q.kind \in {"directoryInfo", "directoryChildren"}
    BY <1>3, <1>4, <1>5, AfterFindDirFits
  <2>3. /\ Fitting' /\ OthersKept(w) /\ Listing(w)'
        /\ pc'[w] = AfterFindDir(r) /\ req'[w] = Kept(q, AfterFindDir(r))
        /\ AfterFindDir(r) # "group" => AsRead(w)'
    BY <1>0, <1>3, <1>4, <1>5, <2>1, OwnContinue DEF Labels
  <2>4. AfterFindDir(r) = "group" => AsRead(w)'
    <3>1. HAVE AfterFindDir(r) = "group"
    <3>2. r.dir \in DirIds /\ group
      BY <1>0, <1>5 DEF HasDir, DirRow, Schema, Dirs
    <3>3. req'[w].kind = q.kind BY <1>3, <1>5, <2>3, KeptOfRequest
    <3> QED BY <1>1, <2>1, <2>3, <3>1, <3>2, <3>3 DEF AsRead, db
  <2> QED BY <2>3, <2>4 DEF Own
<1> QED BY <1>0, <1>1, <1>5, OwnAnswer, OwnCrash DEF Proceed

(* group_has_directory *)
LEMMA HasDirectoryOwn ==
  ASSUME IInv, Observe, NEW w \in Workers, HasDirectory(w)
  PROVE  Own(w)
<1>0. Fitting /\ pc[w] = "hasDir" BY DEF IInv, HasDirectory, At
<1>1. \/ Answer(w) \/ AnswerPrinted(w)
      \/ req[w].kind = "makeDirectory" /\ Continue(w, req[w], "member")
  BY DEF HasDirectory
<1>2. req[w] \in Requests /\ Fits(req[w], "hasDir")
  BY <1>0 DEF Fitting
<1>3. CASE req[w].kind = "makeDirectory" /\ Continue(w, req[w], "member")
  <2>1. Kept(req[w], "member").kind = "makeDirectory"
    BY <1>2, <1>3, KeptOfRequest
  <2>2. Fits(Kept(req[w], "member"), "member") /\ "member" \in Labels \ {"file", "answer"} /\ req[w].list = {}
    BY <1>2, <2>1, KeptOfRequest DEF Fits, Asked, Labels
  <2>3. /\ Fitting' /\ OthersKept(w) /\ Listing(w)'
        /\ pc'[w] = "member" /\ req'[w] = Kept(req[w], "member")
    BY <1>0, <1>2, <1>3, <2>2, OwnContinue
  <2>4. AsRead(w)' BY <2>1, <2>3 DEF AsRead
  <2> QED BY <2>3, <2>4 DEF Own
<1> QED BY <1>0, <1>1, <1>3, OwnAnswer, OwnPrinted

(* directory_save and file_save *)
LEMMA InheritOwn ==
  ASSUME IInv, Observe, NEW w \in Workers, Inherit(w)
  PROVE  Own(w)
<1>0. Fitting /\ Tables BY DEF IInv
<1>1. PICK r \in Now(w, "inherit") :
        /\ \/ Continue(w, r, "free")
           \/ \E perm \in IF r.dir = Elsewhere THEN Perms
                          ELSE {IF HasDir(r.dir) THEN DirRow(r.dir).perm ELSE READ} :
                Continue(w, [r EXCEPT !.perm = perm], "insert")
        /\ UNCHANGED db
  BY DEF Inherit
<1>2. r \in Requests /\ Fits(r, "inherit") /\ r.list = {} /\ r.user \in Users
  BY <1>0, <1>1, NowFits DEF Fits, Asked
<1>3. CASE Continue(w, r, "free")
  <2>1. Fits(Kept(r, "free"), "free") /\ "free" \in Labels \ {"file", "answer"}
    BY <1>2, KeptOfRequest DEF Fits, Asked, Labels
  <2>2. Fitting' /\ OthersKept(w) /\ Listing(w)' /\ AsRead(w)'
    BY <1>0, <1>2, <1>3, <2>1, OwnContinue
  <2> QED BY <2>2 DEF Own
<1>4. ASSUME NEW perm \in IF r.dir = Elsewhere THEN Perms
                           ELSE {IF HasDir(r.dir) THEN DirRow(r.dir).perm ELSE READ},
             Continue(w, [r EXCEPT !.perm = perm], "insert")
      PROVE  Own(w)
  <2>1. perm \in Perms
    BY <1>0, <1>4 DEF HasDir, DirRow, Tables, DirRows, Perms
  <2> DEFINE q == [r EXCEPT !.perm = perm]
  <2>2. /\ q \in Requests /\ q.perm = perm /\ q.dir = r.dir /\ q.user = r.user /\ q.list = {}
        /\ q.kind = r.kind
    BY <1>2, <2>1 DEF Requests
  <2>3. Continue(w, q, "insert") BY <1>4
  <2> HIDE DEF q
  <2>4. Fits(Kept(q, "insert"), "insert") /\ "insert" \in Labels \ {"file", "answer"}
    BY <1>2, <2>1, <2>2, KeptOfRequest DEF Fits, Asked, Labels
  <2>5. /\ Fitting' /\ OthersKept(w) /\ Listing(w)'
        /\ pc'[w] = "insert" /\ req'[w] = Kept(q, "insert")
    BY <1>0, <2>2, <2>3, <2>4, OwnContinue
  <2>6. req'[w].perm = perm /\ req'[w].dir = r.dir
    BY <2>2, <2>5, KeptOfRequest
  <2>7. DirRow(req[w].dir)' = DirRow(r.dir)
    BY <1>1, <2>6 DEF DirRow, db
  <2>8. AsRead(w)'
    <3>1. ~HasDir(Elsewhere)
      BY BoundsAssumption DEF HasDir, DirRow, DirIds, Elsewhere
    <3> QED BY <1>4, <2>5, <2>6, <2>7, <3>1 DEF AsRead, HasDir
  <2> QED BY <2>5, <2>8 DEF Own
<1> QED BY <1>1, <1>3, <1>4

(* The new directory's row. *)
LEMMA InsertDirOwn ==
  ASSUME IInv, Observe, NEW w \in Workers, InsertDir(w)
  PROVE  Own(w)
<1>1. Fitting /\ pc[w] = "insert" /\ (Overrun \/ Continue(w, req[w], "free")) BY DEF IInv, InsertDir, At
<1>2. req[w] \in Requests /\ Fits(req[w], "insert")
  BY <1>1 DEF Fitting
<1>3. Fits(Kept(req[w], "free"), "free") /\ "free" \in Labels \ {"file", "answer"} /\ req[w].list = {}
  BY <1>2, KeptOfRequest DEF Fits, Asked, Labels
<1> QED BY <1>1, <1>2, <1>3, OwnCrash, OwnContinue DEF Own

(* file_find_by_id *)
LEMMA FindFileOwn ==
  ASSUME IInv, Observe, NEW w \in Workers, FindFile(w)
  PROVE  Own(w)
<1>0. Fitting /\ Tables BY DEF IInv
<1>1. PICK r \in Now(w, "findFile") :
        /\ \/ Answer(w)
           \/ /\ HasFile(r.file)
              /\ LET file == FileRow(r.file)
                     row == CASE r.kind = "getFile"    -> NoRow
                              [] r.kind = "deleteFile" -> [owner |-> file.owner]
                              [] r.kind = "updateFile" -> [owner |-> file.owner, perm |-> file.perm]
                 IN Continue(w, [r EXCEPT !.row = row], "group")
        /\ UNCHANGED db
  BY DEF FindFile
<1>2. pc[w] # "findFile" BY <1>0 DEF Fitting, Labels
<1>3. /\ r \in Requests /\ r.list = {} /\ r.user \in Users /\ r.file \in FileIds /\ r.dir # Elsewhere
      /\ r.kind \in {"updateFile", "getFile", "deleteFile"}
  BY <1>0, <1>1, <1>2, NowFits, ArrivalsFit
<1>4. HasFile(r.file) => files[r.file] \in FileRows /\ FileRow(r.file) = files[r.file]
  BY <1>0, <1>3 DEF HasFile, FileRow, Tables
<1>5. ASSUME NEW row, HasFile(r.file), Continue(w, [r EXCEPT !.row = row], "group"),
             r.kind = "updateFile" => row = [owner |-> FileRow(r.file).owner, perm |-> FileRow(r.file).perm],
             r.kind = "deleteFile" => row = [owner |-> FileRow(r.file).owner],
             r.kind = "getFile" => row = NoRow
      PROVE  Own(w)
  <2>1. /\ row \in {NoRow} \cup [owner : Users] \cup [owner : Users, perm : Perms]
        /\ r.kind = "updateFile" => row \in [owner : Users, perm : Perms]
                                    /\ row.perm = FileRow(r.file).perm
    BY <1>3, <1>4, <1>5 DEF FileRows
  <2> DEFINE q == [r EXCEPT !.row = row]
  <2>2. /\ q \in Requests /\ q.row = row /\ q.kind = r.kind /\ q.user = r.user
        /\ q.file = r.file /\ q.list = {} /\ q.dir = r.dir
    BY <1>3, <2>1 DEF Requests
  <2>3. Continue(w, q, "group") BY <1>5
  <2> HIDE DEF q
  <2>4. Fits(Kept(q, "group"), "group") /\ "group" \in Labels \ {"file", "answer"}
    BY <1>3, <2>1, <2>2, KeptOfRequest DEF Fits, Asked, Labels
  <2>5. /\ Fitting' /\ OthersKept(w) /\ Listing(w)'
        /\ pc'[w] = "group" /\ req'[w] = Kept(q, "group")
    BY <1>0, <2>2, <2>3, <2>4, OwnContinue
  <2>6. req'[w].kind = r.kind /\ req'[w].file = r.file /\ req'[w].row = row
    BY <2>2, <2>5, KeptOfRequest
  <2>7. FileRow(req[w].file)' = FileRow(r.file)
    BY <1>1, <2>6 DEF FileRow, db
  <2>8. AsRead(w)'
    BY <1>3, <1>5, <2>1, <2>5, <2>6, <2>7 DEF AsRead, HasFile
  <2> QED BY <2>5, <2>8 DEF Own
<1>6. CASE Answer(w) BY <1>0, <1>6, OwnAnswer
<1>7. ASSUME ~Answer(w) PROVE Own(w)
  <2> DEFINE owner == FileRow(r.file).owner
             row == CASE r.kind = "getFile"    -> NoRow
                      [] r.kind = "deleteFile" -> [owner |-> owner]
                      [] r.kind = "updateFile" -> [owner |-> owner, perm |-> FileRow(r.file).perm]
  <2>1. HasFile(r.file) /\ Continue(w, [r EXCEPT !.row = row], "group")
    BY <1>1, <1>7
  <2>2. /\ r.kind = "updateFile" => row = [owner |-> FileRow(r.file).owner, perm |-> FileRow(r.file).perm]
        /\ r.kind = "deleteFile" => row = [owner |-> FileRow(r.file).owner]
        /\ r.kind = "getFile" => row = NoRow
    OBVIOUS
  <2> HIDE DEF row, owner
  <2> QED BY <1>5, <2>1, <2>2
<1> QED BY <1>6, <1>7

-----------------------------------------------------------------------------
(* Listings.                                                               *)

(* A set of numbers has a least one. *)
LEMMA LeastNumber ==
  ASSUME NEW T \in SUBSET Nat, T # {}
  PROVE  \E n \in T : \A m \in T : n <= m
<1>1. PICK n \in T : \A m \in T : ~(<<m, n>> \in OpToRel(<, Nat))
  BY NatLessThanWellFounded, WFMin, Zenon
<1>2. \A m \in T : ~(m < n)  BY <1>1 DEF OpToRel
<1> QED  BY <1>2

(* The rows fetched at once are there and not listed yet; they are all of  *)
(* these, or the first.  So none is fetched only when none is left.        *)
LEMMA RowsFetched ==
  ASSUME NEW r, NEW tag
  PROVE  LET rows == NextRows(r, tag) IN
         /\ rows \subseteq Rest(r, tag) /\ Rest(r, tag) \subseteq Ids
         /\ \A i \in rows : <<tag, i>> \in Entries(r)
         /\ rows = {} \/ r.kind = "directoryChildren" => rows = Rest(r, tag)
         /\ r.kind # "directoryChildren" => \A i \in rows : \A j \in Rest(r, tag) : i <= j
<1>1. Rest(r, tag) \subseteq Ids /\ \A i \in Rest(r, tag) : <<tag, i>> \in Entries(r)
  BY DEF Rest, Ids
<1>2. Ids \subseteq Nat
  BY BoundsAssumption DEF Ids
<1>3. /\ NextRows(r, tag) \subseteq Rest(r, tag)
      /\ r.kind = "directoryChildren" => NextRows(r, tag) = Rest(r, tag)
      /\ r.kind # "directoryChildren" =>
           \A i \in NextRows(r, tag) : \A j \in Rest(r, tag) : i <= j
  BY DEF NextRows
<1>4. ASSUME NextRows(r, tag) = {}, Rest(r, tag) # {}, r.kind # "directoryChildren"
      PROVE  FALSE
  <2>1. PICK n \in Rest(r, tag) : \A m \in Rest(r, tag) : n <= m
    BY <1>1, <1>2, <1>4, LeastNumber
  <2> QED BY <1>4, <2>1 DEF NextRows
<1> QED BY <1>1, <1>3, <1>4

(* What a fetch of rows does to the worker's listing. *)
LEMMA RowsListed ==
  ASSUME Fitting, Observe, NEW w \in Workers, Listing(w),
         NEW tag \in Tags, NEW other \in Tags \ {tag}, NEW after \in {"file", "answer"}, tag # after,
         tag \in {"dir", "file", "user"}, ListRows(w, tag, after), ToCome(w, tag)
  PROVE  /\ Fitting' /\ OthersKept(w) /\ AsRead(w)'
         /\ pc'[w] \in {tag, after} /\ req'[w].kind = req[w].kind
         /\ stayed'[w] \subseteq Entries(req[w])' /\ Entries(req[w])' \subseteq since'[w]
         /\ stayed'[w] \subseteq Entries(req[w])
         /\ req'[w].list \subseteq since'[w]
         /\ IF pc'[w] = tag THEN ToCome(w, tag)' ELSE AllListed(w, tag)'
         /\ ToCome(w, other) => ToCome(w, other)'
         /\ AllListed(w, other) => AllListed(w, other)'
<1> DEFINE r == req[w]
           rows == NextRows(r, tag)
           new == {<<tag, i>> : i \in rows}
<1>1. /\ pc[w] = tag /\ UNCHANGED db
      /\ req' = [req EXCEPT ![w].list = @ \cup new]
      /\ IF rows = {} \/ r.kind = "directoryChildren" THEN Goto(w, after) ELSE UNCHANGED pc
  BY DEF ListRows, At
<1>2. r \in Requests /\ Fits(r, tag) BY <1>1 DEF Fitting
<1>3. Ids \subseteq Nat BY BoundsAssumption DEF Ids
<1>4. /\ rows \subseteq Rest(r, tag) /\ Rest(r, tag) \subseteq Ids
      /\ \A i \in rows : <<tag, i>> \in Entries(r)
      /\ rows = {} \/ r.kind = "directoryChildren" => rows = Rest(r, tag)
      /\ r.kind # "directoryChildren" => \A i \in rows : \A j \in Rest(r, tag) : i <= j
  BY RowsFetched
<1> HIDE DEF rows
<1>5. new \in SUBSET (Tags \X Nat)
  <2>1. ASSUME NEW i \in rows PROVE <<tag, i>> \in Tags \X Nat
    BY <1>3, <1>4
  <2> QED BY <2>1
<1>6. /\ req' = [req EXCEPT ![w] = [r EXCEPT !.list = r.list \cup new]]
      /\ [r EXCEPT !.list = r.list \cup new] \in Requests
  BY <1>1, <1>2, <1>5 DEF Fitting, Requests
<1>7. /\ req' \in [Workers -> Requests] /\ \A v \in Workers \ {w} : req'[v] = req[v]
      /\ req'[w].kind = r.kind /\ req'[w].list = r.list \cup new
  BY <1>2, <1>6 DEF Fitting, Requests
<1>8. /\ pc' \in [Workers -> Labels] /\ \A v \in Workers \ {w} : pc'[v] = pc[v]
      /\ pc'[w] = IF rows = {} \/ r.kind = "directoryChildren" THEN after ELSE tag
  BY <1>1 DEF Fitting, Goto, Labels
<1>9. pc'[w] \in {"dir", "file", "user", "answer"} BY <1>8
<1>10. Fitting' /\ OthersKept(w) /\ AsRead(w)'
  <2>1. Fits(req'[w], pc'[w]) BY <1>9 DEF Fits, Asked
  <2>2. \A v \in Workers : Fits(req'[v], pc'[v]) BY <1>7, <1>8, <2>1 DEF Fitting
  <2> QED BY <1>7, <1>8, <1>9, <2>2 DEF Fitting, OthersKept, SameFor, AsRead
<1>11. /\ stayed'[w] \subseteq Entries(req[w])' /\ Entries(req[w])' \subseteq since'[w]
       /\ stayed'[w] \subseteq stayed[w] /\ since[w] \subseteq since'[w]
  BY <1>1, <1>9, Observed
<1>12. stayed[w] \subseteq Entries(r) /\ Entries(r) \subseteq since[w] /\ r.list \subseteq since[w]
  BY <1>1 DEF Listing
<1>13. req'[w].list \subseteq since'[w]
  BY <1>4, <1>7, <1>11, <1>12
<1>14. ASSUME NEW i \in Ids, <<tag, i>> \in stayed[w]
       PROVE  <<tag, i>> \in r.list
              \/ (i \in Rest(r, tag) /\ \A e \in r.list : e[1] = tag => e[2] < i)
  <2>1. <<tag, i>> \in r.list \/ \A e \in r.list : e[1] = tag => e[2] < i
    BY <1>14 DEF ToCome
  <2>2. <<tag, i>> \in Entries(r) BY <1>12, <1>14
  <2>3. Rest(r, tag) = {j \in Ids : /\ <<tag, j>> \in Entries(r)
                                   /\ \A e \in r.list : e[1] = tag => e[2] < j}
    BY DEF Rest, Ids
  <2>4. ASSUME <<tag, i>> \notin r.list PROVE i \in Rest(r, tag)
    <3>1. \A e \in r.list : e[1] = tag => e[2] < i BY <2>1, <2>4
    <3> QED BY <1>14, <2>2, <2>3, <3>1
  <2> QED BY <2>1, <2>4
<1>15. ASSUME rows = {} \/ r.kind = "directoryChildren"
       PROVE  pc'[w] = after /\ AllListed(w, tag)'
  <2>1. ASSUME NEW i \in Ids, <<tag, i>> \in stayed'[w] PROVE <<tag, i>> \in req'[w].list
    <3>1. <<tag, i>> \in stayed[w] BY <1>11, <2>1
    <3>2. <<tag, i>> \in r.list \/ i \in rows BY <1>4, <1>14, <1>15, <3>1
    <3> QED BY <1>7, <3>2
  <2> QED BY <1>8, <1>15, <2>1 DEF AllListed
<1>16. ASSUME ~(rows = {} \/ r.kind = "directoryChildren")
       PROVE  pc'[w] = tag /\ ToCome(w, tag)'
  <2>0. pc'[w] = tag BY <1>8, <1>16
  <2>1. SUFFICES ASSUME NEW i \in Ids, <<tag, i>> \in stayed[w], <<tag, i>> \notin req'[w].list,
                        NEW e \in req'[w].list, e[1] = tag
                 PROVE  e[2] < i
    BY <1>11, <2>0 DEF ToCome
  <2>2. i \in Rest(r, tag) /\ \A x \in r.list : x[1] = tag => x[2] < i
    BY <1>7, <1>14, <2>1
  <2>3. CASE e \in r.list BY <2>1, <2>2, <2>3
  <2>4. ASSUME NEW j \in rows, e = <<tag, j>> PROVE e[2] < i
    <3>1. j <= i BY <1>4, <1>16, <2>2
    <3>2. j # i BY <1>7, <2>1, <2>4
    <3>3. i \in Nat /\ j \in Nat BY <1>3, <1>4
    <3> QED BY <2>4, <3>1, <3>2, <3>3
  <2> QED BY <1>7, <2>1, <2>3, <2>4
<1>17. \A e \in req'[w].list : e[1] = other => e \in r.list BY <1>7
<1>18. r.list \subseteq req'[w].list BY <1>7
<1>19. ToCome(w, other) => ToCome(w, other)'
  BY <1>11, <1>17, <1>18 DEF ToCome
<1>20. AllListed(w, other) => AllListed(w, other)'
  BY <1>11, <1>18 DEF AllListed
<1>21. stayed'[w] \subseteq Entries(req[w]) BY <1>11, <1>12
<1>22. /\ pc'[w] \in {tag, after}
       /\ IF pc'[w] = tag THEN ToCome(w, tag)' ELSE AllListed(w, tag)'
  BY <1>15, <1>16
<1> QED BY <1>7, <1>10, <1>11, <1>13, <1>19, <1>20, <1>21, <1>22

(* Nodes are directories and files, members are users. *)
LEMMA EntriesTagged ==
  ASSUME Tables, NEW r
  PROVE  /\ r.kind \in {"groupTree", "directoryChildren"} => Entries(r) \subseteq {"dir", "file"} \X Ids
         /\ r.kind = "groupMembers" => Entries(r) \subseteq {"user"} \X Ids
         /\ r.kind = "myGroups" => Entries(r) \subseteq {"group"} \X {1}
<1>1. DirIds \subseteq Ids /\ FileIds \subseteq Ids /\ Users \subseteq Ids
  BY BoundsAssumption DEF DirIds, FileIds, Users, Ids
<1>2. members \subseteq Ids BY <1>1 DEF Tables
<1>3. ASSUME r.kind \in {"groupTree", "directoryChildren"}, NEW e \in Entries(r)
      PROVE  e \in {"dir", "file"} \X Ids
  <2>1. \/ \E d \in DirIds : e = <<"dir", d>>
        \/ \E f \in FileIds : e = <<"file", f>>
    BY <1>3 DEF Entries
  <2> QED BY <1>1, <2>1
<1>4. ASSUME r.kind = "groupMembers", NEW e \in Entries(r)
      PROVE  e \in {"user"} \X Ids
  <2>1. \E u \in members : e = <<"user", u>>
    BY <1>4 DEF Entries
  <2> QED BY <1>2, <2>1
<1>5. r.kind = "myGroups" => Entries(r) \subseteq {<<"group", 1>>}
  BY DEF Entries
<1> QED BY <1>3, <1>4, <1>5

(* _get_directories_callback *)
LEMMA ListDirsOwn ==
  ASSUME IInv, Observe, NEW w \in Workers, ListDirs(w)
  PROVE  Own(w)
<1>1. Fitting /\ Listing(w) /\ pc[w] = "dir" BY DEF IInv, Listings, ListDirs, ListRows, At
<1>2. ToCome(w, "dir") /\ ToCome(w, "file") /\ req[w].kind \in {"groupTree", "directoryChildren"}
  BY <1>1 DEF Listing
<1>3. /\ Fitting' /\ OthersKept(w) /\ AsRead(w)'
      /\ pc'[w] \in {"dir", "file"} /\ req'[w].kind = req[w].kind
      /\ stayed'[w] \subseteq Entries(req[w])' /\ Entries(req[w])' \subseteq since'[w]
      /\ req'[w].list \subseteq since'[w]
      /\ IF pc'[w] = "dir" THEN ToCome(w, "dir")' ELSE AllListed(w, "dir")'
      /\ ToCome(w, "file")'
  <2>1. ListRows(w, "dir", "file") BY DEF ListDirs
  <2>2. "dir" \in Tags /\ "file" \in Tags \ {"dir"} BY DEF Tags
  <2> QED BY <1>1, <1>2, <2>1, <2>2, RowsListed
<1>4. Listing(w)' BY <1>2, <1>3 DEF Listing
<1> QED BY <1>3, <1>4 DEF Own

(* _get_files_callback *)
LEMMA ListFilesOwn ==
  ASSUME IInv, Observe, NEW w \in Workers, ListFiles(w)
  PROVE  Own(w)
<1>1. Fitting /\ Listing(w) /\ pc[w] = "file" /\ Tables
  BY DEF IInv, Listings, ListFiles, ListRows, At
<1>2. AllListed(w, "dir") /\ ToCome(w, "file") /\ req[w].kind \in {"groupTree", "directoryChildren"}
  BY <1>1 DEF Listing
<1>3. /\ Fitting' /\ OthersKept(w) /\ AsRead(w)'
      /\ pc'[w] \in {"file", "answer"} /\ req'[w].kind = req[w].kind
      /\ stayed'[w] \subseteq Entries(req[w])' /\ Entries(req[w])' \subseteq since'[w]
      /\ stayed'[w] \subseteq Entries(req[w])
      /\ req'[w].list \subseteq since'[w]
      /\ IF pc'[w] = "file" THEN ToCome(w, "file")' ELSE AllListed(w, "file")'
      /\ AllListed(w, "dir")'
  <2>1. ListRows(w, "file", "answer") BY DEF ListFiles
  <2>2. "file" \in Tags /\ "dir" \in Tags \ {"file"} BY DEF Tags
  <2> QED BY <1>1, <1>2, <2>1, <2>2, RowsListed
<1>4. stayed'[w] \subseteq {"dir", "file"} \X Ids
  BY <1>1, <1>2, <1>3, EntriesTagged
<1>5. pc'[w] = "answer" => stayed'[w] \subseteq req'[w].list
  BY <1>3, <1>4 DEF AllListed
<1>6. Listing(w)' BY <1>2, <1>3, <1>5 DEF Listing
<1> QED BY <1>3, <1>6 DEF Own

(* _get_group_members_callback *)
LEMMA ListUsersOwn ==
  ASSUME IInv, Observe, NEW w \in Workers, ListUsers(w)
  PROVE  Own(w)
<1>1. Fitting /\ Listing(w) /\ pc[w] = "user" /\ Tables
  BY DEF IInv, Listings, ListUsers, ListRows, At
<1>2. ToCome(w, "user") /\ req[w].kind = "groupMembers"
  BY <1>1 DEF Listing
<1>3. /\ Fitting' /\ OthersKept(w) /\ AsRead(w)'
      /\ pc'[w] \in {"user", "answer"} /\ req'[w].kind = req[w].kind
      /\ stayed'[w] \subseteq Entries(req[w])' /\ Entries(req[w])' \subseteq since'[w]
      /\ stayed'[w] \subseteq Entries(req[w])
      /\ req'[w].list \subseteq since'[w]
      /\ IF pc'[w] = "user" THEN ToCome(w, "user")' ELSE AllListed(w, "user")'
  <2>1. ListRows(w, "user", "answer") BY DEF ListUsers
  <2>2. "user" \in Tags /\ "dir" \in Tags \ {"user"} BY DEF Tags
  <2> QED BY <1>1, <1>2, <2>1, <2>2, RowsListed
<1>4. stayed'[w] \subseteq {"user"} \X Ids
  BY <1>1, <1>2, <1>3, EntriesTagged
<1>5. pc'[w] = "answer" => stayed'[w] \subseteq req'[w].list
  BY <1>3, <1>4 DEF AllListed
<1>6. Listing(w)' BY <1>2, <1>3, <1>5 DEF Listing
<1> QED BY <1>3, <1>6 DEF Own

(* group_find_by_member *)
LEMMA ListGroupsOwn ==
  ASSUME IInv, Observe, NEW w \in Workers, ListGroups(w)
  PROVE  Own(w)
<1>0. Fitting /\ Tables BY DEF IInv
<1>1. PICK r \in Now(w, "groups") :
        /\ Goto(w, "answer") /\ UNCHANGED db
        /\ req' = [req EXCEPT ![w] = [r EXCEPT !.list = Entries(r)]]
  BY DEF ListGroups
<1>2. pc[w] # "groups" BY <1>0 DEF Fitting, Labels
<1>3. r \in Requests /\ r.kind = "myGroups" /\ pc[w] = "idle"
  BY <1>0, <1>1, <1>2, NowFits, ArrivalsFit
<1>4. Entries(r) \in SUBSET (Tags \X Nat)
  BY <1>0, <1>3, EntriesTagged DEF Tags
<1> DEFINE q == [r EXCEPT !.list = Entries(r)]
<1>5. q \in Requests /\ q.kind = "myGroups" /\ q.user = r.user /\ q.list = Entries(r)
  BY <1>3, <1>4 DEF Requests
<1>6. req' = [req EXCEPT ![w] = q] BY <1>1
<1> HIDE DEF q
<1>7. /\ pc' \in [Workers -> Labels] /\ req' \in [Workers -> Requests]
      /\ pc'[w] = "answer" /\ req'[w] = q /\ \A v \in Workers \ {w} : SameFor(v)
  BY <1>0, <1>1, <1>5, <1>6 DEF Goto, Fitting, Labels, SameFor
<1>8. Fits(q, "answer") BY DEF Fits, Asked
<1>9. Fitting' /\ OthersKept(w)
  <2>1. \A v \in Workers : Fits(req'[v], pc'[v]) BY <1>0, <1>7, <1>8 DEF Fitting, SameFor
  <2> QED BY <1>7, <2>1 DEF Fitting, OthersKept
<1>10. Entries(req[w])' = q.list
  <2>1. Entries(req[w])' = IF q.user \in members' THEN {<<"group", 1>>} ELSE {}
    BY <1>5, <1>7 DEF Entries
  <2>2. Entries(r) = IF r.user \in members THEN {<<"group", 1>>} ELSE {}
    BY <1>3 DEF Entries
  <2> QED BY <1>1, <1>5, <2>1, <2>2 DEF db
<1>11. stayed'[w] \subseteq Entries(req[w])' /\ Entries(req[w])' \subseteq since'[w]
  BY <1>7, Observed
<1>12. Listing(w)'
  BY <1>7, <1>10, <1>11 DEF Listing
<1>13. AsRead(w)' BY <1>7 DEF AsRead
<1> QED BY <1>9, <1>12, <1>13 DEF Own

-----------------------------------------------------------------------------
(* The rows.                                                               *)

(* A row is there when its table has one of its id. *)
LEMMA RowThere ==
  /\ \A d : HasDir(d) <=> d \in Dirs
  /\ \A f : HasFile(f) <=> f \in Files
BY DEF HasDir, DirRow, HasFile, FileRow, Dirs, Files

(* A statement that reads. *)
LEMMA RowsKept ==
  ASSUME Tables, Schema, UNCHANGED db, ended' \in Endings
  PROVE  Tables' /\ Schema'
BY DEF Tables, Schema, Dirs, Files, db

(* INSERT INTO directories *)
LEMMA InsertDirRows ==
  ASSUME IInv, NEW w \in Workers, InsertDir(w)
  PROVE  Tables' /\ Schema'
<1>0. Tables /\ Schema /\ Fitting /\ pc[w] = "insert" /\ ended' \in Endings
  BY DEF IInv, InsertDir, At, Overrun, End, Endings, Tables
<1> DEFINE r == req[w]
           id == dcreated + 1
           row == [parent |-> r.dir, perm |-> r.perm, owner |-> r.user]
<1>1. /\ UNCHANGED <<group, members, files, fcreated>>
      /\ \/ CanInsert(r.dir) /\ dcreated < MaxDirs /\ dcreated' = id /\ dirs' = [dirs EXCEPT ![id] = row]
         \/ UNCHANGED <<dirs, dcreated>>
  BY DEF InsertDir
<1>2. CASE UNCHANGED <<dirs, dcreated>>
  BY <1>0, <1>1, <1>2, RowsKept DEF db, Tables
<1>3. CASE CanInsert(r.dir) /\ dcreated < MaxDirs /\ dcreated' = id /\ dirs' = [dirs EXCEPT ![id] = row]
  <2>1. r.dir \in {Root} \cup DirIds /\ r.perm \in Perms /\ r.user \in Users
    <3>1. r.kind = "makeDirectory" BY DEF InsertDir
    <3> QED BY <1>0, <3>1 DEF Fitting, Requests, Fits, Asked
  <2>2. row \in DirRows /\ row.parent = r.dir BY <2>1 DEF DirRows
  <2>3. dcreated \in Nat /\ id \in DirIds /\ id \in 0..MaxDirs /\ id > dcreated
    BY <1>0, <1>3, BoundsAssumption DEF Tables, DirIds
  <2>4. group /\ r.dir \in {Root} \cup Dirs
    BY <1>0, <1>3, <2>1, RowThere, NothingElsewhere DEF CanInsert
  <2> HIDE DEF row, id
  <2>5. Tables' BY <1>0, <1>1, <1>3, <2>2, <2>3 DEF Tables
  <2>6. id \notin Dirs /\ Dirs \subseteq DirIds /\ DirIds \subseteq Nat
    BY <1>0, <2>3 DEF Schema, Dirs, DirIds
  <2>7. /\ dirs'[id] = row /\ \A d \in Dirs : dirs'[d] = dirs[d]
        /\ Dirs \subseteq Dirs' /\ Dirs' \subseteq Dirs \cup {id}
    BY <1>0, <1>3, <2>3, <2>6 DEF Tables, Dirs
  <2>8. \A d \in Dirs' : d <= dcreated' /\ group' /\ dirs'[d].parent \in {Root} \cup Dirs'
    <3>1. SUFFICES ASSUME NEW d \in Dirs' PROVE d <= dcreated' /\ group' /\ dirs'[d].parent \in {Root} \cup Dirs'
      OBVIOUS
    <3>2. group' BY <1>1, <2>4
    <3>3. dcreated' = id /\ id \in Nat BY <1>3, <2>3, BoundsAssumption
    <3>4. CASE d = id
      <4>1. dirs'[d].parent = r.dir BY <2>2, <2>7, <3>4
      <4>2. d <= dcreated' BY <3>3, <3>4
      <4> QED BY <2>4, <2>7, <3>2, <4>1, <4>2
    <3>5. CASE d \in Dirs
      <4>1. d <= dcreated /\ group /\ dirs[d].parent \in {Root} \cup Dirs BY <1>0, <3>5 DEF Schema
      <4>2. dirs'[d].parent = dirs[d].parent /\ d \in Nat BY <2>6, <2>7, <3>5
      <4>3. d <= dcreated' BY <2>3, <3>3, <4>1, <4>2
      <4> QED BY <2>7, <3>2, <4>1, <4>2, <4>3
    <3> QED BY <2>7, <3>4, <3>5
  <2>9. \A f \in Files' : f <= fcreated' /\ group' /\ files'[f].dir \in {Root, Elsewhere} \cup Dirs'
    BY <1>0, <1>1, <2>7 DEF Schema, Files
  <2> QED BY <2>5, <2>8, <2>9 DEF Schema
<1> QED BY <1>1, <1>2, <1>3

(* INSERT INTO files *)
LEMMA InsertFileRows ==
  ASSUME IInv, NEW w \in Workers, InsertFile(w)
  PROVE  Tables' /\ Schema'
<1>0. Tables /\ Schema /\ Fitting /\ pc[w] = "insert" /\ ended' \in Endings
  BY OwnPrinted DEF IInv, InsertFile, At, Tables
<1> DEFINE r == req[w]
           id == fcreated + 1
           row == [dir |-> r.dir, perm |-> r.perm, owner |-> r.user]
<1>1. /\ UNCHANGED <<group, members, dirs, dcreated>>
      /\ \/ CanInsert(r.dir) /\ fcreated < MaxFiles /\ fcreated' = id /\ files' = [files EXCEPT ![id] = row]
         \/ UNCHANGED <<files, fcreated>>
  BY DEF InsertFile
<1>2. CASE UNCHANGED <<files, fcreated>>
  BY <1>0, <1>1, <1>2, RowsKept DEF db, Tables
<1>3. CASE CanInsert(r.dir) /\ fcreated < MaxFiles /\ fcreated' = id /\ files' = [files EXCEPT ![id] = row]
  <2>1. r.dir \in {Root, Elsewhere} \cup DirIds /\ r.perm \in Perms /\ r.user \in Users
    BY <1>0 DEF Fitting, Requests, Fits, Asked
  <2>2. row \in FileRows /\ row.dir = r.dir BY <2>1 DEF FileRows
  <2>3. fcreated \in Nat /\ id \in FileIds /\ id \in 0..MaxFiles /\ id > fcreated
    BY <1>0, <1>3, BoundsAssumption DEF Tables, FileIds
  <2>4. group /\ r.dir \in {Root, Elsewhere} \cup Dirs
    BY <1>3, RowThere DEF CanInsert
  <2> HIDE DEF row, id
  <2>5. Tables' BY <1>0, <1>1, <1>3, <2>2, <2>3 DEF Tables
  <2>6. id \notin Files /\ Files \subseteq FileIds /\ FileIds \subseteq Nat
    BY <1>0, <2>3 DEF Schema, Files, FileIds
  <2>7. /\ files'[id] = row /\ \A f \in Files : files'[f] = files[f]
        /\ Files' \subseteq Files \cup {id} /\ Dirs' = Dirs
    BY <1>0, <1>1, <1>3, <2>3, <2>6 DEF Tables, Files, Dirs
  <2>8. \A f \in Files' : f <= fcreated' /\ group' /\ files'[f].dir \in {Root, Elsewhere} \cup Dirs'
    <3>1. SUFFICES ASSUME NEW f \in Files' PROVE f <= fcreated' /\ group' /\ files'[f].dir \in {Root, Elsewhere} \cup Dirs'
      OBVIOUS
    <3>2. group' BY <1>1, <2>4
    <3>3. fcreated' = id /\ id \in Nat BY <1>3, <2>3, BoundsAssumption
    <3>4. CASE f = id
      <4>1. files'[f].dir = r.dir BY <2>2, <2>7, <3>4
      <4>2. f <= fcreated' BY <3>3, <3>4
      <4> QED BY <2>4, <2>7, <3>2, <4>1, <4>2
    <3>5. CASE f \in Files
      <4>1. f <= fcreated /\ group /\ files[f].dir \in {Root, Elsewhere} \cup Dirs BY <1>0, <3>5 DEF Schema
      <4>2. files'[f].dir = files[f].dir /\ f \in Nat BY <2>6, <2>7, <3>5
      <4>3. f <= fcreated' BY <2>3, <3>3, <4>1, <4>2
      <4> QED BY <2>7, <3>2, <4>1, <4>2, <4>3
    <3> QED BY <2>7, <3>4, <3>5
  <2>9. \A d \in Dirs' : d <= dcreated' /\ group' /\ dirs'[d].parent \in {Root} \cup Dirs'
    BY <1>0, <1>1, <2>7 DEF Schema
  <2> QED BY <2>5, <2>8, <2>9 DEF Schema
<1> QED BY <1>1, <1>2, <1>3

(* UPDATE directories *)
LEMMA UpdateDirRows ==
  ASSUME IInv, NEW w \in Workers, UpdateDir(w)
  PROVE  Tables' /\ Schema'
<1>0. Tables /\ Schema /\ Fitting /\ pc[w] = "updateDir"
  BY DEF IInv, UpdateDir, At
<1> DEFINE r == req[w]
<1>1. /\ UNCHANGED <<group, members, files, dcreated, fcreated, ended>>
      /\ dirs' = IF HasDir(r.dir) THEN [dirs EXCEPT ![r.dir].perm = r.perm] ELSE dirs
  BY DEF UpdateDir
<1>2. r.perm \in Perms BY <1>0 DEF Fitting, Fits
<1>3. CASE ~HasDir(r.dir)
  BY <1>0, <1>1, <1>3, RowsKept DEF db, Tables
<1>4. CASE HasDir(r.dir)
  <2>1. r.dir \in Dirs /\ Dirs \subseteq DirIds BY <1>4, RowThere DEF Dirs
  <2>2. dirs[r.dir] \in DirRows BY <1>0, <2>1 DEF Tables, Dirs
  <2> DEFINE row == [dirs[r.dir] EXCEPT !.perm = r.perm]
  <2>3. row \in DirRows /\ row.parent = dirs[r.dir].parent BY <1>2, <2>2 DEF DirRows
  <2>4. dirs' = [dirs EXCEPT ![r.dir] = row] BY <1>1, <1>4
  <2> HIDE DEF row
  <2>5. Tables' BY <1>0, <1>1, <2>1, <2>3, <2>4 DEF Tables
  <2>6. Dirs' = Dirs
    BY <1>0, <2>1, <2>3, <2>4, RowAssumption DEF Tables, Dirs
  <2>7. \A d \in Dirs : dirs'[d].parent = dirs[d].parent
    BY <1>0, <2>1, <2>3, <2>4 DEF Tables
  <2>8. Files' = Files BY <1>1 DEF Files
  <2>9. Schema' BY <1>0, <1>1, <2>6, <2>7, <2>8 DEF Schema
  <2> QED BY <2>5, <2>9
<1> QED BY <1>3, <1>4

(* UPDATE files *)
LEMMA UpdateFileRows ==
  ASSUME IInv, NEW w \in Workers, UpdateFile(w)
  PROVE  Tables' /\ Schema'
<1>0. Tables /\ Schema /\ Fitting /\ pc[w] = "updateFile"
  BY DEF IInv, UpdateFile, WriteFile, At
<1> DEFINE r == req[w]
           perm == IF r.perm # NotGiven THEN r.perm ELSE r.row.perm
<1>1. /\ UNCHANGED <<group, members, dirs, dcreated, fcreated, ended>>
      /\ files' = IF HasFile(r.file) THEN [files EXCEPT ![r.file].perm = perm] ELSE files
  BY DEF UpdateFile, WriteFile
<1>2. perm \in Perms
  <2>1. r.row \in [owner : Users, perm : Perms] /\ r.perm \in {NotGiven} \cup Perms
    BY <1>0 DEF Fitting, Fits, Requests
  <2> QED BY <2>1
<1> HIDE DEF perm
<1>3. CASE ~HasFile(r.file)
  BY <1>0, <1>1, <1>3, RowsKept DEF db, Tables
<1>4. CASE HasFile(r.file)
  <2>1. r.file \in Files /\ Files \subseteq FileIds BY <1>4, RowThere DEF Files
  <2>2. files[r.file] \in FileRows BY <1>0, <2>1 DEF Tables, Files
  <2> DEFINE row == [files[r.file] EXCEPT !.perm = perm]
  <2>3. row \in FileRows /\ row.dir = files[r.file].dir BY <1>2, <2>2 DEF FileRows
  <2>4. files' = [files EXCEPT ![r.file] = row] BY <1>1, <1>4
  <2> HIDE DEF row
  <2>5. Tables' BY <1>0, <1>1, <2>1, <2>3, <2>4 DEF Tables
  <2>6. Files' = Files
    BY <1>0, <2>1, <2>3, <2>4, RowAssumption DEF Tables, Files
  <2>7. \A f \in Files : files'[f].dir = files[f].dir
    BY <1>0, <2>1, <2>3, <2>4 DEF Tables
  <2>8. Dirs' = Dirs BY <1>1 DEF Dirs
  <2>9. Schema' BY <1>0, <1>1, <2>6, <2>7, <2>8 DEF Schema
  <2> QED BY <2>5, <2>9
<1> QED BY <1>3, <1>4

(* The DELETE leaves no directory whose parent it takes. *)
LEMMA BelowClosed ==
  ASSUME NEW d, NEW e \in Dirs, dirs[e].parent \in Below(d)
  PROVE  e \in Below(d)
<1>1. e \in DirIds /\ HasDir(e) BY RowThere DEF Dirs
<1>2. SUFFICES ASSUME NEW S \in SUBSET DirIds, d \in S,
                      \A x \in DirIds : HasDir(x) /\ dirs[x].parent \in S => x \in S
               PROVE  e \in S
  BY <1>1 DEF Below
<1>3. dirs[e].parent \in S BY <1>2 DEF Below
<1> QED BY <1>1, <1>2, <1>3

(* DELETE FROM directories, with its cascade *)
LEMMA DeleteDirRows ==
  ASSUME IInv, NEW w \in Workers, DeleteDir(w)
  PROVE  Tables' /\ Schema'
<1>0. Tables /\ Schema BY DEF IInv
<1> DEFINE gone == Below(req[w].dir)
<1>1. /\ dirs' = Without(dirs, gone) /\ files' = Without(files, FilesIn(gone))
      /\ UNCHANGED <<group, members, dcreated, fcreated, ended>>
  BY DEF DeleteDir
<1>2. gone \subseteq DirIds /\ \A e \in Dirs : dirs[e].parent \in gone => e \in gone
  BY BelowClosed DEF Below
<1> HIDE DEF gone
<1>3. \A f \in Files : files[f].dir \in gone => f \in FilesIn(gone)
  BY RowThere DEF FilesIn, Files
<1>4. /\ dirs' \in [DirIds -> DirRows \cup {NoRow}]
      /\ \A d \in DirIds : dirs'[d] = IF d \in gone THEN NoRow ELSE dirs[d]
  BY <1>0, <1>1 DEF Tables, Without
<1>5. /\ files' \in [FileIds -> FileRows \cup {NoRow}]
      /\ \A f \in FileIds : files'[f] = IF f \in FilesIn(gone) THEN NoRow ELSE files[f]
  BY <1>0, <1>1 DEF Tables, Without
<1>6. Tables' BY <1>0, <1>1, <1>4, <1>5 DEF Tables
<1>7. Dirs' = Dirs \ gone /\ \A d \in Dirs' : dirs'[d] = dirs[d]
  BY <1>4 DEF Dirs
<1>8. Files' = Files \ FilesIn(gone) /\ \A f \in Files' : files'[f] = files[f]
  BY <1>5 DEF Files
<1>9. \A d \in Dirs' : d <= dcreated' /\ group' /\ dirs'[d].parent \in {Root} \cup Dirs'
  BY <1>0, <1>1, <1>2, <1>7 DEF Schema
<1>10. \A f \in Files' : f <= fcreated' /\ group' /\ files'[f].dir \in {Root, Elsewhere} \cup Dirs'
  BY <1>0, <1>1, <1>3, <1>7, <1>8 DEF Schema
<1> QED BY <1>6, <1>9, <1>10 DEF Schema

(* DELETE FROM files *)
LEMMA DeleteFileRows ==
  ASSUME IInv, NEW w \in Workers, DeleteFile(w)
  PROVE  Tables' /\ Schema'
<1>0. Tables /\ Schema BY DEF IInv
<1>1. /\ files' = Without(files, {req[w].file})
      /\ UNCHANGED <<group, members, dirs, dcreated, fcreated, ended>>
  BY DEF DeleteFile
<1>2. /\ files' \in [FileIds -> FileRows \cup {NoRow}]
      /\ \A f \in FileIds : files'[f] = IF f \in {req[w].file} THEN NoRow ELSE files[f]
  BY <1>0, <1>1 DEF Tables, Without
<1>3. Tables' BY <1>0, <1>1, <1>2 DEF Tables
<1>4. Files' \subseteq Files /\ Dirs' = Dirs /\ \A f \in Files' : files'[f] = files[f]
  BY <1>1, <1>2 DEF Files, Dirs
<1> QED BY <1>0, <1>1, <1>3, <1>4 DEF Schema

(* The statements of module Groups. *)
LEMMA GroupRows ==
  ASSUME Tables, Schema, \/ \E u \in Users : Join(u) \/ Leave(u)
                         \/ DeleteGroup \/ \E f \in FileIds : DeleteElsewhere(f)
  PROVE  Tables' /\ Schema'
<1>1. ASSUME NEW u \in Users, Join(u) \/ Leave(u) PROVE Tables' /\ Schema'
  <2>1. members' \subseteq Users /\ UNCHANGED <<group, dirs, files, dcreated, fcreated, ended>>
    BY <1>1 DEF Join, Leave, Tables
  <2> QED BY <2>1 DEF Tables, Schema, Dirs, Files
<1>2. CASE DeleteGroup
  <2>1. /\ group' = FALSE /\ members' = {} /\ UNCHANGED <<dcreated, fcreated, ended>>
        /\ dirs' = Without(dirs, DirIds) /\ files' = Without(files, FileIds)
    BY <1>2 DEF DeleteGroup
  <2>2. dirs' \in [DirIds -> DirRows \cup {NoRow}] /\ \A d \in DirIds : dirs'[d] = NoRow
    BY <2>1 DEF Tables, Without
  <2>3. files' \in [FileIds -> FileRows \cup {NoRow}] /\ \A f \in FileIds : files'[f] = NoRow
    BY <2>1 DEF Tables, Without
  <2>4. Tables' BY <2>1, <2>2, <2>3 DEF Tables
  <2>5. Dirs' = {} /\ Files' = {} BY <2>2, <2>3 DEF Dirs, Files
  <2> QED BY <2>4, <2>5 DEF Schema
<1>3. ASSUME NEW f \in FileIds, DeleteElsewhere(f) PROVE Tables' /\ Schema'
  <2>1. UNCHANGED <<group, members, dirs, dcreated, fcreated, ended>> /\ files' = Without(files, {f})
    BY <1>3 DEF DeleteElsewhere
  <2>2. /\ files' \in [FileIds -> FileRows \cup {NoRow}]
        /\ \A g \in FileIds : files'[g] # NoRow => files'[g] = files[g]
    BY <2>1 DEF Tables, Without
  <2>3. Tables' BY <2>1, <2>2 DEF Tables
  <2>4. Dirs' = Dirs /\ \A g \in Files' : g \in Files /\ files'[g] = files[g]
    BY <2>1, <2>2 DEF Dirs, Files
  <2> QED BY <2>1, <2>3, <2>4 DEF Schema
<1> QED BY <1>1, <1>2, <1>3

-----------------------------------------------------------------------------
(* The invariant.                                                          *)

(* A handler's statement. *)
LEMMA HandlerStep ==
  ASSUME IInv, Observe, NEW w \in Workers, Handler(w)
  PROVE  Own(w) /\ Tables' /\ Schema'
<1>0. Fitting /\ Tables /\ Schema /\ ended \in Endings BY DEF IInv, Tables
<1>1. ASSUME UNCHANGED db, ended' \in Endings PROVE Tables' /\ Schema'
  BY <1>0, <1>1, RowsKept
<1>2. CASE FindGroup(w)
  <2>1. UNCHANGED db /\ ended' \in Endings BY <1>0, <1>2 DEF FindGroup, Crash, End, Endings
  <2> QED BY <1>1, <1>2, <2>1, FindGroupOwn
<1>3. CASE IsMember(w)
  <2>1. UNCHANGED db /\ ended' \in Endings BY <1>0, <1>3, OwnPrinted DEF IsMember
  <2> QED BY <1>1, <1>3, <2>1, IsMemberOwn
<1>4. CASE SendAnswer(w)
  <2>1. UNCHANGED db /\ ended' \in Endings /\ Answer(w) BY <1>0, <1>4 DEF SendAnswer
  <2> QED BY <1>0, <1>1, <2>1, OwnAnswer
<1>5. CASE FindDir(w)
  <2>1. UNCHANGED db /\ ended' \in Endings BY <1>0, <1>5 DEF FindDir, Crash, End, Endings
  <2> QED BY <1>1, <1>5, <2>1, FindDirOwn
<1>6. CASE HasDirectory(w)
  <2>1. UNCHANGED db /\ ended' \in Endings BY <1>0, <1>6, OwnPrinted DEF HasDirectory
  <2> QED BY <1>1, <1>6, <2>1, HasDirectoryOwn
<1>7. CASE Inherit(w)
  <2>1. UNCHANGED db /\ ended' \in Endings BY <1>0, <1>7 DEF Inherit
  <2> QED BY <1>1, <1>7, <2>1, InheritOwn
<1>8. CASE InsertDir(w) BY <1>8, InsertDirOwn, InsertDirRows
<1>9. CASE FreeDir(w)
  <2>1. UNCHANGED db /\ ended' \in Endings /\ (Answer(w) \/ Crash) BY <1>0, <1>9 DEF FreeDir, Crash, End, Endings
  <2> QED BY <1>0, <1>1, <2>1, OwnAnswer, OwnCrash
<1>10. CASE UpdateDir(w)
  <2>1. Answer(w) BY <1>10 DEF UpdateDir
  <2> QED BY <1>0, <1>10, <2>1, OwnAnswer, UpdateDirRows
<1>11. CASE DeleteDir(w)
  <2>1. Answer(w) BY <1>11 DEF DeleteDir
  <2> QED BY <1>0, <1>11, <2>1, OwnAnswer, DeleteDirRows
<1>12. CASE FindFile(w)
  <2>1. UNCHANGED db /\ ended' \in Endings BY <1>0, <1>12 DEF FindFile
  <2> QED BY <1>1, <1>12, <2>1, FindFileOwn
<1>13. CASE InsertFile(w)
  <2>1. AnswerPrinted(w) BY <1>13 DEF InsertFile
  <2> QED BY <1>0, <1>13, <2>1, OwnPrinted, InsertFileRows
<1>14. CASE UpdateFile(w)
  <2>1. Answer(w) BY <1>14 DEF UpdateFile, WriteFile
  <2> QED BY <1>0, <1>14, <2>1, OwnAnswer, UpdateFileRows
<1>15. CASE DeleteFile(w)
  <2>1. Answer(w) BY <1>15 DEF DeleteFile
  <2> QED BY <1>0, <1>15, <2>1, OwnAnswer, DeleteFileRows
<1>16. CASE ListDirs(w)
  <2>1. UNCHANGED db /\ ended' \in Endings BY <1>0, <1>16 DEF ListDirs, ListRows
  <2> QED BY <1>1, <1>16, <2>1, ListDirsOwn
<1>17. CASE ListFiles(w)
  <2>1. UNCHANGED db /\ ended' \in Endings BY <1>0, <1>17 DEF ListFiles, ListRows
  <2> QED BY <1>1, <1>17, <2>1, ListFilesOwn
<1>18. CASE ListUsers(w)
  <2>1. UNCHANGED db /\ ended' \in Endings BY <1>0, <1>18 DEF ListUsers, ListRows
  <2> QED BY <1>1, <1>18, <2>1, ListUsersOwn
<1>19. CASE ListGroups(w)
  <2>1. UNCHANGED db /\ ended' \in Endings BY <1>0, <1>19 DEF ListGroups
  <2> QED BY <1>1, <1>19, <2>1, ListGroupsOwn
<1> QED BY <1>2, <1>3, <1>4, <1>5, <1>6, <1>7, <1>8, <1>9, <1>10, <1>11, <1>12, <1>13, <1>14,
           <1>15, <1>16, <1>17, <1>18, <1>19 DEF Handler

(* What a step leaves of the requests that are not its own. *)
LEMMA RequestsKept ==
  ASSUME IInv, Observe, NEW v \in Workers, SameFor(v) \/ AllEnd
  PROVE  (v \notin disturbed' => AsRead(v)') /\ Listing(v)'
<1>1. CASE SameFor(v)
  BY <1>1, OthersRead, OthersList DEF IInv, Listings
<1>2. CASE AllEnd
  <2>1. pc'[v] = "idle" BY <1>2 DEF AllEnd
  <2> QED BY <2>1, AfterTheEnd
<1> QED BY <1>1, <1>2

(* Every step keeps the invariant. *)
LEMMA NextStep ==
  ASSUME IInv, Next
  PROVE  IInv'
<1>1. Observe BY DEF Next
<1>2. disturbed' \subseteq Workers BY <1>1 DEF Observe
<1>3. ASSUME NEW w \in Workers, Handler(w) PROVE IInv'
  <2>1. Own(w) /\ Tables' /\ Schema' BY <1>1, <1>3, HandlerStep
  <2>2. \A v \in Workers : (v \notin disturbed' => AsRead(v)') /\ Listing(v)'
    BY <1>1, <2>1, RequestsKept DEF Own, OthersKept
  <2> QED BY <1>2, <2>1, <2>2 DEF IInv, Own, Undisturbed, Listings
<1>4. ASSUME \/ \E u \in Users : Join(u) \/ Leave(u)
             \/ DeleteGroup \/ \E f \in FileIds : DeleteElsewhere(f)
      PROVE  IInv'
  <2>1. Tables' /\ Schema' BY <1>4, GroupRows DEF IInv
  <2>2. pc' = pc /\ req' = req BY <1>4 DEF Join, Leave, DeleteGroup, DeleteElsewhere
  <2>3. Fitting' BY <2>2 DEF IInv, Fitting
  <2>4. \A v \in Workers : (v \notin disturbed' => AsRead(v)') /\ Listing(v)'
    BY <1>1, <2>2, RequestsKept DEF SameFor
  <2> QED BY <1>2, <2>1, <2>3, <2>4 DEF IInv, Undisturbed, Listings
<1> QED BY <1>3, <1>4 DEF Next

(* The tables begin empty, and no request is under way. *)
LEMMA InitIInv == Init => IInv
<1> SUFFICES ASSUME Init PROVE IInv OBVIOUS
<1>1. Tables
  BY BoundsAssumption DEF Init, Tables, Endings, Users, GroupOwner
<1>2. Schema BY DEF Init, Schema, Dirs, Files
<1>3. Fitting BY NoReqFits DEF Init, Fitting
<1>4. Undisturbed /\ Listings BY DEF Init, Undisturbed, AsRead, Listings, Listing
<1> QED BY <1>1, <1>2, <1>3, <1>4 DEF IInv

(* A step that changes nothing keeps the invariant. *)
LEMMA StutterStep == IInv /\ UNCHANGED vars => IInv'
BY DEF IInv, vars, Tables, Schema, Dirs, Files, Fitting, Undisturbed, AsRead, Listings, Listing,
       ToCome, AllListed, HasDir, DirRow, HasFile, FileRow, Entries

(* The invariant holds throughout. *)
LEMMA Invariance == Spec => []IInv
<1>1. IInv /\ [Next]_vars => IInv' BY NextStep, StutterStep
<1> QED BY <1>1, InitIInv, PTL DEF Spec

-----------------------------------------------------------------------------
(* The theorems.                                                           *)

(* Every variable holds what the code can put there; the schema keeps no   *)
(* row whose group or directory is gone, for any users and bounds.         *)
THEOREM TypesOfSharing == Spec => []TypeOK
<1>1. ASSUME IInv PROVE TypeOK
  <2>1. \A d \in DirIds : HasDir(d) =>
          dirs[d] \in DirRows /\ CanInsert(dirs[d].parent)
    <3>1. SUFFICES ASSUME NEW d \in DirIds, HasDir(d)
                   PROVE  dirs[d] \in DirRows /\ CanInsert(dirs[d].parent)
      OBVIOUS
    <3>2. d \in Dirs BY <3>1, RowThere
    <3>3. group /\ dirs[d].parent \in {Root} \cup Dirs BY <1>1, <3>2 DEF IInv, Schema
    <3>4. dirs[d] \in DirRows BY <1>1, <3>2 DEF IInv, Tables, Dirs
    <3> QED BY <3>3, <3>4, RowThere DEF CanInsert
  <2>2. \A f \in FileIds : HasFile(f) =>
          files[f] \in FileRows /\ CanInsert(files[f].dir)
    <3>1. SUFFICES ASSUME NEW f \in FileIds, HasFile(f)
                   PROVE  files[f] \in FileRows /\ CanInsert(files[f].dir)
      OBVIOUS
    <3>2. f \in Files BY <3>1, RowThere
    <3>3. group /\ files[f].dir \in {Root, Elsewhere} \cup Dirs BY <1>1, <3>2 DEF IInv, Schema
    <3>4. files[f] \in FileRows BY <1>1, <3>2 DEF IInv, Tables, Files
    <3> QED BY <3>3, <3>4, RowThere DEF CanInsert
  <2> QED BY <1>1, <2>1, <2>2 DEF IInv, Tables, Fitting, Undisturbed, Endings, TypeOK
<1> QED BY <1>1, Invariance, PTL

(* A listing shows everything that was there from the request to the       *)
(* answer, and nothing that was never there meanwhile.                     *)
THEOREM ListsShowWhatStays == Spec => []ListsWhatStays
<1>1. IInv => ListsWhatStays BY DEF IInv, Listings, Listing, ListsWhatStays
<1> QED BY <1>1, Invariance, PTL

(* What the writes do to a file's row that stays. *)
LEMMA FileWrites ==
  ASSUME IInv, Next, NEW f \in FileIds, f \in Files, f \in Files', files'[f] # files[f]
  PROVE  \E w \in Workers : /\ pc[w] = "updateFile" /\ req[w].file = f
                            /\ files'[f].perm = req[w].perm \/ w \in disturbed
<1>0. /\ Fitting /\ Tables /\ Schema /\ Undisturbed /\ files \in [FileIds -> FileRows \cup {NoRow}]
  BY DEF IInv, Tables
<1>1. PICK w \in Workers : Handler(w)
  <2>1. CASE \E u \in Users : Join(u) \/ Leave(u)
    BY <2>1 DEF Join, Leave
  <2>2. CASE DeleteGroup
    BY <1>0, <2>2 DEF DeleteGroup, Without, Files
  <2>3. CASE \E g \in FileIds : DeleteElsewhere(g)
    BY <1>0, <2>3 DEF DeleteElsewhere, Without, Files
  <2> QED BY <2>1, <2>2, <2>3 DEF Next
<1>2. files' # files OBVIOUS
<1>3. CASE DeleteDir(w) BY <1>0, <1>3 DEF DeleteDir, Without, Files
<1>4. CASE DeleteFile(w) BY <1>0, <1>4 DEF DeleteFile, Without, Files
<1>5. CASE InsertFile(w)
  <2>1. PICK row : files' = [files EXCEPT ![fcreated + 1] = row]
    BY <1>2, <1>5 DEF InsertFile
  <2>2. f <= fcreated /\ fcreated \in Nat /\ f \in Nat
    BY <1>0, BoundsAssumption DEF Schema, Tables, FileIds
  <2>3. f # fcreated + 1 BY <2>2
  <2> QED BY <1>0, <2>1, <2>3
<1>6. CASE UpdateFile(w)
  <2> DEFINE r == req[w]
             perm == IF r.perm # NotGiven THEN r.perm ELSE r.row.perm
  <2>1. /\ pc[w] = "updateFile"
        /\ files' = IF HasFile(r.file) THEN [files EXCEPT ![r.file].perm = perm] ELSE files
    BY <1>6 DEF UpdateFile, WriteFile, At
  <2>2. HasFile(r.file) BY <1>2, <2>1
  <2>3. r.file \in FileIds /\ FileRow(r.file) = files[r.file]
    BY <2>2 DEF HasFile, FileRow
  <2>4. files[r.file] \in FileRows BY <1>0, <2>2, <2>3 DEF HasFile
  <2>5. r.file = f BY <1>0, <2>1, <2>2, <2>3
  <2>6. files'[f] = [files[f] EXCEPT !.perm = perm] BY <1>0, <2>1, <2>2, <2>3, <2>5
  <2>7. files'[f].perm = perm BY <2>4, <2>5, <2>6 DEF FileRows
  <2>8. CASE r.perm # NotGiven BY <2>1, <2>5, <2>7, <2>8
  <2>9. ASSUME r.perm = NotGiven, w \notin disturbed PROVE FALSE
    <3>1. AsRead(w) /\ r.kind = "updateFile"
      BY <1>0, <2>1, <2>9 DEF Undisturbed, Fitting, Fits
    <3>2. files[f].perm = perm
      BY <2>1, <2>3, <2>5, <2>9, <3>1 DEF AsRead
    <3>3. files'[f] = files[f]
      BY <2>4, <2>5, <2>6, <3>2 DEF FileRows
    <3> QED BY <3>3
  <2> QED BY <2>1, <2>5, <2>8, <2>9
<1>7. CASE UNCHANGED files BY <1>2, <1>7
<1>8. DeleteDir(w) \/ DeleteFile(w) \/ InsertFile(w) \/ UpdateFile(w) \/ UNCHANGED files
  BY <1>1 DEF Handler, FindGroup, IsMember, SendAnswer, FindDir, HasDirectory, Inherit, InsertDir,
              FreeDir, UpdateDir, FindFile, ListDirs, ListFiles, ListUsers, ListRows, ListGroups, db
<1> QED BY <1>3, <1>4, <1>5, <1>6, <1>7, <1>8

(* What the writes do to a directory's row that stays. *)
LEMMA DirWrites ==
  ASSUME IInv, Next, NEW d \in DirIds, d \in Dirs, d \in Dirs', dirs'[d] # dirs[d]
  PROVE  \E w \in Workers : /\ pc[w] = "updateDir" /\ req[w].dir = d
                            /\ dirs'[d].perm = req[w].perm
<1>0. Tables /\ Schema /\ dirs \in [DirIds -> DirRows \cup {NoRow}]
  BY DEF IInv, Tables
<1>1. PICK w \in Workers : Handler(w)
  <2>1. CASE \E u \in Users : Join(u) \/ Leave(u)
    BY <2>1 DEF Join, Leave
  <2>2. CASE DeleteGroup
    BY <1>0, <2>2 DEF DeleteGroup, Without, Dirs
  <2>3. CASE \E g \in FileIds : DeleteElsewhere(g)
    BY <1>0, <2>3 DEF DeleteElsewhere, Without, Dirs
  <2> QED BY <2>1, <2>2, <2>3 DEF Next
<1>2. dirs' # dirs OBVIOUS
<1>3. CASE DeleteDir(w) BY <1>0, <1>3 DEF DeleteDir, Without, Dirs
<1>4. CASE InsertDir(w)
  <2>1. PICK row : dirs' = [dirs EXCEPT ![dcreated + 1] = row]
    BY <1>2, <1>4 DEF InsertDir
  <2>2. d <= dcreated /\ dcreated \in Nat /\ d \in Nat
    BY <1>0, BoundsAssumption DEF Schema, Tables, DirIds
  <2>3. d # dcreated + 1 BY <2>2
  <2> QED BY <1>0, <2>1, <2>3
<1>5. CASE UpdateDir(w)
  <2> DEFINE r == req[w]
  <2>1. /\ pc[w] = "updateDir"
        /\ dirs' = IF HasDir(r.dir) THEN [dirs EXCEPT ![r.dir].perm = r.perm] ELSE dirs
    BY <1>5 DEF UpdateDir, At
  <2>2. HasDir(r.dir) BY <1>2, <2>1
  <2>3. r.dir \in DirIds /\ r.dir \in Dirs BY <2>2, RowThere DEF Dirs
  <2>4. dirs[r.dir] \in DirRows BY <1>0, <2>3 DEF Dirs
  <2>5. r.dir = d BY <1>0, <2>1, <2>2, <2>3
  <2>6. dirs'[d] = [dirs[d] EXCEPT !.perm = r.perm] BY <1>0, <2>1, <2>2, <2>3, <2>5
  <2>7. dirs'[d].perm = r.perm BY <2>4, <2>5, <2>6 DEF DirRows
  <2> QED BY <2>1, <2>5, <2>7
<1>6. CASE UNCHANGED dirs BY <1>2, <1>6
<1>7. DeleteDir(w) \/ InsertDir(w) \/ UpdateDir(w) \/ UNCHANGED dirs
  BY <1>1 DEF Handler, FindGroup, IsMember, SendAnswer, FindDir, HasDirectory, Inherit, InsertFile,
              FreeDir, UpdateFile, WriteFile, DeleteFile, FindFile, ListDirs, ListFiles, ListUsers,
              ListRows, ListGroups, db
<1> QED BY <1>3, <1>4, <1>5, <1>6, <1>7

(* The permission of a row changes only to what some request asks for, and *)
(* a new row has the permission of the directory above it, unless somebody *)
(* wrote under the request.                                                *)
THEOREM UpdatesAreKept == Spec => NoLostUpdates
<1> DEFINE
  OfFiles == \A f \in FileIds : HasFile(f) /\ HasFile(f)' /\ files[f]' # files[f] =>
               \E w \in Workers :
                 /\ pc[w] = "updateFile" /\ req[w].file = f
                 /\ files[f].perm' = req[w].perm \/ w \in disturbed
  OfDirs == \A d \in DirIds : HasDir(d) /\ HasDir(d)' /\ dirs[d]' # dirs[d] =>
              \E w \in Workers :
                pc[w] = "updateDir" /\ req[w].dir = d /\ dirs[d].perm' = req[w].perm
  OfNew == \A w \in Workers \ disturbed : \A d \in DirIds :
             pc[w] = "insert" /\ req[w].dir = d /\ HasDir(d) => req[w].perm = dirs[d].perm
<1>1. ASSUME IInv, Next PROVE OfFiles /\ OfDirs /\ OfNew
  <2>1. ASSUME NEW f \in FileIds PROVE (HasFile(f) <=> f \in Files) /\ (HasFile(f)' <=> f \in Files')
    BY <2>1 DEF HasFile, FileRow, Files
  <2>2. ASSUME NEW d \in DirIds PROVE (HasDir(d) <=> d \in Dirs) /\ (HasDir(d)' <=> d \in Dirs')
    BY <2>2 DEF HasDir, DirRow, Dirs
  <2>3. ASSUME NEW f \in FileIds, HasFile(f), HasFile(f)', files[f]' # files[f]
        PROVE  \E w \in Workers : /\ pc[w] = "updateFile" /\ req[w].file = f
                                  /\ files'[f].perm = req[w].perm \/ w \in disturbed
    BY <1>1, <2>1, <2>3, FileWrites
  <2>4. ASSUME NEW d \in DirIds, HasDir(d), HasDir(d)', dirs[d]' # dirs[d]
        PROVE  \E w \in Workers : /\ pc[w] = "updateDir" /\ req[w].dir = d
                                  /\ dirs'[d].perm = req[w].perm
    BY <1>1, <2>2, <2>4, DirWrites
  <2>5. OfNew BY <1>1 DEF IInv, Undisturbed, AsRead, DirRow
  <2> QED BY <2>3, <2>4, <2>5
<1>2. IInv /\ [Next]_vars => [OfFiles /\ OfDirs /\ OfNew]_vars BY <1>1
<1> QED BY <1>2, Invariance, PTL DEF Spec, NoLostUpdates

(* A request is led to a pointer that is NULL or was never set only where  *)
(* it frees a new directory, where create_file does not find its directory *)
(* and goes on with it, or when the group is deleted while somebody looks  *)
(* at one of its directories.                                              *)
THEOREM EndsHaveCauses == Spec => CrashHasCause
<1> DEFINE Nowhere(w) == \/ pc[w] = "free"
                         \/ pc[w] = "findDir" /\ req[w].kind = "createFile" /\ ~HasDir(req[w].dir)
                         \/ /\ pc[w] = "group" /\ req[w].kind \in {"directoryInfo", "directoryChildren"}
                            /\ w \in disturbed
           Caused == up /\ ended' = "pointer" => \E w \in Workers : Nowhere(w)
<1>1. ASSUME IInv, Next PROVE Caused
  <2>0. Fitting /\ Undisturbed BY <1>1 DEF IInv
  <2>1. ASSUME up, ended' = "pointer" PROVE \E w \in Workers : Handler(w) /\ ended' # ended
    BY <1>1, <2>1 DEF Next, Join, Leave, DeleteGroup, DeleteElsewhere, up
  <2>2. ASSUME NEW w \in Workers, Handler(w), ended' # ended, ended' = "pointer" PROVE Nowhere(w)
    <3>1. FreeDir(w) \/ FindDir(w) \/ FindGroup(w)
      BY <2>2 DEF Handler, IsMember, SendAnswer, HasDirectory, Inherit, InsertDir, InsertFile,
           UpdateDir, DeleteDir, FindFile, UpdateFile, WriteFile, DeleteFile, ListDirs, ListFiles,
           ListUsers, ListRows, ListGroups, AnswerPrinted, Overrun, End
    <3>2. CASE FreeDir(w) BY <3>2 DEF FreeDir, At
    <3>3. CASE FindDir(w)
      <4>1. PICK r \in Now(w, "findDir") : ~HasDir(r.dir) /\ r.kind = "createFile"
        BY <2>2, <3>3 DEF FindDir
      <4>2. pc[w] = "findDir" /\ r = req[w] BY <2>0, <4>1, NowFits, ArrivalsFit
      <4> QED BY <4>1, <4>2
    <3>4. CASE FindGroup(w)
      <4>1. PICK r \in Now(w, "group") : ~group /\ r.kind \in {"directoryInfo", "directoryChildren"}
        BY <2>2, <3>4 DEF FindGroup
      <4>2. pc[w] = "group" /\ r = req[w] BY <2>0, <4>1, NowFits, ArrivalsFit
      <4>3. w \in disturbed BY <2>0, <4>1, <4>2 DEF Undisturbed, AsRead
      <4> QED BY <4>1, <4>2, <4>3
    <3> QED BY <3>1, <3>2, <3>3, <3>4
  <2> HIDE DEF Nowhere
  <2> QED BY <2>1, <2>2
<1>2. IInv /\ [Next]_vars => [Caused]_vars BY <1>1
<1> QED BY <1>2, Invariance, PTL DEF Spec, CrashHasCause
=============================================================================
