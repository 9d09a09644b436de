------------------------------- MODULE Sharing -------------------------------
(***************************************************************************)
(* The rows of one group as the handlers of directory_controller.c,        *)
(* file_controller.c and group_controller.c read and write them, one SQL   *)
(* statement a step: permissions, who may do what, listings, and what      *)
(* becomes of a row between two statements of a request.  Names,           *)
(* paths and the disk are module Storage's, the group's own row and folder *)
(* module Groups'.  save_file lets a file of this group have a directory   *)
(* of another, Elsewhere, of which nothing more is modelled; nor are files *)
(* of other groups that have a directory of this one.                      *)
(*                                                                         *)
(* A name or path that is longer than the handler's buffer runs over it:   *)
(* what follows is undefined, and here the process ends. Rows that are     *)
(* printed later are taken to fit, since they were printed when they came. *)
(* A statement fails only where a constraint makes it.                     *)
(*                                                                         *)
(* All workers share one connection.  sqlite3_step is called row by row,   *)
(* so other statements run between two rows of a SELECT; one with an       *)
(* ORDER BY that no index gives has read them all at its first row.        *)
(***************************************************************************)
EXTENDS Naturals, FiniteSets

CONSTANTS
  Workers,
  MaxUsers,             \* bound: users; they are numbered, as in the database
  MaxDirs, MaxFiles,    \* bounds: rows ever inserted into directories and files
  NoRow

READ  == 1
WRITE == 2
Perms == {READ, WRITE}
NotGiven == 0           \* a parameter the request does not name

ASSUME BoundsAssumption ==
  MaxUsers \in Nat \ {0} /\ MaxDirs \in Nat /\ MaxFiles \in Nat

Users   == 1..MaxUsers
GroupOwner == 1         \* groups.owner_id
DirIds  == 1..MaxDirs
FileIds == 1..MaxFiles
Root    == 0            \* a NULL parent_id or directory_id
Elsewhere == MaxDirs + 1    \* a directory_id of another group

DirRows  == [parent : {Root} \cup DirIds, perm : Perms, owner : Users]
FileRows == [dir : {Root, Elsewhere} \cup DirIds, perm : Perms, owner : Users]

ASSUME RowAssumption == NoRow \notin DirRows \cup FileRows

VARIABLES
  group,                \* the group's row is there
  members,              \* table group_members
  dirs, files,          \* tables directories and files: id -> row, or NoRow
  dcreated, fcreated,   \* their AUTOINCREMENT counters
  ended,                \* "no", or what has ended the process
  pc, req,              \* each worker: next statement, and the handler's locals
  disturbed,            \* ghost: workers whose request another one has written under
  stayed, since         \* ghost: what was there throughout, and at some time, of a
                        \* listing that is under way

db     == <<group, members, dirs, files, dcreated, fcreated>>
ghosts == <<disturbed, stayed, since>>
vars   == <<group, members, dirs, files, dcreated, fcreated, ended, pc, req, disturbed,
            stayed, since>>

Labels == {"idle", "group", "member", "findDir", "hasDir", "inherit", "insert", "free",
           "updateDir", "deleteDir", "updateFile", "deleteFile", "dir", "file", "user",
           "answer"}

(* perm is the permission a write will carry, row what a handler keeps of  *)
(* the file it found.                                                      *)
NoReq == [kind |-> "none", user |-> 0, dir |-> Root, file |-> 0,
          perm |-> NotGiven, row |-> NoRow, list |-> {}]

Init ==
  /\ group = TRUE /\ members = {GroupOwner}
  /\ dirs = [d \in DirIds |-> NoRow] /\ files = [f \in FileIds |-> NoRow]
  /\ dcreated = 0 /\ fcreated = 0
  /\ ended = "no"
  /\ pc = [w \in Workers |-> "idle"] /\ req = [w \in Workers |-> NoReq]
  /\ disturbed = {}
  /\ stayed = [w \in Workers |-> {}] /\ since = [w \in Workers |-> {}]

up == ended = "no"     \* the process runs
At(w, label) == up /\ pc[w] = label
Goto(w, label) == pc' = [pc EXCEPT ![w] = label]

(* What no later statement looks at is dropped: fewer states to check.     *)
Kept(r, label) ==
  [r EXCEPT !.user = IF label \in {"free", "updateDir", "deleteDir", "updateFile",
                                   "deleteFile", "dir", "user"}
                      \/ (label = "hasDir" /\ r.kind = "createFile") THEN 0 ELSE @,
            !.perm = IF label = "free" THEN NotGiven ELSE @,
            !.dir  = IF label = "free" THEN Root ELSE @,
            !.row  = IF label = "deleteFile" THEN NoRow ELSE @]
Continue(w, r, label) == Goto(w, label) /\ req' = [req EXCEPT ![w] = Kept(r, label)]

(* The handler returns its answer; the worker is free for another request. *)
Answer(w) == Goto(w, "idle") /\ req' = [req EXCEPT ![w] = NoReq]

Proceed(w, r, label) == IF label = "answered" THEN Answer(w) ELSE Continue(w, r, label)

(* The process ends, and every worker with it: a pointer is used that is   *)
(* NULL or was never set, or a text runs over its buffer.                  *)
End(cause) ==
  /\ ended' = cause
  /\ pc' = [w \in Workers |-> "idle"] /\ req' = [w \in Workers |-> NoReq]

Crash   == End("pointer")
Overrun == End("overrun")

(* The answer; create_file and save_file have printed a name or path of    *)
(* any length before.                                                      *)
AnswerPrinted(w) ==
  \/ Answer(w) /\ UNCHANGED ended
  \/ req[w].kind \in {"createFile", "saveFile"} /\ Overrun

DirRow(d) == IF d \in DirIds THEN dirs[d] ELSE NoRow
FileRow(f) == IF f \in FileIds THEN files[f] ELSE NoRow
HasDir(d) == DirRow(d) # NoRow
HasFile(f) == FileRow(f) # NoRow

(* What a listing lists: nodes below a directory, or users, or the group.  *)
Entries(r) ==
  CASE r.kind \in {"directoryChildren", "groupTree"} ->
         {<<"dir", d>> : d \in {d \in DirIds : HasDir(d) /\ dirs[d].parent = r.dir}}
         \cup {<<"file", f>> : f \in {f \in FileIds : HasFile(f) /\ files[f].dir = r.dir}}
    [] r.kind = "groupMembers" -> {<<"user", u>> : u \in members}
    [] r.kind = "myGroups" -> IF r.user \in members THEN {<<"group", 1>>} ELSE {}
    [] OTHER -> {}

(* The row that a request has read and still builds on.                    *)
Found(w) ==
  LET r == req[w] IN
  CASE pc[w] = "insert" -> DirRow(r.dir)
    [] pc[w] = "group" /\ r.kind \in {"directoryInfo", "directoryChildren"} -> <<group>>
    [] pc[w] \in {"group", "member", "updateFile"} /\ r.kind = "updateFile" -> FileRow(r.file)
    [] OTHER -> NoRow
(* The ghosts follow what each step does to the rows of the requests that  *)
(* are under way.                                                          *)
Observe ==
  LET running == {w \in Workers : pc'[w] # "idle"}
      begins(w) == pc[w] = "idle"
  IN /\ disturbed' = {w \in running : ~begins(w) /\
                        (w \in disturbed \/ (pc'[w] = pc[w] /\ Found(w)' # Found(w)))}
     /\ stayed' = [w \in Workers |->
          IF w \notin running THEN {}
          ELSE IF begins(w) THEN Entries(req[w])' ELSE stayed[w] \cap Entries(req[w])']
     /\ since' = [w \in Workers |->
          IF w \notin running THEN {}
          ELSE IF begins(w) THEN Entries(req[w])' ELSE since[w] \cup Entries(req[w])']

-----------------------------------------------------------------------------
(* The requests that may arrive whose first statement is label.  The user  *)
(* is the one get_user_from_request found, and ids may be of rows that are *)
(* gone, or not there yet.                                                 *)

Ask(kind, ds, fs, ps) ==
  [kind : {kind}, user : Users, dir : ds, file : fs, perm : ps,
   row : {NoRow}, list : {{}}]

Arriving(label) ==
  CASE label = "group" ->
         Ask("makeDirectory", {Root} \cup DirIds, {0}, {NotGiven})
         \cup Ask("createFile", {Root} \cup DirIds, {0}, {NotGiven})
         \cup Ask("groupTree", {Root}, {0}, {NotGiven})
         \cup Ask("groupMembers", {Root}, {0}, {NotGiven})
    [] label = "findDir" ->
         Ask("updateDirectory", DirIds, {0}, Perms)
         \cup Ask("deleteDirectory", DirIds, {0}, {NotGiven})
         \cup Ask("directoryInfo", DirIds, {0}, {NotGiven})
         \cup Ask("directoryChildren", DirIds, {0}, {NotGiven})
    [] label = "findFile" ->
         Ask("updateFile", {Root}, FileIds, Perms \cup {NotGiven})
         \cup Ask("getFile", {Root}, FileIds, {NotGiven})
         \cup Ask("deleteFile", {Root}, FileIds, {NotGiven})
    [] label = "inherit" -> Ask("saveFile", {Root, Elsewhere} \cup DirIds, {0}, {NotGiven})
    [] label = "groups" -> Ask("myGroups", {Root}, {0}, {NotGiven})
    [] OTHER -> {}

(* The requests whose statement label a worker may send: the one it        *)
(* serves, or, if it serves none, one that arrives.                        *)
Now(w, label) ==
  CASE up /\ pc[w] = label  -> {req[w]}
    [] up /\ pc[w] = "idle" -> Arriving(label)
    [] OTHER -> {}

-----------------------------------------------------------------------------
(* group_find_by_id and group_find_by_code.  directory->get_group is not   *)
(* looked at: is_member of no group ends the process.                      *)

AfterGroup(r) ==
  CASE r.kind = "makeDirectory" /\ r.dir # Root -> "hasDir"
    [] r.kind = "groupMembers" -> "user"
    [] r.kind = "deleteFile" -> "deleteFile"
    [] OTHER -> "member"

AllowedBeforeMember(r) ==
  CASE r.kind = "groupMembers" -> r.user = GroupOwner
    [] r.kind = "deleteFile" -> r.user \in {r.row.owner, GroupOwner}
    [] OTHER -> TRUE

FindGroup(w) ==
  \E r \in Now(w, "group") :
    /\ \/ group /\ AllowedBeforeMember(r) /\ Continue(w, r, AfterGroup(r)) /\ UNCHANGED ended
       \/ group /\ ~AllowedBeforeMember(r) /\ Answer(w) /\ UNCHANGED ended
       \/ ~group /\ IF r.kind \in {"directoryInfo", "directoryChildren"}
                    THEN Crash
                    ELSE Answer(w) /\ UNCHANGED ended
    /\ UNCHANGED db

(* group_is_member; a file may also be updated by its owner and the        *)
(* group's who are no members, if it is WRITE.                             *)
AfterMember(r) ==
  CASE r.kind = "makeDirectory" -> "inherit"
    [] r.kind = "createFile" /\ r.dir # Root -> "findDir"
    [] r.kind \in {"groupTree", "directoryChildren"} -> "dir"
    [] r.kind = "updateFile" -> "updateFile"
    [] OTHER -> "answered"

IsMember(w) ==
  LET r == req[w]
      may == \/ r.user \in members
             \/ r.kind = "updateFile" /\ r.row.perm = WRITE /\ r.user \in {r.row.owner, GroupOwner}
  IN
  /\ At(w, "member")
  /\ \/ may /\ AfterMember(r) # "answered" /\ Continue(w, r, AfterMember(r)) /\ UNCHANGED ended
     \/ may /\ AfterMember(r) = "answered" /\ AnswerPrinted(w)
     \/ ~may /\ Answer(w) /\ UNCHANGED ended
  /\ UNCHANGED db

-----------------------------------------------------------------------------
(* Directories. *)

(* directory_find_by_id, and what is asked of the row before the next      *)
(* statement.                                                              *)
AfterFindDir(r) ==
  CASE r.kind = "updateDirectory" /\ DirRow(r.dir).owner = r.user -> "updateDir"
    [] r.kind = "deleteDirectory" /\ DirRow(r.dir).owner = r.user -> "deleteDir"
    [] r.kind \in {"directoryInfo", "directoryChildren"} -> "group"
    [] r.kind = "createFile" -> "hasDir"
    [] OTHER -> "answered"

(* What create_file lets a user do in a directory. *)
MayDo(row, user) == IF user \in {row.owner, GroupOwner} THEN WRITE ELSE row.perm

(* Seeded fault: a row that is not there is used. *)
FindDirUnchecked(w) ==
  \E r \in Now(w, "findDir") :
    /\ \/ HasDir(r.dir) /\ Proceed(w, r, AfterFindDir(r)) /\ UNCHANGED ended
       \/ ~HasDir(r.dir) /\ Crash
    /\ UNCHANGED db

(* create_file frees the directory it has not found. *)
FindDir(w) ==
  \E r \in Now(w, "findDir") :
    /\ \/ /\ HasDir(r.dir) /\ UNCHANGED ended
          /\ Proceed(w, IF r.kind = "createFile"
                        THEN [r EXCEPT !.perm = MayDo(DirRow(r.dir), r.user)] ELSE r,
                     AfterFindDir(r))
       \/ ~HasDir(r.dir) /\ r.kind # "createFile" /\ Answer(w) /\ UNCHANGED ended
       \/ ~HasDir(r.dir) /\ r.kind = "createFile" /\ Crash
    /\ UNCHANGED db

(* group_has_directory.  create_file prints the path of the new file, if   *)
(* the directory may be written as it was found.                           *)
HasDirectory(w) ==
  LET r == req[w] IN
  /\ At(w, "hasDir")
  /\ \/ ~HasDir(r.dir) /\ Answer(w) /\ UNCHANGED ended
     \/ HasDir(r.dir) /\ r.kind = "makeDirectory" /\ Continue(w, r, "member") /\ UNCHANGED ended
     \/ HasDir(r.dir) /\ r.kind = "createFile" /\ r.perm = READ /\ Answer(w) /\ UNCHANGED ended
     \/ HasDir(r.dir) /\ r.kind = "createFile" /\ r.perm = WRITE /\ AnswerPrinted(w)
  /\ UNCHANGED db

(* directory_save and file_save take the permission of the directory above *)
(* as they read it, which save_file lets be another group's; READ if there *)
(* is none.                                                                *)
Inherit(w) ==
  \E r \in Now(w, "inherit") :
    /\ IF r.kind = "makeDirectory" /\ (IF r.dir = Root THEN ~group ELSE ~HasDir(r.dir))
       THEN Continue(w, r, "free")
       ELSE \E perm \in IF r.dir = Elsewhere THEN Perms
                      ELSE {IF HasDir(r.dir) THEN DirRow(r.dir).perm ELSE READ} :
              Continue(w, [r EXCEPT !.perm = perm], "insert")
    /\ UNCHANGED <<db, ended>>

(* The group and the directory above must be there: of which group the     *)
(* directory is, nobody asks.                                              *)
CanInsert(dir) == group /\ (dir \in {Root, Elsewhere} \/ HasDir(dir))

InsertDir(w) ==
  LET r == req[w] IN
  /\ At(w, "insert") /\ r.kind = "makeDirectory"
  /\ \/ /\ CanInsert(r.dir) /\ dcreated < MaxDirs
        /\ dcreated' = dcreated + 1
        /\ dirs' = [dirs EXCEPT ![dcreated + 1] =
                      [parent |-> r.dir, perm |-> r.perm, owner |-> r.user]]
     \/ UNCHANGED <<dirs, dcreated>>            \* mkdir or the INSERT fails
  /\ Overrun \/ (Continue(w, r, "free") /\ UNCHANGED ended)
  /\ UNCHANGED <<group, members, files, fcreated>>

(* The new directory is printed and freed, with timestamps that directory_ *)
(* new has not set.                                                        *)
FreeDir(w) ==
  /\ At(w, "free")
  /\ Crash \/ (Answer(w) /\ UNCHANGED ended)
  /\ UNCHANGED db

UpdateDir(w) ==
  LET r == req[w] IN
  /\ At(w, "updateDir")
  /\ dirs' = IF HasDir(r.dir) THEN [dirs EXCEPT ![r.dir].perm = r.perm] ELSE dirs
  /\ Answer(w)
  /\ UNCHANGED <<group, members, files, dcreated, fcreated, ended>>

(* ON DELETE CASCADE: the directories below, and the files in them all.    *)
Below(d) ==
  {e \in DirIds : \A S \in SUBSET DirIds :
     /\ d \in S
     /\ \A x \in DirIds : HasDir(x) /\ dirs[x].parent \in S => x \in S
     => e \in S}

(* Seeded fault: files have no ON DELETE CASCADE. *)
NoFiles(ds) == {}

FilesIn(ds) == {f \in FileIds : HasFile(f) /\ files[f].dir \in ds}
Without(rows, ids) == [i \in DOMAIN rows |-> IF i \in ids THEN NoRow ELSE rows[i]]

DeleteDir(w) ==
  LET gone == Below(req[w].dir) IN
  /\ At(w, "deleteDir")
  /\ dirs' = Without(dirs, gone)
  /\ files' = Without(files, FilesIn(gone))
  /\ Answer(w)
  /\ UNCHANGED <<group, members, dcreated, fcreated, ended>>

-----------------------------------------------------------------------------
(* Files. *)

FindFile(w) ==
  \E r \in Now(w, "findFile") :
    /\ IF HasFile(r.file)
       THEN LET file == FileRow(r.file)
                row == CASE r.kind = "getFile"    -> NoRow
                         [] r.kind = "deleteFile" -> [owner |-> file.owner]
                         [] r.kind = "updateFile" -> [owner |-> file.owner, perm |-> file.perm]
            IN Continue(w, [r EXCEPT !.row = row], "group")
       ELSE Answer(w)
    /\ UNCHANGED <<db, ended>>

(* save_file prints the path before and the name after, and returns only   *)
(* now; directory_save too prints the path before it inserts.              *)
InsertFile(w) ==
  LET r == req[w] IN
  /\ At(w, "insert") /\ r.kind = "saveFile"
  /\ \/ /\ CanInsert(r.dir) /\ fcreated < MaxFiles
        /\ fcreated' = fcreated + 1
        /\ files' = [files EXCEPT ![fcreated + 1] =
                       [dir |-> r.dir, perm |-> r.perm, owner |-> r.user]]
     \/ UNCHANGED <<files, fcreated>>           \* the name is in use
  /\ AnswerPrinted(w)
  /\ UNCHANGED <<group, members, dirs, dcreated>>

WriteFile(w, perm) ==
  LET r == req[w] IN
  /\ At(w, "updateFile")
  /\ files' = IF HasFile(r.file) THEN [files EXCEPT ![r.file].perm = perm] ELSE files
  /\ Answer(w)
  /\ UNCHANGED <<group, members, dirs, dcreated, fcreated, ended>>

(* Seeded fault: a permission that is not given is READ. *)
UpdateFileAll(w) == WriteFile(w, IF req[w].perm # NotGiven THEN req[w].perm ELSE READ)

(* A request that names the size alone writes the permission back as it    *)
(* was read.  Size and modified_by are written with it, and left out here. *)
UpdateFile(w) == WriteFile(w, IF req[w].perm # NotGiven THEN req[w].perm ELSE req[w].row.perm)

DeleteFile(w) ==
  /\ At(w, "deleteFile")
  /\ files' = Without(files, {req[w].file})
  /\ Answer(w)
  /\ UNCHANGED <<group, members, dirs, dcreated, fcreated, ended>>

-----------------------------------------------------------------------------
(* Listings. *)

Rest(r, tag) ==
  {i \in 1..MaxUsers + MaxDirs + MaxFiles :
     <<tag, i>> \in Entries(r) /\ \A e \in r.list : e[1] = tag => e[2] < i}

(* Seeded fault: rows are fetched by their number, not by their key.       *)
NextRowByNumber(r, tag) ==
  LET seen == Cardinality({e \in r.list : e[1] = tag})
      rows == {i \in 1..MaxUsers + MaxDirs + MaxFiles : <<tag, i>> \in Entries(r)}
  IN {i \in rows : Cardinality({j \in rows : j < i}) = seen}

(* The row a SELECT comes to next, in the order of the ids, or all that    *)
(* one with ORDER BY has sorted.                                           *)
NextRows(r, tag) ==
  IF r.kind = "directoryChildren" THEN Rest(r, tag)
  ELSE {i \in Rest(r, tag) : \A j \in Rest(r, tag) : i <= j}

ListRows(w, tag, after) ==
  LET rows == NextRows(req[w], tag) IN
  /\ At(w, tag)
  /\ req' = [req EXCEPT ![w].list = @ \cup {<<tag, i>> : i \in rows}]
  /\ IF rows = {} \/ req[w].kind = "directoryChildren" THEN Goto(w, after) ELSE UNCHANGED pc
  /\ UNCHANGED <<db, ended>>

ListDirs(w)  == ListRows(w, "dir", "file")
ListFiles(w) == ListRows(w, "file", "answer")
ListUsers(w) == ListRows(w, "user", "answer")

(* group_find_by_member: there is only this group to find. *)
ListGroups(w) ==
  \E r \in Now(w, "groups") :
    /\ Goto(w, "answer")
    /\ req' = [req EXCEPT ![w] = [r EXCEPT !.list = Entries(r)]]
    /\ UNCHANGED <<db, ended>>

SendAnswer(w) ==
  /\ At(w, "answer")
  /\ Answer(w)
  /\ UNCHANGED <<db, ended>>

-----------------------------------------------------------------------------
(* The statements by which requests of module Groups change these rows.    *)

Join(u) ==
  /\ up /\ group /\ u \notin members
  /\ members' = members \cup {u}
  /\ UNCHANGED <<group, dirs, files, dcreated, fcreated, ended, pc, req>>

Leave(u) ==
  /\ up /\ u \in members
  /\ members' = members \ {u}
  /\ UNCHANGED <<group, dirs, files, dcreated, fcreated, ended, pc, req>>

DeleteGroup ==
  /\ up /\ group
  /\ group' = FALSE /\ members' = {}
  /\ dirs' = Without(dirs, DirIds)
  /\ files' = Without(files, FileIds)
  /\ UNCHANGED <<dcreated, fcreated, ended, pc, req>>

(* Another group's directory is deleted. *)
DeleteElsewhere(f) ==
  /\ up /\ HasFile(f) /\ files[f].dir = Elsewhere
  /\ files' = Without(files, {f})
  /\ UNCHANGED <<group, members, dirs, dcreated, fcreated, ended, pc, req>>

-----------------------------------------------------------------------------
Handler(w) ==
  \/ FindGroup(w) \/ IsMember(w) \/ SendAnswer(w)
  \/ FindDir(w) \/ HasDirectory(w) \/ Inherit(w) \/ InsertDir(w) \/ FreeDir(w)
  \/ UpdateDir(w) \/ DeleteDir(w)
  \/ FindFile(w) \/ InsertFile(w) \/ UpdateFile(w) \/ DeleteFile(w)
  \/ ListDirs(w) \/ ListFiles(w) \/ ListUsers(w) \/ ListGroups(w)

Next ==
  /\ \/ \E w \in Workers : Handler(w)
     \/ \E u \in Users : Join(u) \/ Leave(u)
     \/ DeleteGroup \/ \E f \in FileIds : DeleteElsewhere(f)
  /\ Observe

Spec == Init /\ [][Next]_vars

-----------------------------------------------------------------------------
(* Every variable holds what the code can put there; the schema keeps no   *)
(* row whose group or directory is gone.                                   *)
TypeOK ==
  /\ group \in BOOLEAN /\ members \subseteq Users
  /\ \A d \in DirIds : HasDir(d) => dirs[d] \in DirRows /\ CanInsert(dirs[d].parent)
  /\ \A f \in FileIds : HasFile(f) => files[f] \in FileRows /\ CanInsert(files[f].dir)
  /\ dcreated \in 0..MaxDirs /\ fcreated \in 0..MaxFiles
  /\ ended \in {"no", "pointer", "overrun"}
  /\ pc \in [Workers -> Labels]
  /\ disturbed \subseteq Workers

(* A listing shows everything that was there from the request to the       *)
(* answer, and nothing that was never there meanwhile, whatever is made,   *)
(* deleted, joined or left between its statements and between their rows.  *)
ListsWhatStays ==
  \A w \in Workers : pc[w] = "answer" /\ Entries(req[w]) \cup req[w].list # {} =>
    stayed[w] \subseteq req[w].list /\ req[w].list \subseteq since[w]

(* The permission of a row changes only to what some request asks for,     *)
(* and a new row has the permission of the directory above it:             *)
(* an update is undone, or an old permission inherited, only by a request  *)
(* under which somebody wrote between its statements.                      *)
NoLostUpdates ==
  [][/\ \A f \in FileIds : HasFile(f) /\ HasFile(f)' /\ files[f]' # files[f] =>
          \E w \in Workers :
            /\ pc[w] = "updateFile" /\ req[w].file = f
            /\ files[f].perm' = req[w].perm \/ w \in disturbed
     /\ \A d \in DirIds : HasDir(d) /\ HasDir(d)' /\ dirs[d]' # dirs[d] =>
          \E w \in Workers :
            pc[w] = "updateDir" /\ req[w].dir = d /\ dirs[d].perm' = req[w].perm
     /\ \A w \in Workers \ disturbed : \A d \in DirIds :
          pc[w] = "insert" /\ req[w].dir = d /\ HasDir(d) => req[w].perm = dirs[d].perm]_vars

(* A request is led to a pointer that is NULL or was never set only where  *)
(* it frees a new directory, where create_file does not find its directory *)
(* and goes on with it, or when the group is deleted while somebody looks  *)
(* at one of its directories: whatever else is deleted under a request     *)
(* makes it fail with an answer.  (Texts that run over their buffers are   *)
(* another matter: they need no other request.)                            *)
CrashHasCause ==
  [][up /\ ended' = "pointer" => \E w \in Workers :
       \/ pc[w] = "free"
       \/ pc[w] = "findDir" /\ req[w].kind = "createFile" /\ ~HasDir(req[w].dir)
       \/ /\ pc[w] = "group" /\ req[w].kind \in {"directoryInfo", "directoryChildren"}
          /\ w \in disturbed]_vars
=============================================================================
