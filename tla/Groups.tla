------------------------------- MODULE Groups -------------------------------
(***************************************************************************)
(* Groups and their members: the handlers of                               *)
(* http/controller/group_controller.c over model/group.c.  A group is a    *)
(* row of table groups, the rows of group_members that name it, and the    *)
(* folder UPLOAD_DIR/<code>.  Requests run on several workers that share   *)
(* one SQLite connection; every SQL statement commits on its own, so a     *)
(* handler is a sequence of steps between which other handlers run.        *)
(*                                                                         *)
(* A group's code is random and unique: its id stands for it.  The user of *)
(* a request is the one get_user_from_request found (module Accounts).     *)
(*                                                                         *)
(* A call on the file system may fail whatever the state is: no space, no  *)
(* permission, no descriptor, UPLOAD_DIR gone.  So may a SQL statement,    *)
(* which also fails on the constraints of the schema.                      *)
(***************************************************************************)
EXTENDS Naturals

CONSTANTS
  Workers,              \* threads that serve requests
  Users,
  Names,                \* group names; the column is UNIQUE
  NoUser, NoName,
  MaxGroups,            \* bound: rows ever inserted into groups
  MaxMembers,           \* bound: rows ever inserted into group_members
  MaxOther              \* bound: rows inserted by handlers of other modules

ASSUME NullAssumption == NoUser \notin Users /\ NoName \notin Names
ASSUME BoundsAssumption == MaxGroups \in Nat /\ MaxMembers \in Nat /\ MaxOther \in Nat

Ids  == 1..MaxGroups
NoId == 0

VARIABLES
  name, owner,          \* table groups: id -> name, owner_id; NoName when there is no row
  members,              \* table group_members: pairs of group id and user
  created, joined,      \* AUTOINCREMENT counters of the two tables
  others,               \* rows inserted by other handlers
  lastRowid,            \* sqlite3_last_insert_rowid of the shared connection
  folders,              \* folders on disk, by the code in their name
  left,                 \* ghost: groups of which a sweep or a statement that failed
                        \* left the folder or the row
  known,                \* codes some client has been able to read
  up,                   \* the process runs
  pc, user, gid, arg,   \* each worker: next step, its user, its group, its argument
  mine,                 \* ghost: the row this request inserted
  raced                 \* ghost: some request read another INSERT's rowid

rows == <<name, owner, members, created, joined, others, lastRowid>>
disk == <<folders, left>>
vars == <<name, owner, members, created, joined, others, lastRowid, folders, left, known, up,
          pc, user, gid, arg, mine, raced>>

Labels == {"idle", "insert", "rowid", "code", "mkdir", "insertOwner", "undo",
           "find", "delete", "rmdir", "update", "isMember", "join", "leave",
           "kickFind", "done"}

Asked == {"delete", "join", "leave", "keep"} \cup Names \cup Users
Args  == {"none"} \cup Asked

Init ==
  /\ name = [g \in Ids |-> NoName] /\ owner = [g \in Ids |-> NoUser]
  /\ members = {}
  /\ created = 0 /\ joined = 0 /\ others = 0 /\ lastRowid = 0
  /\ folders = {} /\ left = {} /\ known = {} /\ up = TRUE
  /\ pc = [w \in Workers |-> "idle"]
  /\ user = [w \in Workers |-> NoUser]
  /\ gid = [w \in Workers |-> NoId]
  /\ arg = [w \in Workers |-> "none"]
  /\ mine = [w \in Workers |-> NoId]
  /\ raced = FALSE

At(w, label) == up /\ pc[w] = label
Goto(w, label) == pc' = [pc EXCEPT ![w] = label]
HasRow(g) == g \in Ids /\ name[g] # NoName
Taken(n) == \E g \in Ids : name[g] = n

(* DELETE FROM groups WHERE id = g, with ON DELETE CASCADE. *)
DeleteRow(g) ==
  /\ name' = [h \in Ids |-> IF h = g THEN NoName ELSE name[h]]
  /\ owner' = [h \in Ids |-> IF h = g THEN NoUser ELSE owner[h]]
  /\ members' = {m \in members : m[1] # g}

(* INSERT INTO group_members: the group must exist and the pair be new. *)
CanInsertMember(g, u) == HasRow(g) /\ <<g, u>> \notin members
InsertMember(g, u) ==
  /\ joined < MaxMembers
  /\ members' = members \cup {<<g, u>>}
  /\ joined' = joined + 1
  /\ lastRowid' = joined + 1

-----------------------------------------------------------------------------
(* A request arrives. *)

Request(w, label, u, g, a) ==
  /\ At(w, "idle")
  /\ Goto(w, label)
  /\ user' = [user EXCEPT ![w] = u]
  /\ gid' = [gid EXCEPT ![w] = g]
  /\ arg' = [arg EXCEPT ![w] = a]
  /\ UNCHANGED <<rows, disk, known, up, mine, raced>>

Create(w) == \E u \in Users, n \in Names : Request(w, "insert", u, NoId, n)

(* /group/update, /delete, /join, /leave and /kick name a group by its     *)
(* code; arg is what is asked for: a new name, or none; whom to kick.      *)
Ask(w) ==
  \E u \in Users, g \in known, a \in Asked :
    Request(w, "find", u, g, a)

(* The connection is closed; the handler's locals are gone. *)
Close(w) ==
  /\ At(w, "done")
  /\ Goto(w, "idle")
  /\ user' = [user EXCEPT ![w] = NoUser]
  /\ gid' = [gid EXCEPT ![w] = NoId]
  /\ arg' = [arg EXCEPT ![w] = "none"]
  /\ mine' = [mine EXCEPT ![w] = NoId]
  /\ UNCHANGED <<rows, disk, known, up, raced>>

-----------------------------------------------------------------------------
(* create_group and group_save. *)

InsertGroup(w) ==
  /\ At(w, "insert")
  /\ \/ Goto(w, "done") /\ UNCHANGED <<name, owner, created, lastRowid, mine>>
     \/ /\ ~Taken(arg[w]) /\ created < MaxGroups
        /\ created' = created + 1
        /\ name' = [name EXCEPT ![created + 1] = arg[w]]
        /\ owner' = [owner EXCEPT ![created + 1] = user[w]]
        /\ lastRowid' = created + 1
        /\ mine' = [mine EXCEPT ![w] = created + 1]
        /\ Goto(w, "rowid")
  /\ UNCHANGED <<members, joined, others, disk, known, up, user, gid, arg, raced>>

ReadRowid(w) ==
  /\ At(w, "rowid")
  /\ gid' = [gid EXCEPT ![w] = lastRowid]
  /\ raced' = (raced \/ lastRowid # mine[w])
  /\ Goto(w, "code")
  /\ UNCHANGED <<rows, disk, known, up, user, arg, mine>>

(* strdup of a code that no row returned ends the process; a SELECT that   *)
(* fails ends the creation, and nothing is rolled back.                    *)
SelectCode(w) ==
  /\ At(w, "code")
  /\ \/ HasRow(gid[w]) /\ Goto(w, "mkdir") /\ UNCHANGED <<up, left>>
     \/ ~HasRow(gid[w]) /\ up' = FALSE /\ UNCHANGED <<pc, left>>
     \/ Goto(w, "done") /\ left' = left \cup {gid[w]} /\ UNCHANGED up
  /\ UNCHANGED <<rows, folders, known, user, gid, arg, mine, raced>>

(* mkdir fails on a folder that exists, and may fail on any other.         *)
MakeFolder(w) ==
  /\ At(w, "mkdir")
  /\ \/ Goto(w, "undo") /\ UNCHANGED folders
     \/ /\ gid[w] \notin folders
        /\ Goto(w, "insertOwner") /\ folders' = folders \cup {gid[w]}
  /\ UNCHANGED <<rows, left, known, up, user, gid, arg, mine, raced>>

(* From here on /me/group shows the group's code to its members. The       *)
(* answer prints created_at, which nobody has set: the process may end.    *)
InsertOwner(w) ==
  /\ At(w, "insertOwner")
  /\ \/ /\ CanInsertMember(gid[w], user[w])
        /\ InsertMember(gid[w], user[w])
        /\ known' = known \cup {gid[w]}
        /\ up' \in BOOLEAN
        /\ Goto(w, "done")
        /\ UNCHANGED left
     \/ /\ left' = left \cup {gid[w]}
        /\ Goto(w, "undo") /\ UNCHANGED <<members, joined, lastRowid, known, up>>
  /\ UNCHANGED <<name, owner, created, others, folders, user, gid, arg, mine, raced>>

(* The rollback deletes the row, or tries to, for nobody asks; a folder    *)
(* that was made stays.                                                    *)
UndoCreate(w) ==
  /\ At(w, "undo")
  /\ \/ DeleteRow(gid[w]) /\ UNCHANGED left
     \/ left' = left \cup {gid[w]} /\ UNCHANGED <<name, owner, members>>
  /\ Goto(w, "done")
  /\ UNCHANGED <<created, joined, others, lastRowid, folders, known, up, user, gid, arg,
                 mine, raced>>

-----------------------------------------------------------------------------
(* The handlers that start from group_find_by_code. *)

(* Seeded fault: a delete is let through before the owner is asked for. *)
FindLabelAnyone(w) ==
  IF arg[w] \in {"join", "leave"} THEN "isMember"
  ELSE IF arg[w] = "delete" THEN "delete"
  ELSE IF owner[gid[w]] # user[w] THEN "done"
  ELSE IF arg[w] \in Users THEN "kickFind" ELSE "update"

FindLabel(w) ==
  IF arg[w] \in {"join", "leave"} THEN "isMember"
  ELSE IF owner[gid[w]] # user[w] THEN "done"
  ELSE IF arg[w] = "delete" THEN "delete"
  ELSE IF arg[w] \in Users THEN "kickFind" ELSE "update"

(* Seeded fault: a name that is not given is not replaced by the one read. *)
FindGroupNoName(w) ==
  /\ At(w, "find")
  /\ Goto(w, IF HasRow(gid[w]) THEN FindLabel(w) ELSE "done")
  /\ UNCHANGED <<rows, disk, known, up, user, gid, arg, mine, raced>>

(* An update that changes no name writes back the one it read. *)
FindGroup(w) ==
  /\ At(w, "find")
  /\ \/ /\ HasRow(gid[w])
        /\ Goto(w, FindLabel(w))
        /\ arg' = IF arg[w] = "keep" THEN [arg EXCEPT ![w] = name[gid[w]]] ELSE arg
     \/ Goto(w, "done") /\ UNCHANGED arg
  /\ UNCHANGED <<rows, disk, known, up, user, gid, mine, raced>>

DeleteGroup(w) ==
  /\ At(w, "delete")
  /\ \/ DeleteRow(gid[w]) /\ Goto(w, "rmdir")
     \/ UNCHANGED <<name, owner, members>> /\ Goto(w, "done")
  /\ UNCHANGED <<created, joined, others, lastRowid, disk, known, up, user, gid, arg,
                 mine, raced>>

(* Seeded fault: the group is looked up again before its folder goes. *)
RemoveFolderOfRow(w) ==
  /\ At(w, "rmdir")
  /\ folders' = IF HasRow(gid[w]) THEN folders \ {gid[w]} ELSE folders
  /\ Goto(w, "done")
  /\ UNCHANGED <<rows, left, known, up, user, gid, arg, mine, raced>>

(* remove_directory gives up, with the folder left, at the first entry it  *)
(* cannot open, stat or remove: one that another sweep or a file's removal *)
(* took from under its feet, a directory that got an entry meanwhile.      *)
RemoveFolder(w) ==
  /\ At(w, "rmdir")
  /\ \/ folders' = folders \ {gid[w]} /\ UNCHANGED left
     \/ left' = left \cup {gid[w]} /\ UNCHANGED folders
  /\ Goto(w, "done")
  /\ UNCHANGED <<rows, known, up, user, gid, arg, mine, raced>>

(* The UPDATE of a row that is gone changes nothing; one that would give   *)
(* two groups the same name fails.                                         *)
UpdateGroup(w) ==
  /\ At(w, "update")
  /\ \/ /\ HasRow(gid[w]) /\ ~ \E h \in Ids \ {gid[w]} : name[h] = arg[w]
        /\ name' = [name EXCEPT ![gid[w]] = arg[w]]
     \/ UNCHANGED name
  /\ Goto(w, "done")
  /\ UNCHANGED <<owner, members, created, joined, others, lastRowid, disk, known, up,
                 user, gid, arg, mine, raced>>

(* join_group goes on when the user is not a member, leave_group when he   *)
(* is, kick_member_group when the one to be kicked is. A SELECT that fails *)
(* answers -1, which the handlers take for a member.                       *)
IsMember(w) ==
  /\ At(w, "isMember")
  /\ \/ arg[w] = "join" /\ <<gid[w], user[w]>> \notin members /\ Goto(w, "join")
     \/ arg[w] = "join" /\ Goto(w, "done")
     \/ arg[w] = "leave" /\ Goto(w, "leave")
     \/ arg[w] = "leave" /\ <<gid[w], user[w]>> \notin members /\ Goto(w, "done")
  /\ UNCHANGED <<rows, disk, known, up, user, gid, arg, mine, raced>>

KickFind(w) ==
  /\ At(w, "kickFind")
  /\ \/ Goto(w, "leave")
     \/ <<gid[w], arg[w]>> \notin members /\ Goto(w, "done")
  /\ UNCHANGED <<rows, disk, known, up, user, gid, arg, mine, raced>>

JoinGroup(w) ==
  /\ At(w, "join")
  /\ \/ CanInsertMember(gid[w], user[w]) /\ InsertMember(gid[w], user[w])
     \/ UNCHANGED <<members, joined, lastRowid>>
  /\ Goto(w, "done")
  /\ UNCHANGED <<name, owner, created, others, disk, known, up, user, gid, arg, mine,
                 raced>>

(* group_leave, for the user himself or for the one the owner kicks. *)
LeaveGroup(w) ==
  /\ At(w, "leave")
  /\ \/ members' = members \ {<<gid[w], IF arg[w] = "leave" THEN user[w] ELSE arg[w]>>}
     \/ UNCHANGED members
  /\ Goto(w, "done")
  /\ UNCHANGED <<name, owner, created, joined, others, lastRowid, disk, known, up,
                 user, gid, arg, mine, raced>>

(* A login, a registration, a new directory or file: its INSERT leaves its *)
(* own rowid on the connection.                                            *)
OtherInsert ==
  /\ up /\ others < MaxOther
  /\ others' = others + 1
  /\ \E r \in Ids : lastRowid' = r
  /\ UNCHANGED <<name, owner, members, created, joined, disk, known, up, pc, user, gid,
                 arg, mine, raced>>

-----------------------------------------------------------------------------
Next ==
  \/ OtherInsert
  \/ \E w \in Workers :
       \/ Create(w) \/ Ask(w) \/ Close(w)
       \/ InsertGroup(w) \/ ReadRowid(w) \/ SelectCode(w) \/ MakeFolder(w)
       \/ InsertOwner(w) \/ UndoCreate(w)
       \/ FindGroup(w) \/ DeleteGroup(w) \/ RemoveFolder(w) \/ UpdateGroup(w)
       \/ IsMember(w) \/ KickFind(w) \/ JoinGroup(w) \/ LeaveGroup(w)

Spec == Init /\ [][Next]_vars

-----------------------------------------------------------------------------
(* Every variable holds what the code can put there. *)
TypeOK ==
  /\ name \in [Ids -> Names \cup {NoName}] /\ owner \in [Ids -> Users \cup {NoUser}]
  /\ members \subseteq Ids \X Users
  /\ created \in 0..MaxGroups /\ joined \in Nat /\ others \in Nat /\ lastRowid \in Nat
  /\ folders \subseteq Ids /\ left \subseteq Nat /\ known \subseteq Ids /\ up \in BOOLEAN
  /\ pc \in [Workers -> Labels]
  /\ user \in [Workers -> Users \cup {NoUser}]
  /\ gid \in [Workers -> Nat]
  /\ arg \in [Workers -> Args]
  /\ mine \in [Workers -> 0..MaxGroups]
  /\ raced \in BOOLEAN

Busy(g) ==
  \E w \in Workers : pc[w] \notin {"idle", "done"} /\ g \in {gid[w], mine[w]}

(* As long as no creation has read a rowid that another INSERT left on the *)
(* connection, none finds its code gone, and a group has a row exactly     *)
(* when it has a folder, except while a request works on it or when a      *)
(* sweep of its folder or a statement of its creation failed: creations,   *)
(* double deletions and rollbacks after a failed mkdir together leave      *)
(* nothing else behind.                                                    *)
CleanUnlessRaced ==
  ~raced =>
    /\ \A w \in Workers : pc[w] = "code" => HasRow(gid[w])
    /\ \A g \in Ids : ~Busy(g) => /\ (HasRow(g) => g \in folders \cup left)
                                /\ (g \in folders \ left => HasRow(g))

(* As long as no creation has read another INSERT's rowid, a group ends by *)
(* a delete of the user who owns it, or by the rollback of the very        *)
(* creation that made it, before any client could read its code: a         *)
(* rollback never hits a group that another request made, nor one that is  *)
(* in use.                                                                 *)
GroupsEndByOwner ==
  [][\A g \in Ids :
       HasRow(g) /\ ~HasRow(g)' =>
         \/ raced
         \/ \E w \in Workers : pc[w] = "delete" /\ gid[w] = g /\ user[w] = owner[g]
         \/ g \notin known /\ \E w \in Workers : pc[w] = "undo" /\ mine[w] = g]_vars
=============================================================================
