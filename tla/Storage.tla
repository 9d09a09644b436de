------------------------------- MODULE Storage -------------------------------
(***************************************************************************)
(* The directories and files of one group: the rows of tables directories  *)
(* and files (model/directory.c, model/file.c), the tree under             *)
(* UPLOAD_DIR/<code> they are meant to describe, and the handlers of       *)
(* http/controller/directory_controller.c and file_controller.c that       *)
(* change them.  A file's bytes come by TFTP, outside the handlers.        *)
(*                                                                         *)
(* A path is the sequence of its components; so is a name, which may have  *)
(* slashes in it.  A component is neither empty nor "." nor "..", so that  *)
(* two paths lead to two places, all in the group's folder.                *)
(*                                                                         *)
(* A step is one SQL statement or one operation on the disk; handlers on   *)
(* different workers interleave, and the process may end between any two   *)
(* steps, to be started again on what it has left.  All users are members  *)
(* of the group, and everything may be written; who may write what is in   *)
(* module Sharing.                                                         *)
(***************************************************************************)
EXTENDS Naturals, Sequences

CONSTANTS
  Workers,
  Users,
  Groups, GroupOwner,   \* the groups a file may be saved for, and groups.owner_id
  Names,                \* components of paths
  NoRow,
  MaxDirs, MaxFiles,    \* bounds: rows ever inserted into directories and files
  MaxDepth              \* bound: how deep directories nest

ASSUME GroupAssumption == GroupOwner \in [Groups -> Users]
ASSUME BoundsAssumption ==
  MaxDirs \in Nat /\ MaxFiles \in Nat /\ MaxDepth \in Nat \ {0}

DirIds  == 1..MaxDirs
FileIds == 1..MaxFiles
Root    == 0            \* a NULL parent_id or directory_id: the group's own folder
Elsewhere == MaxDirs + 1    \* the directory_id of a directory of another group

Paths(n) == UNION {[1..k -> Names] : k \in 0..n}
Texts == Paths(MaxDepth) \ {<<>>}     \* what a client names a directory
Spots == Paths(MaxDepth + 1)          \* where a client writes a file, or says it has

VARIABLES
  dirs,                 \* table directories: id -> row, or NoRow
  files,                \* table files: id -> row, or NoRow
  dcreated, fcreated,   \* their AUTOINCREMENT counters
  dirsOnDisk,           \* paths of directories; the group's folder is <<>>
  filesOnDisk,          \* paths of regular files
  pc, req,              \* each worker: next step, and the handler's locals
  stolen                \* ghost: paths taken from under a row, see Steal

disk == <<dirsOnDisk, filesOnDisk>>
db   == <<dirs, files, dcreated, fcreated>>
vars == <<dirs, files, dcreated, fcreated, dirsOnDisk, filesOnDisk, pc, req, stolen>>

Labels == {"idle", "mdMkdir", "mdInsert", "ddDelete", "ddSweep",
           "sfInsert", "sfUndo", "dfDelete", "dfUnlink"}

NoReq == [user |-> NoRow, group |-> NoRow, id |-> 0, dir |-> Root, name |-> <<>>, path |-> <<>>,
          stale |-> FALSE]

Init ==
  /\ dirs = [d \in DirIds |-> NoRow] /\ files = [f \in FileIds |-> NoRow]
  /\ dcreated = 0 /\ fcreated = 0
  /\ dirsOnDisk = {<<>>} /\ filesOnDisk = {}
  /\ pc = [w \in Workers |-> "idle"]
  /\ req = [w \in Workers |-> NoReq]
  /\ stolen = {}

At(w, label) == pc[w] = label
Goto(w, label) == pc' = [pc EXCEPT ![w] = label]

(* A worker takes a request, and goes on to label with what it has read.   *)
Begin(w, label, r) ==
  /\ At(w, "idle")
  /\ Goto(w, label)
  /\ req' = [req EXCEPT ![w] = r]

(* The handler returns its answer; the worker is free for another request. *)
Answer(w) == Goto(w, "idle") /\ req' = [req EXCEPT ![w] = NoReq]

(* The process ends, as it may where a path is copied into an array of     *)
(* fixed size or where make_directory frees and prints what it never set,  *)
(* and is started again.                                                   *)
Restart ==
  /\ pc' = [w \in Workers |-> "idle"]
  /\ req' = [w \in Workers |-> NoReq]
  /\ UNCHANGED <<db, disk, stolen>>

HasDir(d) == d \in DirIds /\ dirs[d] # NoRow
HasFile(f) == f \in FileIds /\ files[f] # NoRow
DirExists(d) == d \in {Root, Elsewhere} \/ HasDir(d)
PathOf(d) == IF d = Root THEN <<>> ELSE dirs[d].path

ParentPath(p) == SubSeq(p, 1, Len(p) - 1)
Under(p, q) == Len(p) > Len(q) /\ SubSeq(p, 1, Len(q)) = q      \* p lies below q
OnDisk(p) == p \in dirsOnDisk \cup filesOnDisk
AtOrBelow(p, q) == p = q \/ Under(p, q)
Empty(p) == \A q \in dirsOnDisk \cup filesOnDisk : ~Under(q, p)

(* Directories below p that are not below p by parent_id: their names, at  *)
(* the ends of their paths, begin above p.                                 *)
Reaches(name, path, p) == Under(path, p) /\ Len(path) - Len(name) < Len(p)
ReachInto(p) ==
  {dirs[d].path : d \in {e \in DirIds : HasDir(e) /\ Reaches(dirs[e].name, dirs[e].path, p)}}
  \cup {req[v].path : v \in {x \in Workers :
                              pc[x] = "mdInsert" /\ Reaches(req[x].name, req[x].path, p)}}

(* What is taken for a row that was gone before the request came to delete *)
(* it, or from a directory that was made after the row was deleted, or at  *)
(* or below a directory whose name reaches in there from above, is noted,  *)
(* so that the properties can say that rows lose their directories and     *)
(* files in no other way.                                                  *)
Steal(paths) == stolen' = stolen \cup paths

-----------------------------------------------------------------------------
(* make_directory and directory_save. *)

(* The path is the parent's and the name, which may have slashes in it.    *)
(* That group->has_directory has seen the parent's row before says nothing *)
(* more: a row that is there at the second look was there at the first.    *)
MakeParent(w) ==
  /\ \E u \in Users, d \in {Root} \cup DirIds, n \in Texts :
       /\ d = Root \/ HasDir(d)
       /\ Len(PathOf(d) \o n) <= MaxDepth
       /\ Begin(w, "mdMkdir", [NoReq EXCEPT !.user = u, !.dir = d, !.name = n,
                                            !.path = PathOf(d) \o n])
  /\ UNCHANGED <<db, disk, stolen>>

(* A sweep of p that is still to come is stale once p is made again. *)
SweepsStill(v, p) == pc[v] = "ddSweep" /\ req[v].path = p

(* Seeded fault: the result of mkdir is not looked at. *)
MakeMkdirUnchecked(w) ==
  LET p == req[w].path IN
  /\ At(w, "mdMkdir")
  /\ dirsOnDisk' = IF ParentPath(p) \in dirsOnDisk /\ ~OnDisk(p)
                   THEN dirsOnDisk \cup {p} ELSE dirsOnDisk
  /\ req' = [v \in Workers |-> [req[v] EXCEPT !.stale = @ \/ SweepsStill(v, p)]]
  /\ Goto(w, "mdInsert")
  /\ UNCHANGED <<db, filesOnDisk, stolen>>

(* mkdir fails when the path is there, or the one above is not, or for     *)
(* reasons of its own.                                                     *)
MakeMkdir(w) ==
  LET p == req[w].path IN
  /\ At(w, "mdMkdir")
  /\ \/ /\ ParentPath(p) \in dirsOnDisk /\ ~OnDisk(p)
        /\ dirsOnDisk' = dirsOnDisk \cup {p}
        /\ req' = [v \in Workers |-> [req[v] EXCEPT !.stale = @ \/ SweepsStill(v, p)]]
        /\ Goto(w, "mdInsert")
     \/ Answer(w) /\ UNCHANGED dirsOnDisk
  /\ UNCHANGED <<db, filesOnDisk, stolen>>

(* Seeded fault: two parameters of the INSERT are swapped. *)
MakeInsertSwapped(w) ==
  LET r == req[w] IN
  /\ At(w, "mdInsert")
  /\ dcreated < MaxDirs
  /\ dcreated' = dcreated + 1
  /\ dirs' = [dirs EXCEPT ![dcreated + 1] =
                [name |-> r.user, parent |-> r.dir, path |-> r.path, owner |-> r.name]]
  /\ Answer(w)
  /\ UNCHANGED <<files, fcreated, disk, stolen>>

(* The parent row must be there, and (name, parent_id) be new unless       *)
(* parent_id is NULL; and any statement may fail. The clean-up of a failed *)
(* INSERT names a path outside UPLOAD_DIR: the new directory stays.        *)
MakeInsert(w) ==
  LET r == req[w] IN
  /\ At(w, "mdInsert")
  /\ \/ /\ DirExists(r.dir)
        /\ r.dir = Root \/ \A e \in DirIds :
             dirs[e] # NoRow => ~(dirs[e].parent = r.dir /\ dirs[e].name = r.name)
        /\ dcreated < MaxDirs
        /\ dcreated' = dcreated + 1
        /\ dirs' = [dirs EXCEPT ![dcreated + 1] =
                      [name |-> r.name, parent |-> r.dir, path |-> r.path, owner |-> r.user]]
     \/ UNCHANGED <<dirs, dcreated>>
  /\ Answer(w)
  /\ UNCHANGED <<files, fcreated, disk, stolen>>

-----------------------------------------------------------------------------
(* delete_directory and directory_remove. *)

(* Seeded fault: the path to sweep is the one of the directory above. *)
DeleteDirFindAbove(w) ==
  /\ \E u \in Users, d \in DirIds :
       /\ HasDir(d) /\ dirs[d].owner = u
       /\ Begin(w, "ddDelete", [NoReq EXCEPT !.id = d, !.path = ParentPath(dirs[d].path)])
  /\ UNCHANGED <<db, disk, stolen>>

(* Only the owner may. *)
DeleteDirFind(w) ==
  /\ \E u \in Users, d \in DirIds :
       /\ HasDir(d) /\ dirs[d].owner = u
       /\ Begin(w, "ddDelete", [NoReq EXCEPT !.id = d, !.path = dirs[d].path])
  /\ UNCHANGED <<db, disk, stolen>>

(* ON DELETE CASCADE, along parent_id: the row and, with every row that     *)
(* goes, those it is the parent of; all that any set closed so must hold.  *)
(* (The statement may fail; then nothing goes.)                            *)
Cascade(d) ==
  {e \in DirIds : HasDir(e) /\ \A S \in SUBSET DirIds :
     d \in S /\ (\A x \in DirIds : HasDir(x) /\ dirs[x].parent \in S => x \in S) => e \in S}

(* Seeded fault: files have no ON DELETE CASCADE. *)
DeleteDirRowOnly(w) ==
  LET gone == Cascade(req[w].id) IN
  /\ At(w, "ddDelete")
  /\ dirs' = [e \in DirIds |-> IF e \in gone THEN NoRow ELSE dirs[e]]
  /\ req' = [req EXCEPT ![w] = [NoReq EXCEPT !.path = req[w].path, !.stale = ~HasDir(req[w].id)]]
  /\ Goto(w, "ddSweep")
  /\ UNCHANGED <<files, dcreated, fcreated, disk, stolen>>

DeleteDirRow(w) ==
  LET r == req[w]
      gone == Cascade(r.id) IN
  /\ At(w, "ddDelete")
  /\ \/ /\ dirs' = [e \in DirIds |-> IF e \in gone THEN NoRow ELSE dirs[e]]
        /\ files' = [f \in FileIds |->
                       IF HasFile(f) /\ files[f].dir \in gone THEN NoRow ELSE files[f]]
        /\ req' = [req EXCEPT ![w] = [NoReq EXCEPT !.path = r.path, !.stale = ~HasDir(r.id)]]
        /\ Goto(w, "ddSweep")
     \/ Answer(w) /\ UNCHANGED <<dirs, files>>
  /\ UNCHANGED <<dcreated, fcreated, disk, stolen>>

(* remove_directory takes everything below the path and then the directory *)
(* itself, if it can be opened as one; an entry that comes or goes under   *)
(* its feet stops it half way.                                             *)
DeleteDirSweep(w) ==
  LET p == req[w].path
      below == IF p \in dirsOnDisk
               THEN {q \in dirsOnDisk \cup filesOnDisk : Under(q, p) \/ q = p}
               ELSE {}
  IN /\ At(w, "ddSweep")
     /\ \E kept \in SUBSET below :
          /\ \A q \in kept : q = p \/ ParentPath(q) \in kept
          /\ dirsOnDisk' = dirsOnDisk \ (below \ kept)
          /\ filesOnDisk' = filesOnDisk \ (below \ kept)
          /\ Steal({q \in below \ kept :
                      req[w].stale \/ \E r \in ReachInto(p) : AtOrBelow(q, r)})
     /\ Answer(w)
     /\ UNCHANGED db

-----------------------------------------------------------------------------
(* The TFTP server writes a file that is not there yet, wherever its       *)
(* client says. (create_file only tells clients where.)                    *)
Upload ==
  \E p \in Spots \ {<<>>} :
    /\ ParentPath(p) \in dirsOnDisk
    /\ ~OnDisk(p)
    /\ filesOnDisk' = filesOnDisk \cup {p}
    /\ UNCHANGED <<db, dirsOnDisk, pc, req, stolen>>

(* Other groups and their directories go, with the rows of what was saved  *)
(* for them.                                                               *)
DeleteElsewhere ==
  \E f \in FileIds :
    /\ HasFile(f) /\ files[f].dir \in {Root, Elsewhere}
    /\ files' = [files EXCEPT ![f] = NoRow]
    /\ UNCHANGED <<dirs, dcreated, fcreated, disk, pc, req, stolen>>

-----------------------------------------------------------------------------
(* save_file and file_save. *)

(* Whatever the client says: the path need not be in the directory that it *)
(* names, nor the directory in the group, nor either be there; but the     *)
(* path must be on disk, as a file or as a directory.                      *)
SaveAccess(w) ==
  /\ \E u \in Users, g \in Groups, d \in {Root, Elsewhere} \cup DirIds, n \in Names,
        p \in Spots :
       /\ OnDisk(p)
       /\ Begin(w, "sfInsert", [NoReq EXCEPT !.user = u, !.group = g, !.dir = d,
                                             !.name = <<n>>, !.path = p])
  /\ UNCHANGED <<db, disk, stolen>>

(* The row of its directory must be there; (name, directory_id) is unique  *)
(* in a group, and so is the name in the group's folder. An INSERT may     *)
(* fail besides, as it does when the group is none.                        *)
SaveInsert(w) ==
  LET r == req[w] IN
  /\ At(w, "sfInsert")
  /\ \/ /\ DirExists(r.dir)
        /\ \A f \in FileIds : HasFile(f) =>
             ~(files[f].name = r.name /\ files[f].dir = r.dir /\ files[f].group = r.group)
        /\ fcreated < MaxFiles
        /\ fcreated' = fcreated + 1
        /\ files' = [files EXCEPT ![fcreated + 1] =
                       [name |-> r.name, dir |-> r.dir, group |-> r.group, path |-> r.path,
                        owner |-> r.user]]
        /\ Answer(w)
     \/ /\ Goto(w, "sfUndo")
        /\ req' = [req EXCEPT ![w] = [NoReq EXCEPT !.path = r.path]]
        /\ UNCHANGED <<files, fcreated>>
  /\ UNCHANGED <<dirs, dcreated, disk, stolen>>

(* remove(): a file, or a directory that is empty. *)
Remove(p) ==
  /\ filesOnDisk' = filesOnDisk \ {p}
  /\ dirsOnDisk' = IF Empty(p) THEN dirsOnDisk \ {p} ELSE dirsOnDisk
  /\ Steal(IF p \in dirsOnDisk THEN {p} ELSE {})

SaveUndo(w) ==
  /\ At(w, "sfUndo")
  /\ Remove(req[w].path)
  /\ Answer(w)
  /\ UNCHANGED db

-----------------------------------------------------------------------------
(* delete_file and file_remove. *)

(* Only the owner may, and the owner of the group. *)
DeleteFileFind(w) ==
  /\ \E u \in Users, f \in FileIds :
       /\ HasFile(f) /\ u \in {files[f].owner, GroupOwner[files[f].group]}
       /\ Begin(w, "dfDelete", [NoReq EXCEPT !.id = f, !.path = files[f].path])
  /\ UNCHANGED <<db, disk, stolen>>

DeleteFileRow(w) ==
  /\ At(w, "dfDelete")
  /\ \/ /\ files' = [files EXCEPT ![req[w].id] = NoRow]
        /\ req' = [req EXCEPT ![w] = [NoReq EXCEPT !.path = req[w].path]]
        /\ Goto(w, "dfUnlink")
     \/ Answer(w) /\ UNCHANGED files
  /\ UNCHANGED <<dirs, dcreated, fcreated, disk, stolen>>

DeleteFileUnlink(w) ==
  /\ At(w, "dfUnlink")
  /\ Remove(req[w].path)
  /\ Answer(w)
  /\ UNCHANGED db

-----------------------------------------------------------------------------
Next ==
  \/ Restart \/ Upload \/ DeleteElsewhere
  \/ \E w \in Workers :
       \/ MakeParent(w) \/ MakeMkdir(w) \/ MakeInsert(w)
       \/ DeleteDirFind(w) \/ DeleteDirRow(w) \/ DeleteDirSweep(w)
       \/ SaveAccess(w) \/ SaveInsert(w) \/ SaveUndo(w)
       \/ DeleteFileFind(w) \/ DeleteFileRow(w) \/ DeleteFileUnlink(w)

Spec == Init /\ [][Next]_vars

-----------------------------------------------------------------------------
DirRows  == [name : Texts, parent : {Root} \cup DirIds, path : Seq(Names), owner : Users]
FileRows == [name : Seq(Names), dir : {Root, Elsewhere} \cup DirIds, group : Groups,
             path : Seq(Names), owner : Users]

(* Every variable holds what the code can put there. *)
TypeOK ==
  /\ \A d \in DirIds : dirs[d] = NoRow \/ dirs[d] \in DirRows
  /\ \A f \in FileIds : files[f] = NoRow \/ files[f] \in FileRows
  /\ dcreated \in 0..MaxDirs /\ fcreated \in 0..MaxFiles
  /\ dirsOnDisk \subseteq Seq(Names) /\ filesOnDisk \subseteq Seq(Names)
  /\ pc \in [Workers -> Labels]
  /\ stolen \subseteq Seq(Names)

(* The rows form a tree whatever is deleted while other handlers insert:   *)
(* a row's parent is there, a directory's path is its parent's and its     *)
(* name, slashes and all, and the disk holds a tree too, where no path is  *)
(* both a file and a directory.  A file's path is what the client said.    *)
Trees ==
  /\ \A d \in DirIds : HasDir(d) =>
       /\ DirExists(dirs[d].parent)
       /\ dirs[d].path = PathOf(dirs[d].parent) \o dirs[d].name
  /\ \A f \in FileIds : HasFile(f) => DirExists(files[f].dir)
  /\ \A p \in dirsOnDisk \cup filesOnDisk : p = <<>> \/ ParentPath(p) \in dirsOnDisk
  /\ dirsOnDisk \cap filesOnDisk = {}

Taken(p, paths) == \E k \in 1..Len(p) : SubSeq(p, 1, k) \in paths

(* A directory's row always has its directory on disk, from the INSERT     *)
(* that follows the mkdir to the DELETE that precedes the sweep, unless    *)
(* the directory or one above it was once taken in one of three ways: by a *)
(* delete of the same directory that was already under way, by remove() of *)
(* a file's path, or, when its name or that of one above it has a slash,   *)
(* by the delete of a directory that the name reaches into.                *)
RowHasDirectory ==
  \A d \in DirIds : HasDir(d) => dirs[d].path \in dirsOnDisk \/ Taken(dirs[d].path, stolen)

(* The file is where its row says: in the directory it was saved for. *)
Filed(f) ==
  /\ files[f].dir # Elsewhere
  /\ files[f].path # <<>> /\ ParentPath(files[f].path) = PathOf(files[f].dir)

(* A file that lies in the directory of its row leaves the disk, while the *)
(* row stays, only by the remove() of a request about that very path: no   *)
(* deletion of a directory takes it, but one that comes after another      *)
(* deletion of the same directory, or of a directory that the name of one  *)
(* above the file reaches into.  (What was saved for another directory     *)
(* than it lies in goes with the one it lies in.)                          *)
FilesOutliveOthers ==
  [][\A f \in FileIds :
       /\ HasFile(f) /\ HasFile(f)' /\ Filed(f)
       /\ files[f].path \in filesOnDisk /\ files[f].path \notin filesOnDisk'
       => \/ \E w \in Workers : pc[w] \in {"sfUndo", "dfUnlink"} /\ req[w].path = files[f].path
          \/ Taken(files[f].path, stolen')]_vars
=============================================================================
