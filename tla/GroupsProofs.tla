---------------------------- MODULE GroupsProofs ----------------------------
(***************************************************************************)
(* Proofs about Groups for every set of workers, users and names and every *)
(* number of groups and members.                                           *)
(***************************************************************************)
EXTENDS Groups, TLAPS

Creating(w) == pc[w] \in {"rowid", "code", "mkdir", "insertOwner", "undo"}

(* The labels at which a request has found its group by a code it knew.    *)
Found == {"find", "delete", "rmdir", "update", "isMember", "join", "leave", "kickFind"}

(* What a request has in hand where it is.                                 *)
InHand ==
  \A w \in Workers :
    /\ pc[w] \notin {"idle", "done"} => user[w] \in Users
    /\ pc[w] \in {"insert", "update"} => arg[w] \in Names
    /\ pc[w] \in {"mkdir", "insertOwner"} => gid[w] \in 1..created
    /\ pc[w] = "find" => arg[w] \in Asked
    /\ pc[w] \in Found => gid[w] \in known

(* Ids are not used again: rows, codes and folders have ids that were made,*)
(* a group that is deleted has no row any more, and the owner a delete was *)
(* let through for is the owner as long as there is a row.                 *)
RowsOfGroups ==
  /\ \A g \in Ids : name[g] # NoName => g <= created
  /\ known \subseteq 1..created /\ folders \subseteq 1..created
  /\ \A m \in members : m[1] \in known
  /\ \A w \in Workers :
       /\ pc[w] = "rmdir" => ~HasRow(gid[w])
       /\ pc[w] = "delete" /\ HasRow(gid[w]) => owner[gid[w]] = user[w]

(* A creation that read its own rowid has its row to itself: nobody knows  *)
(* the code, no other creation has it, and there is a folder only when it  *)
(* was made. So a rollback, after a step that failed, is of its own row.   *)
Undisturbed ==
  \A w \in Workers : Creating(w) =>
    /\ HasRow(mine[w]) /\ mine[w] \notin known
    /\ pc[w] # "rowid" => gid[w] = mine[w]
    /\ pc[w] \in {"rowid", "code", "mkdir"} => mine[w] \notin folders
    /\ pc[w] = "insertOwner" => mine[w] \in folders
    /\ pc[w] = "undo" => mine[w] \notin folders \ left
    /\ \A v \in Workers \ {w} : Creating(v) => mine[v] # mine[w]

(* Row and folder of a group come and go together, up to what a request is *)
(* still to do and what a sweep or a statement that failed left.           *)
RowsAndFolders ==
  /\ \A g \in Ids : HasRow(g) =>
       \/ g \in folders \cup left
       \/ \E w \in Workers : pc[w] \in {"rowid", "code", "mkdir", "undo"} /\ mine[w] = g
  /\ \A g \in folders :
       HasRow(g) \/ g \in left \/ \E w \in Workers : pc[w] = "rmdir" /\ gid[w] = g

Inv == TypeOK /\ InHand /\ RowsOfGroups /\ (~raced => Undisturbed /\ RowsAndFolders)

-----------------------------------------------------------------------------
LEMMA InitInv == Init => Inv
<1> SUFFICES ASSUME Init PROVE Inv
  OBVIOUS
<1> USE NullAssumption, BoundsAssumption DEF Init, Ids, NoId
<1>1. TypeOK
  <2>1. name \in [Ids -> Names \cup {NoName}] /\ owner \in [Ids -> Users \cup {NoUser}]
    OBVIOUS
  <2>2. members \subseteq Ids \X Users
    OBVIOUS
  <2>3. pc \in [Workers -> Labels] /\ arg \in [Workers -> Args]
    BY DEF Labels, Args
  <2>4. mine \in [Workers -> 0..MaxGroups] /\ created \in 0..MaxGroups
    OBVIOUS
  <2>5. user \in [Workers -> Users \cup {NoUser}] /\ gid \in [Workers -> Nat]
    OBVIOUS
  <2> QED
    BY <2>1, <2>2, <2>3, <2>4, <2>5 DEF TypeOK
<1>2. InHand /\ RowsOfGroups
  BY DEF InHand, RowsOfGroups, Found, HasRow
<1>3. Undisturbed /\ RowsAndFolders
  BY DEF Undisturbed, RowsAndFolders, Creating, HasRow
<1> QED
  BY <1>1, <1>2, <1>3 DEF Inv

(* Every step keeps every variable typed. *)
LEMMA TypeStep == Inv /\ [Next]_vars => TypeOK'
<1> SUFFICES ASSUME Inv, [Next]_vars PROVE TypeOK'
  OBVIOUS
<1> USE NullAssumption, BoundsAssumption
    DEF Inv, TypeOK, InHand, RowsOfGroups, Found, Ids, NoId, Labels, Args, Asked, At, Goto, rows, disk
<1>1. ASSUME NEW w \in Workers, Create(w) \/ Ask(w) PROVE TypeOK'
  <2>1. CASE Create(w)
    BY <2>1 DEF Create, Request
  <2>2. CASE Ask(w)
    <3>1. PICK u \in Users, g \in known, a \in Asked : Request(w, "find", u, g, a)
      BY <2>2 DEF Ask
    <3> QED
      BY <3>1 DEF Request
  <2> QED
    BY <1>1, <2>1, <2>2
<1>2. ASSUME NEW w \in Workers, Close(w) PROVE TypeOK'
  BY <1>2 DEF Close
<1>3. ASSUME NEW w \in Workers, InsertGroup(w) PROVE TypeOK'
  <2>1. CASE name' = name /\ pc' = [pc EXCEPT ![w] = "done"]
    BY <1>3, <2>1 DEF InsertGroup
  <2>2. CASE created' = created + 1
    <3>6. pc[w] = "insert" /\ created < MaxGroups
      BY <1>3, <2>2 DEF InsertGroup
    <3>1. created + 1 \in Ids /\ created + 1 \in 0..MaxGroups /\ created + 1 \in Nat
      BY <3>6
    <3>7. arg[w] \in Names
      BY <3>6
    <3>8. user[w] \in Users
      BY <3>6
    <3>2. /\ created' = created + 1 /\ lastRowid' = created + 1
          /\ name' = [name EXCEPT ![created + 1] = arg[w]]
          /\ owner' = [owner EXCEPT ![created + 1] = user[w]]
          /\ mine' = [mine EXCEPT ![w] = created + 1]
          /\ pc' = [pc EXCEPT ![w] = "rowid"]
          /\ UNCHANGED <<members, joined, others, disk, known, up, user, gid, arg, raced>>
      BY <1>3, <2>2 DEF InsertGroup
    <3> QED
      BY <3>1, <3>2, <3>7, <3>8
  <2> QED
    BY <1>3, <2>1, <2>2 DEF InsertGroup
<1>4. ASSUME NEW w \in Workers, ReadRowid(w) \/ SelectCode(w) PROVE TypeOK'
  <2>1. CASE ReadRowid(w)
    <3>1. raced' \in BOOLEAN
      BY <2>1, Zenon DEF ReadRowid
    <3> QED
      BY <2>1, <3>1 DEF ReadRowid
  <2>2. CASE SelectCode(w)
    BY <2>2 DEF SelectCode
  <2> QED
    BY <1>4, <2>1, <2>2
<1>5. ASSUME NEW w \in Workers, MakeFolder(w) PROVE TypeOK'
  <2>1. gid[w] \in 1..created
    BY <1>5 DEF MakeFolder
  <2>2. gid[w] \in Ids
    BY <2>1
  <2>3. folders' = folders \/ folders' = folders \cup {gid[w]}
    BY <1>5 DEF MakeFolder
  <2>4. folders' \subseteq Ids
    BY <2>2, <2>3
  <2> QED
    BY <1>5, <2>4 DEF MakeFolder
<1>6. ASSUME NEW w \in Workers, InsertOwner(w) PROVE TypeOK'
  <2>0. gid[w] \in Nat
    OBVIOUS
  <2>1. CASE pc' = [pc EXCEPT ![w] = "done"]
    <3>1. gid[w] \in Ids /\ user[w] \in Users
      BY <1>6, <2>1 DEF InsertOwner, CanInsertMember, HasRow
    <3>2. /\ members' = members \cup {<<gid[w], user[w]>>} /\ joined' = joined + 1
          /\ lastRowid' = joined + 1 /\ known' = known \cup {gid[w]} /\ up' \in BOOLEAN
          /\ pc' = [pc EXCEPT ![w] = "done"]
          /\ UNCHANGED <<name, owner, created, others, disk, user, gid, arg, mine, raced>>
      BY <1>6, <2>1 DEF InsertOwner, InsertMember
    <3>3. members' \subseteq Ids \X Users
      BY <3>1, <3>2
    <3>4. known' \subseteq Ids
      BY <3>1, <3>2
    <3>5. pc' \in [Workers -> Labels] /\ joined' \in Nat /\ lastRowid' \in Nat
      BY <3>2
    <3> QED
      BY <3>2, <3>3, <3>4, <3>5
  <2>2. CASE pc' = [pc EXCEPT ![w] = "undo"]
    BY <1>6, <2>0, <2>2 DEF InsertOwner
  <2> QED
    BY <1>6, <2>1, <2>2 DEF InsertOwner
<1>7. ASSUME NEW w \in Workers, UndoCreate(w) \/ DeleteGroup(w) PROVE TypeOK'
  BY <1>7 DEF UndoCreate, DeleteGroup, DeleteRow
<1>8. ASSUME NEW w \in Workers, FindGroup(w) PROVE TypeOK'
  <2>1. CASE HasRow(gid[w])
    <3>1. FindLabel(w) \in Labels
      BY DEF FindLabel
    <3>2. name[gid[w]] \in Names
      BY <2>1 DEF HasRow
    <3> QED
      BY <1>8, <2>1, <3>1, <3>2 DEF FindGroup
  <2>2. CASE ~HasRow(gid[w])
    BY <1>8, <2>2 DEF FindGroup
  <2> QED
    BY <2>1, <2>2
<1>9. ASSUME NEW w \in Workers, RemoveFolder(w) PROVE TypeOK'
  <2>1. gid[w] \in Ids
    BY <1>9 DEF RemoveFolder
  <2> QED
    BY <1>9, <2>1 DEF RemoveFolder
<1>10. ASSUME NEW w \in Workers, UpdateGroup(w) PROVE TypeOK'
  BY <1>10 DEF UpdateGroup, HasRow
<1>11. ASSUME NEW w \in Workers, IsMember(w) \/ KickFind(w) PROVE TypeOK'
  <2>1. PICK label \in {"join", "leave", "done"} : pc' = [pc EXCEPT ![w] = label]
    BY <1>11 DEF IsMember, KickFind
  <2> QED
    BY <1>11, <2>1 DEF IsMember, KickFind
<1>12. ASSUME NEW w \in Workers, JoinGroup(w) PROVE TypeOK'
  <2>1. /\ pc' = [pc EXCEPT ![w] = "done"]
        /\ UNCHANGED <<name, owner, created, others, disk, known, up, user, gid, arg, mine, raced>>
    BY <1>12 DEF JoinGroup
  <2>2. CASE CanInsertMember(gid[w], user[w]) /\ InsertMember(gid[w], user[w])
    <3>1. user[w] \in Users /\ gid[w] \in Ids
      BY <1>12, <2>2 DEF JoinGroup, CanInsertMember, HasRow
    <3>2. members' \subseteq Ids \X Users /\ joined' \in Nat /\ lastRowid' \in Nat
      BY <2>2, <3>1 DEF InsertMember
    <3> QED
      BY <2>1, <3>2
  <2>3. CASE UNCHANGED <<members, joined, lastRowid>>
    BY <2>1, <2>3
  <2> QED
    BY <1>12, <2>2, <2>3 DEF JoinGroup
<1>13. ASSUME NEW w \in Workers, LeaveGroup(w) PROVE TypeOK'
  BY <1>13 DEF LeaveGroup
<1>14. CASE OtherInsert
  BY <1>14 DEF OtherInsert
<1>15. CASE UNCHANGED vars
  BY <1>15 DEF vars
<1> QED
  BY <1>1, <1>2, <1>3, <1>4, <1>5, <1>6, <1>7, <1>8, <1>9, <1>10, <1>11, <1>12, <1>13, <1>14,
     <1>15, Zenon DEF Next

(* What a request has in hand stays true to tables and disk. *)
LEMMA RowsStep == Inv /\ [Next]_vars => InHand' /\ RowsOfGroups'
<1> SUFFICES ASSUME Inv, [Next]_vars PROVE InHand' /\ RowsOfGroups'
  OBVIOUS
<1> USE NullAssumption, BoundsAssumption
    DEF Inv, TypeOK, InHand, RowsOfGroups, Found, Ids, NoId, At, Goto, rows, disk, HasRow
<1>1. ASSUME NEW w \in Workers, Create(w) \/ Ask(w) PROVE InHand' /\ RowsOfGroups'
  <2>1. CASE Create(w)
    BY <2>1 DEF Create, Request
  <2>2. CASE Ask(w)
    <3>1. PICK u \in Users, g \in known, a \in Asked : Request(w, "find", u, g, a)
      BY <2>2 DEF Ask
    <3> QED
      BY <3>1 DEF Request
  <2> QED
    BY <1>1, <2>1, <2>2
<1>2. ASSUME NEW w \in Workers, Close(w) PROVE InHand' /\ RowsOfGroups'
  BY <1>2 DEF Close
<1>3. ASSUME NEW w \in Workers, InsertGroup(w) PROVE InHand' /\ RowsOfGroups'
  <2>1. CASE pc' = [pc EXCEPT ![w] = "done"] /\ name' = name
    <3>1. /\ pc' = [pc EXCEPT ![w] = "done"]
          /\ UNCHANGED <<name, owner, created, members, folders, known, user, gid, arg>>
      BY <1>3, <2>1 DEF InsertGroup
    <3>2. InHand'
      BY <3>1
    <3>3. RowsOfGroups'
      BY <3>1
    <3> QED
      BY <3>2, <3>3
  <2>2. CASE created' = created + 1
    <3>1. /\ created' = created + 1 /\ created < MaxGroups
          /\ name' = [name EXCEPT ![created + 1] = arg[w]]
          /\ owner' = [owner EXCEPT ![created + 1] = user[w]]
          /\ pc[w] = "insert" /\ pc' = [pc EXCEPT ![w] = "rowid"]
          /\ UNCHANGED <<members, folders, known, user, gid, arg>>
      BY <1>3, <2>2 DEF InsertGroup
    <3>2. InHand'
      BY <3>1
    <3>3. RowsOfGroups'
      BY <3>1
    <3> QED
      BY <3>2, <3>3
  <2> QED
    BY <1>3, <2>1, <2>2 DEF InsertGroup
<1>4. ASSUME NEW w \in Workers, ReadRowid(w) PROVE InHand' /\ RowsOfGroups'
  BY <1>4 DEF ReadRowid
<1>5. ASSUME NEW w \in Workers, SelectCode(w) PROVE InHand' /\ RowsOfGroups'
  <2>1. /\ pc[w] = "code"
        /\ \/ HasRow(gid[w]) /\ pc' = [pc EXCEPT ![w] = "mkdir"]
           \/ pc' = pc
           \/ pc' = [pc EXCEPT ![w] = "done"]
        /\ UNCHANGED <<rows, folders, known, user, gid, arg>>
    BY <1>5 DEF SelectCode
  <2>2. InHand'
    BY <2>1
  <2>3. RowsOfGroups'
    BY <2>1
  <2> QED
    BY <2>2, <2>3
<1>6. ASSUME NEW w \in Workers, MakeFolder(w) PROVE InHand' /\ RowsOfGroups'
  <2>1. /\ pc[w] = "mkdir" /\ gid[w] \in 1..created
        /\ folders' = folders \/ folders' = folders \cup {gid[w]}
        /\ \E label \in {"undo", "insertOwner"} : pc' = [pc EXCEPT ![w] = label]
        /\ UNCHANGED <<rows, left, known, user, gid, arg>>
    BY <1>6 DEF MakeFolder
  <2>2. InHand'
    BY <2>1
  <2>3. RowsOfGroups'
    BY <2>1
  <2> QED
    BY <2>2, <2>3
<1>7. ASSUME NEW w \in Workers, InsertOwner(w) PROVE InHand' /\ RowsOfGroups'
  <2>1. CASE pc' = [pc EXCEPT ![w] = "done"]
    <3>1. /\ members' = members \cup {<<gid[w], user[w]>>} /\ known' = known \cup {gid[w]}
          /\ pc[w] = "insertOwner" /\ pc' = [pc EXCEPT ![w] = "done"]
          /\ UNCHANGED <<name, owner, created, folders, user, gid, arg>>
      BY <1>7, <2>1 DEF InsertOwner, InsertMember
    <3>2. gid[w] \in 1..created
      BY <3>1
    <3>3. InHand'
      BY <3>1
    <3>6. \A m \in members' : m \in members \/ m[1] = gid[w]
      BY <3>1
    <3>7. \A m \in members' : m[1] \in known'
      BY <3>1, <3>6
    <3>4. known' \subseteq 1..created' /\ \A m \in members' : m[1] \in known'
      BY <3>1, <3>2, <3>7
    <3>5. RowsOfGroups'
      BY <3>1, <3>4
    <3> QED
      BY <3>3, <3>5
  <2>2. CASE pc' = [pc EXCEPT ![w] = "undo"]
    <3>1. /\ pc[w] = "insertOwner" /\ pc' = [pc EXCEPT ![w] = "undo"]
          /\ UNCHANGED <<rows, folders, known, user, gid, arg>>
      BY <1>7, <2>2 DEF InsertOwner
    <3> QED
      BY <3>1
  <2> QED
    BY <1>7, <2>1, <2>2 DEF InsertOwner
<1>8. ASSUME NEW w \in Workers, UndoCreate(w) PROVE InHand' /\ RowsOfGroups'
  BY <1>8 DEF UndoCreate, DeleteRow
<1>9. ASSUME NEW w \in Workers, DeleteGroup(w) PROVE InHand' /\ RowsOfGroups'
  BY <1>9 DEF DeleteGroup, DeleteRow
<1>10. ASSUME NEW w \in Workers, FindGroup(w) PROVE InHand' /\ RowsOfGroups'
  <2>0. pc[w] = "find" /\ UNCHANGED <<rows, disk, known, user, gid>>
    BY <1>10 DEF FindGroup
  <2>1. CASE /\ HasRow(gid[w]) /\ pc' = [pc EXCEPT ![w] = FindLabel(w)]
             /\ arg' = IF arg[w] = "keep" THEN [arg EXCEPT ![w] = name[gid[w]]] ELSE arg
    <3>1. /\ pc[w] = "find" /\ pc' = [pc EXCEPT ![w] = FindLabel(w)]
          /\ arg' = IF arg[w] = "keep" THEN [arg EXCEPT ![w] = name[gid[w]]] ELSE arg
          /\ UNCHANGED <<rows, disk, known, user, gid>>
      BY <2>0, <2>1
    <3>2. FindLabel(w) \in {"isMember", "done", "delete", "kickFind", "update"}
      BY DEF FindLabel
    <3>3. FindLabel(w) = "delete" => owner[gid[w]] = user[w]
      BY DEF FindLabel
    <3>4. FindLabel(w) = "update" => arg'[w] \in Names
      BY <2>1, <3>1 DEF FindLabel, Asked
    <3>5. InHand'
      BY <3>1, <3>2, <3>4
    <3>6. RowsOfGroups'
      BY <3>1, <3>2, <3>3
    <3> QED
      BY <3>5, <3>6
  <2>2. CASE pc' = [pc EXCEPT ![w] = "done"] /\ arg' = arg
    BY <2>0, <2>2
  <2> QED
    BY <1>10, <2>1, <2>2 DEF FindGroup
<1>11. ASSUME NEW w \in Workers, RemoveFolder(w) PROVE InHand' /\ RowsOfGroups'
  BY <1>11 DEF RemoveFolder
<1>12. ASSUME NEW w \in Workers, UpdateGroup(w) PROVE InHand' /\ RowsOfGroups'
  BY <1>12 DEF UpdateGroup
<1>13. ASSUME NEW w \in Workers, IsMember(w) \/ KickFind(w) PROVE InHand' /\ RowsOfGroups'
  <2>1. PICK label \in {"join", "leave", "done"} : pc' = [pc EXCEPT ![w] = label]
    BY <1>13 DEF IsMember, KickFind
  <2> QED
    BY <1>13, <2>1 DEF IsMember, KickFind
<1>14. ASSUME NEW w \in Workers, JoinGroup(w) PROVE InHand' /\ RowsOfGroups'
  <2>1. CASE CanInsertMember(gid[w], user[w])
    BY <1>14, <2>1 DEF JoinGroup, InsertMember
  <2>2. CASE ~CanInsertMember(gid[w], user[w])
    BY <1>14, <2>2 DEF JoinGroup
  <2> QED
    BY <2>1, <2>2
<1>15. ASSUME NEW w \in Workers, LeaveGroup(w) PROVE InHand' /\ RowsOfGroups'
  BY <1>15 DEF LeaveGroup
<1>16. CASE OtherInsert
  BY <1>16 DEF OtherInsert
<1>17. CASE UNCHANGED vars
  BY <1>17 DEF vars
<1> QED
  BY <1>1, <1>2, <1>3, <1>4, <1>5, <1>6, <1>7, <1>8, <1>9, <1>10, <1>11, <1>12, <1>13, <1>14,
     <1>15, <1>16, <1>17, Zenon DEF Next

(* As long as every creation has read its own rowid. *)
LEMMA UndisturbedStep ==
  ASSUME Inv, [Next]_vars, ~raced' PROVE Undisturbed' /\ RowsAndFolders'
<1> USE NullAssumption, BoundsAssumption
    DEF TypeOK, InHand, RowsOfGroups, Found, Ids, NoId, At, Goto, rows, disk, HasRow,
        Undisturbed, RowsAndFolders, Creating
<1>0. TypeOK /\ InHand /\ RowsOfGroups
  BY DEF Inv
<1>1. ~raced
  BY DEF Inv, Next, vars, OtherInsert, Create, Ask, Request, Close, InsertGroup, ReadRowid,
         SelectCode, MakeFolder, InsertOwner, UndoCreate, FindGroup, DeleteGroup, RemoveFolder,
         UpdateGroup, IsMember, KickFind, JoinGroup, LeaveGroup
<1>2. Undisturbed /\ RowsAndFolders
  BY <1>1 DEF Inv
<1>3. ASSUME NEW w \in Workers, NEW label, label \notin {"rowid", "code", "mkdir", "insertOwner", "undo", "rmdir"},
             pc' = [pc EXCEPT ![w] = label], ~Creating(w), pc[w] # "rmdir",
             UNCHANGED <<name, folders, known, left>>,
             \A v \in Workers \ {w} : mine'[v] = mine[v] /\ gid'[v] = gid[v]
      PROVE  Undisturbed' /\ RowsAndFolders'
  <2>0. \A v \in Workers :
          Creating(v)' => v # w /\ Creating(v) /\ pc'[v] = pc[v]
    BY <1>0, <1>2, <1>3
  <2>1. Undisturbed'
    BY <1>0, <1>2, <1>3, <2>0
  <2>3. \A v \in Workers :
          /\ pc[v] \in {"rowid", "code", "mkdir", "undo"} => v # w /\ pc'[v] = pc[v] /\ mine'[v] = mine[v]
          /\ pc[v] = "rmdir" => v # w /\ pc'[v] = pc[v] /\ gid'[v] = gid[v]
    BY <1>0, <1>3
  <2>2. RowsAndFolders'
    BY <1>2, <1>3, <2>3
  <2> QED
    BY <2>1, <2>2
<1>4. ASSUME NEW w \in Workers, InsertGroup(w), created' = created + 1 PROVE Undisturbed' /\ RowsAndFolders'
  <2>1. /\ created' = created + 1 /\ created + 1 \in Ids /\ arg[w] \in Names
        /\ name' = [name EXCEPT ![created + 1] = arg[w]]
        /\ mine' = [mine EXCEPT ![w] = created + 1]
        /\ pc[w] = "insert" /\ pc' = [pc EXCEPT ![w] = "rowid"]
        /\ UNCHANGED <<folders, left, known, gid>>
    BY <1>0, <1>4 DEF InsertGroup
  <2>2. created + 1 \notin known /\ created + 1 \notin folders /\ created + 1 \in Nat
    BY <1>0
  <2>3. \A v \in Workers \ {w} : Creating(v) => mine[v] # created + 1
    BY <1>0, <1>2
  <2>4. \A g \in Ids : HasRow(g)' <=> HasRow(g) \/ g = created + 1
    BY <1>0, <2>1, NullAssumption
  <2>7. /\ \A v \in Workers \ {w} : mine'[v] = mine[v] /\ pc'[v] = pc[v] /\ gid'[v] = gid[v]
        /\ mine'[w] = created + 1 /\ pc'[w] = "rowid" /\ pc[w] = "insert"
        /\ UNCHANGED <<folders, left, known>>
    BY <1>0, <2>1
  <2>9. ASSUME NEW v \in Workers, Creating(v)'
        PROVE  /\ HasRow(mine[v])' /\ mine'[v] \notin known'
               /\ pc'[v] # "rowid" => gid'[v] = mine'[v]
               /\ pc'[v] \in {"rowid", "code", "mkdir"} => mine'[v] \notin folders'
               /\ pc'[v] = "insertOwner" => mine'[v] \in folders'
               /\ pc'[v] = "undo" => mine'[v] \notin folders' \ left'
               /\ \A u \in Workers \ {v} : Creating(u)' => mine'[u] # mine'[v]
    <3>1. CASE v = w
      BY <2>1, <2>2, <2>3, <2>4, <2>7, <3>1
    <3>2. CASE v # w
      <4>1. Creating(v) /\ mine'[v] = mine[v] /\ mine[v] \in Ids /\ mine[v] # created + 1
        BY <1>2, <2>3, <2>7, <2>9, <3>2
      <4> QED
        BY <1>2, <2>4, <2>7, <3>2, <4>1
    <3> QED
      BY <3>1, <3>2
  <2>5. Undisturbed'
    BY <2>9
  <2>6. RowsAndFolders'
    BY <1>2, <2>4, <2>7
  <2> QED
    BY <2>5, <2>6
<1>5. ASSUME NEW w \in Workers, ReadRowid(w) PROVE Undisturbed' /\ RowsAndFolders'
  <2>1. /\ gid' = [gid EXCEPT ![w] = lastRowid] /\ lastRowid = mine[w]
        /\ pc[w] = "rowid" /\ pc' = [pc EXCEPT ![w] = "code"]
        /\ UNCHANGED <<name, mine, folders, left, known>>
    BY <1>5 DEF ReadRowid
  <2>2. Undisturbed'
    BY <1>0, <1>2, <2>1
  <2>3. RowsAndFolders'
    BY <1>0, <1>2, <2>1
  <2> QED
    BY <2>2, <2>3
<1>6. ASSUME NEW w \in Workers, SelectCode(w) PROVE Undisturbed' /\ RowsAndFolders'
  <2>1. /\ pc[w] = "code" /\ gid[w] = mine[w]
        /\ \/ pc' = [pc EXCEPT ![w] = "mkdir"] /\ left' = left
           \/ pc' = [pc EXCEPT ![w] = "done"] /\ left' = left \cup {gid[w]}
        /\ UNCHANGED <<name, mine, folders, known, gid>>
    BY <1>0, <1>2, <1>6 DEF SelectCode
  <2>2. Undisturbed'
    BY <1>0, <1>2, <2>1
  <2>3. RowsAndFolders'
    BY <1>0, <1>2, <2>1
  <2> QED
    BY <2>2, <2>3
<1>7. ASSUME NEW w \in Workers, MakeFolder(w) PROVE Undisturbed' /\ RowsAndFolders'
  <2>1. /\ pc[w] = "mkdir" /\ gid[w] = mine[w] /\ gid[w] \notin folders
        /\ \/ /\ pc' = [pc EXCEPT ![w] = "insertOwner"]
              /\ folders' = folders \cup {gid[w]}
           \/ pc' = [pc EXCEPT ![w] = "undo"] /\ folders' = folders
        /\ UNCHANGED <<name, mine, left, known, gid>>
    BY <1>0, <1>2, <1>7 DEF MakeFolder
  <2>2. Undisturbed'
    BY <1>0, <1>2, <2>1
  <2>4. \A v \in Workers \ {w} : pc'[v] = pc[v]
    BY <1>0, <2>1
  <2>5. pc'[w] = "undo" \/ gid[w] \in folders'
    BY <1>0, <2>1
  <2>6. \A g \in Ids : HasRow(g)' <=> HasRow(g)
    BY <2>1
  <2>7. ASSUME NEW g \in Ids, HasRow(g)'
        PROVE  g \in folders' \cup left' \/ \E v \in Workers : pc'[v] \in {"rowid", "code", "mkdir", "undo"} /\ mine'[v] = g
    BY <1>2, <2>1, <2>4, <2>5, <2>6, <2>7
  <2>8. HasRow(gid[w])
    BY <1>2, <2>1
  <2>9. ASSUME NEW g \in folders'
        PROVE  HasRow(g)' \/ g \in left' \/ \E v \in Workers : pc'[v] = "rmdir" /\ gid'[v] = g
    BY <1>2, <2>1, <2>4, <2>8, <2>9
  <2>3. RowsAndFolders'
    BY <2>7, <2>9
  <2> QED
    BY <2>2, <2>3
<1>8. ASSUME NEW w \in Workers, InsertOwner(w) PROVE Undisturbed' /\ RowsAndFolders'
  <2>1. pc[w] = "insertOwner" /\ gid[w] = mine[w] /\ HasRow(gid[w]) /\ gid[w] \notin known
    BY <1>0, <1>2, <1>8 DEF InsertOwner
  <2>2. UNCHANGED <<name, mine, folders, gid>>
    BY <1>8 DEF InsertOwner
  <2>3. \/ pc' = [pc EXCEPT ![w] = "done"] /\ known' = known \cup {gid[w]} /\ left' = left
        \/ pc' = [pc EXCEPT ![w] = "undo"] /\ known' = known /\ left' = left \cup {gid[w]}
    BY <1>8 DEF InsertOwner
  <2>4. Undisturbed'
    BY <1>0, <1>2, <2>1, <2>2, <2>3
  <2>5. RowsAndFolders'
    BY <1>0, <1>2, <2>1, <2>2, <2>3
  <2> QED
    BY <2>4, <2>5
<1>9. ASSUME NEW w \in Workers, DeleteGroup(w), pc' = [pc EXCEPT ![w] = "rmdir"]
      PROVE  Undisturbed' /\ RowsAndFolders'
  <2>1. /\ pc[w] = "delete" /\ pc' = [pc EXCEPT ![w] = "rmdir"]
        /\ name' = [h \in Ids |-> IF h = gid[w] THEN NoName ELSE name[h]]
        /\ UNCHANGED <<mine, folders, left, known, gid>>
    BY <1>0, <1>9 DEF DeleteGroup, DeleteRow
  <2>2. gid[w] \in known
    BY <1>0, <2>1
  <2>3. Undisturbed'
    BY <1>0, <1>2, <2>1, <2>2
  <2>4. RowsAndFolders'
    BY <1>0, <1>2, <2>1
  <2> QED
    BY <2>3, <2>4
<1>10. ASSUME NEW w \in Workers, RemoveFolder(w) PROVE Undisturbed' /\ RowsAndFolders'
  <2>1. /\ pc[w] = "rmdir" /\ pc' = [pc EXCEPT ![w] = "done"]
        /\ UNCHANGED <<name, mine, known, gid>>
        /\ gid[w] \in known /\ ~HasRow(gid[w])
    BY <1>0, <1>10 DEF RemoveFolder
  <2>2. \/ folders' = folders \ {gid[w]} /\ left' = left
        \/ folders' = folders /\ left' = left \cup {gid[w]}
    BY <1>10 DEF RemoveFolder
  <2>3. \A g \in Ids : HasRow(g)' <=> HasRow(g)
    BY <2>1
  <2>4. \A v \in Workers : Creating(v)' => v # w /\ Creating(v) /\ mine[v] # gid[w] /\ pc'[v] = pc[v]
    BY <1>0, <1>2, <2>1
  <2>5. Undisturbed'
    BY <1>0, <1>2, <2>1, <2>2, <2>4
  <2>7. \A v \in Workers \ {w} : pc'[v] = pc[v]
    BY <1>0, <2>1
  <2>8. ASSUME NEW g \in Ids, HasRow(g)'
        PROVE  g \in folders' \cup left' \/ \E v \in Workers : pc'[v] \in {"rowid", "code", "mkdir", "undo"} /\ mine'[v] = g
    BY <1>2, <2>1, <2>2, <2>3, <2>7, <2>8
  <2>9. ASSUME NEW g \in folders'
        PROVE  HasRow(g)' \/ g \in left' \/ \E v \in Workers : pc'[v] = "rmdir" /\ gid'[v] = g
    BY <1>2, <2>1, <2>2, <2>7, <2>9
  <2>6. RowsAndFolders'
    BY <2>8, <2>9
  <2> QED
    BY <2>5, <2>6
<1>11. ASSUME NEW w \in Workers, UpdateGroup(w) PROVE Undisturbed' /\ RowsAndFolders'
  <2>1. /\ pc[w] = "update" /\ pc' = [pc EXCEPT ![w] = "done"]
        /\ UNCHANGED <<mine, folders, left, known, gid>>
        /\ \A g : HasRow(g)' <=> HasRow(g)
    BY <1>0, <1>11 DEF UpdateGroup
  <2>2. Undisturbed'
    BY <1>0, <1>2, <2>1
  <2>3. RowsAndFolders'
    BY <1>0, <1>2, <2>1
  <2> QED
    BY <2>2, <2>3
<1>12. ASSUME NEW w \in Workers, FindGroup(w) PROVE Undisturbed' /\ RowsAndFolders'
  BY <1>3, <1>12 DEF FindGroup, FindLabel
<1>13. ASSUME NEW w \in Workers, Create(w) \/ Ask(w) PROVE Undisturbed' /\ RowsAndFolders'
  <2>1. PICK label \in {"insert", "find"} : \E u, g, a : Request(w, label, u, g, a)
    BY <1>13 DEF Create, Ask
  <2> QED
    BY <1>0, <1>3, <2>1 DEF Request
<1>14. ASSUME NEW w \in Workers, Close(w) PROVE Undisturbed' /\ RowsAndFolders'
  BY <1>0, <1>3, <1>14 DEF Close
<1>15. ASSUME NEW w \in Workers, IsMember(w) \/ KickFind(w) PROVE Undisturbed' /\ RowsAndFolders'
  <2>1. PICK label \in {"join", "leave", "done"} : pc' = [pc EXCEPT ![w] = label]
    BY <1>15 DEF IsMember, KickFind
  <2> QED
    BY <1>3, <1>15, <2>1 DEF IsMember, KickFind
<1>16. ASSUME NEW w \in Workers, JoinGroup(w) \/ LeaveGroup(w) PROVE Undisturbed' /\ RowsAndFolders'
  BY <1>3, <1>16 DEF JoinGroup, LeaveGroup
<1>17. ASSUME NEW w \in Workers, InsertGroup(w) \/ DeleteGroup(w),
              pc' = [pc EXCEPT ![w] = "done"], name' = name
       PROVE  Undisturbed' /\ RowsAndFolders'
  <2>1. /\ pc[w] \in {"insert", "delete"} /\ UNCHANGED <<folders, known, left, gid>>
        /\ mine' = mine \/ pc' = [pc EXCEPT ![w] = "rowid"]
    BY <1>17 DEF InsertGroup, DeleteGroup
  <2>2. mine' = mine
    BY <1>0, <1>17, <2>1
  <2> QED
    BY <1>3, <1>17, <2>1, <2>2
<1>18. ASSUME NEW w \in Workers, UndoCreate(w) PROVE Undisturbed' /\ RowsAndFolders'
  <2>1. /\ pc[w] = "undo" /\ pc' = [pc EXCEPT ![w] = "done"] /\ gid[w] = mine[w]
        /\ UNCHANGED <<mine, folders, known, gid>>
        /\ gid[w] \notin folders \ left
    BY <1>2, <1>18 DEF UndoCreate
  <2>8. \/ /\ name' = [h \in Ids |-> IF h = gid[w] THEN NoName ELSE name[h]]
           /\ left' = left
        \/ name' = name /\ left' = left \cup {gid[w]}
    BY <1>18 DEF UndoCreate, DeleteRow
  <2>2. \A g \in Ids : g # gid[w] \/ HasRow(g)' => (HasRow(g)' <=> HasRow(g))
    <3>1. CASE name' = name
      BY <3>1
    <3>2. CASE name' = [h \in Ids |-> IF h = gid[w] THEN NoName ELSE name[h]]
      BY <3>2
    <3> QED
      BY <2>8, <3>1, <3>2
  <2>7. HasRow(gid[w])' => gid[w] \in left'
    <3>1. CASE name' = [h \in Ids |-> IF h = gid[w] THEN NoName ELSE name[h]]
      BY <2>1, <3>1
    <3>2. CASE left' = left \cup {gid[w]}
      BY <2>1, <3>2
    <3> QED
      BY <2>8, <3>1, <3>2
  <2>9. left \subseteq left' /\ left' \subseteq left \cup {gid[w]}
    BY <2>8
  <2>3. \A v \in Workers : v # w => pc'[v] = pc[v]
    BY <1>0, <2>1
  <2>4. \A v \in Workers : Creating(v)' => v # w /\ Creating(v) /\ mine[v] # mine[w]
    BY <1>0, <1>2, <2>1
  <2>5. Undisturbed'
    BY <1>2, <2>1, <2>2, <2>3, <2>4, <2>9
  <2>6. RowsAndFolders'
    BY <1>2, <2>1, <2>2, <2>3, <2>7, <2>9
  <2> QED
    BY <2>5, <2>6
<1>19. CASE OtherInsert \/ UNCHANGED vars
  <2>1. UNCHANGED <<name, mine, folders, known, gid, pc, left>>
    BY <1>19 DEF OtherInsert, vars
  <2>2. Undisturbed'
    BY <1>2, <2>1
  <2>3. RowsAndFolders'
    BY <1>2, <2>1
  <2> QED
    BY <2>2, <2>3
<1>20. \A w \in Workers :
         /\ InsertGroup(w) => \/ created' = created + 1
                              \/ pc' = [pc EXCEPT ![w] = "done"] /\ name' = name
         /\ DeleteGroup(w) => \/ pc' = [pc EXCEPT ![w] = "rmdir"]
                              \/ pc' = [pc EXCEPT ![w] = "done"] /\ name' = name
  BY DEF InsertGroup, DeleteGroup
<1> QED
  BY <1>4, <1>5, <1>6, <1>7, <1>8, <1>9, <1>10, <1>11, <1>12, <1>13, <1>14, <1>15, <1>16, <1>17,
     <1>18, <1>19, <1>20, Zenon DEF Next

LEMMA StepInv == Inv /\ [Next]_vars => Inv'
BY TypeStep, RowsStep, UndisturbedStep, Zenon DEF Inv

LEMMA Invariant == Spec => []Inv
BY InitInv, StepInv, PTL DEF Spec

-----------------------------------------------------------------------------
(* Every variable of the groups keeps its type.                            *)
THEOREM GroupsTyped == Spec => []TypeOK
<1>1. Inv => TypeOK
  BY DEF Inv
<1> QED
  BY <1>1, Invariant, PTL

(* As long as every creation reads its own rowid, it finds its code, and a *)
(* group nobody works on has a row exactly when it has a folder, up to     *)
(* what a sweep or a statement that failed left.                           *)
THEOREM RowsMatchFolders == Spec => []CleanUnlessRaced
<1>1. Inv => CleanUnlessRaced
  <2> SUFFICES ASSUME Inv, ~raced PROVE CleanUnlessRaced
    BY DEF CleanUnlessRaced
  <2>1. TypeOK /\ Undisturbed /\ RowsAndFolders
    BY DEF Inv
  <2>2. \A w \in Workers : pc[w] = "code" => HasRow(gid[w])
    BY <2>1 DEF Undisturbed, Creating
  <2>3. ASSUME NEW g \in Ids, ~Busy(g), HasRow(g) PROVE g \in folders \cup left
    BY <2>1, <2>3 DEF RowsAndFolders, Busy
  <2>4. ASSUME NEW g \in Ids, ~Busy(g), g \in folders, g \notin left PROVE HasRow(g)
    BY <2>1, <2>4 DEF RowsAndFolders, Busy
  <2> QED
    BY <2>2, <2>3, <2>4 DEF CleanUnlessRaced
<1> QED
  BY <1>1, Invariant, PTL

(* As long as every creation reads its own rowid, a group ends by a delete *)
(* of its owner, or by the rollback of the creation that made it while no  *)
(* client knows it: the delete that is let through is of a group that has  *)
(* still the owner it had, and a creation has its row to itself.           *)
THEOREM OwnersEndGroups == Spec => GroupsEndByOwner
<1> DEFINE End == \A g \in Ids : HasRow(g) /\ ~HasRow(g)' =>
                    \/ raced
                    \/ \E w \in Workers : pc[w] = "delete" /\ gid[w] = g /\ user[w] = owner[g]
                    \/ g \notin known /\ \E w \in Workers : pc[w] = "undo" /\ mine[w] = g
<1>1. Inv /\ [Next]_vars => End
  <2> SUFFICES ASSUME Inv, [Next]_vars, ~raced, NEW g \in Ids, HasRow(g), ~HasRow(g)'
               PROVE  \/ \E w \in Workers : pc[w] = "delete" /\ gid[w] = g /\ user[w] = owner[g]
                      \/ g \notin known /\ \E w \in Workers : pc[w] = "undo" /\ mine[w] = g
    BY Zenon
  <2> USE DEF Inv, TypeOK, RowsOfGroups, Undisturbed, At, Goto, rows, disk, HasRow, Ids
  <2>1. ASSUME NEW w \in Workers, DeleteGroup(w)
        PROVE  \E v \in Workers : pc[v] = "delete" /\ gid[v] = g /\ user[v] = owner[g]
    <3>1. pc[w] = "delete" /\ name' = [h \in Ids |-> IF h = gid[w] THEN NoName ELSE name[h]]
      BY <2>1 DEF DeleteGroup, DeleteRow
    <3>2. gid[w] = g
      BY <3>1
    <3> QED
      BY <3>1, <3>2
  <2>2. ASSUME NEW w \in Workers, UndoCreate(w)
        PROVE  g \notin known /\ \E v \in Workers : pc[v] = "undo" /\ mine[v] = g
    <3>1. pc[w] = "undo" /\ name' = [h \in Ids |-> IF h = gid[w] THEN NoName ELSE name[h]]
      BY <2>2 DEF UndoCreate, DeleteRow
    <3>2. gid[w] = g
      BY <3>1
    <3> QED
      BY <3>1, <3>2 DEF Creating
  <2>3. ASSUME NEW w \in Workers, InsertGroup(w) PROVE FALSE
    <3>1. g <= created /\ created \in Nat
      OBVIOUS
    <3>2. name' = name \/ name' = [name EXCEPT ![created + 1] = arg[w]]
      BY <2>3 DEF InsertGroup
    <3>4. g # created + 1 /\ g \in DOMAIN name
      BY <3>1
    <3>3. name'[g] = name[g]
      BY <3>2, <3>4, Zenon
    <3> QED
      BY <3>3
  <2>4. ASSUME NEW w \in Workers, UpdateGroup(w) PROVE FALSE
    <3>1. name' = name \/ name' = [name EXCEPT ![gid[w]] = arg[w]]
      BY <2>4 DEF UpdateGroup
    <3>2. arg[w] \in Names
      BY <2>4 DEF UpdateGroup, InHand
    <3>3. CASE name' = name
      BY <3>3
    <3>4. CASE name' = [name EXCEPT ![gid[w]] = arg[w]]
      BY <3>2, <3>4, NullAssumption
    <3> QED
      BY <3>1, <3>3, <3>4
  <2>5. ASSUME UNCHANGED name PROVE FALSE
    BY <2>5
  <2> QED
    BY <2>1, <2>2, <2>3, <2>4, <2>5
       DEF Next, vars, OtherInsert, Create, Ask, Request, Close, ReadRowid, SelectCode,
           MakeFolder, InsertOwner, FindGroup, RemoveFolder, IsMember, KickFind, JoinGroup, LeaveGroup
<1> QED
  BY <1>1, Invariant, PTL DEF Spec, GroupsEndByOwner
=============================================================================
