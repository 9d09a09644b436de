---------------------------- MODULE StorageProofs ----------------------------
(***************************************************************************)
(* Proofs about Storage, for any number of workers, users, names and rows. *)
(*                                                                         *)
(* None of the properties is inductive.  The invariant adds that rows      *)
(* never change and their ids are not used again, so that a path that was  *)
(* read stays right while the row is there; and it speaks of claims: a row *)
(* and a worker that has made a directory but not yet inserted its row     *)
(* both hold a path.  What is claimed is there, is claimed once, and is    *)
(* not what a sweep still to come is about, unless it was taken before.    *)
(* That a sweep takes no claim below its path either, but where a name     *)
(* reaches in, is an argument from a shortest counterexample.              *)
(***************************************************************************)
EXTENDS Storage, TLAPS, SequenceTheorems, WellFoundedInduction

-----------------------------------------------------------------------------
(* Paths. *)

(* What a path begins with. *)
LEMMA PrefixFacts ==
  ASSUME NEW p \in Seq(Names), NEW k \in 0..Len(p)
  PROVE  /\ SubSeq(p, 1, k) \in Seq(Names)
         /\ Len(SubSeq(p, 1, k)) = k
         /\ \A i \in 1..k : SubSeq(p, 1, k)[i] = p[i]
<1>1. Len(p) \in Nat /\ \A i \in 1..Len(p) : p[i] \in Names
  BY ElementOfSeq, LenProperties
<1>2. k \in Int /\ k \in Nat /\ \A i \in 1..k : p[i] \in Names
  BY <1>1
<1>3. /\ SubSeq(p, 1, k) \in Seq(Names)
      /\ Len(SubSeq(p, 1, k)) = IF 1 <= k THEN k - 1 + 1 ELSE 0
      /\ \A i \in 1 .. k - 1 + 1 : SubSeq(p, 1, k)[i] = p[1 + i - 1]
  BY <1>2, SubSeqProperties
<1> QED  BY <1>1, <1>2, <1>3

(* A name at the end of a path leaves what comes before it. *)
LEMMA AppendFacts ==
  ASSUME NEW p \in Seq(Names), NEW n \in Names
  PROVE  /\ Append(p, n) \in Seq(Names)
         /\ Len(p) \in Nat /\ Len(Append(p, n)) = Len(p) + 1
         /\ \A k \in 0..Len(p) : SubSeq(Append(p, n), 1, k) = SubSeq(p, 1, k)
         /\ ParentPath(Append(p, n)) = p
<1> DEFINE a == Append(p, n)
<1>1. /\ a \in Seq(Names) /\ Len(p) \in Nat /\ Len(a) = Len(p) + 1
      /\ \A i \in 1..Len(p) : a[i] = p[i]
  BY AppendProperties, LenProperties
<1>2. ASSUME NEW k \in 0..Len(p) PROVE SubSeq(a, 1, k) = SubSeq(p, 1, k)
  <2>1. k \in 0..Len(a)  BY <1>1
  <2>2. /\ SubSeq(p, 1, k) \in Seq(Names) /\ Len(SubSeq(p, 1, k)) = k
        /\ \A i \in 1..k : SubSeq(p, 1, k)[i] = p[i]
    BY PrefixFacts
  <2>3. /\ SubSeq(a, 1, k) \in Seq(Names) /\ Len(SubSeq(a, 1, k)) = k
        /\ \A i \in 1..k : SubSeq(a, 1, k)[i] = a[i]
    BY <1>1, <2>1, PrefixFacts
  <2>4. \A i \in 1..k : SubSeq(a, 1, k)[i] = SubSeq(p, 1, k)[i]
    BY <1>1, <2>2, <2>3
  <2> HIDE DEF a
  <2> QED  BY <2>2, <2>3, <2>4, SeqEqual
<1>3. ParentPath(a) = p
  <2>1. Len(a) - 1 = Len(p) /\ Len(p) \in 0..Len(p)  BY <1>1
  <2>2. SubSeq(p, 1, Len(p)) = p  BY SubSeqFull
  <2> HIDE DEF a
  <2> QED  BY <1>2, <2>1, <2>2 DEF ParentPath
<1> QED  BY <1>1, <1>2, <1>3

(* Every path but the group's folder is its parent's and a name. *)
LEMMA ParentFacts ==
  ASSUME NEW p \in Seq(Names), p # <<>>
  PROVE  /\ ParentPath(p) \in Seq(Names)
         /\ \E n \in Names : p = Append(ParentPath(p), n)
<1>1. PICK s \in Seq(Names), n \in Names : p = Append(s, n)
  BY SequenceEmptyOrAppend
<1>2. ParentPath(p) = s  BY <1>1, AppendFacts
<1> QED  BY <1>1, <1>2

(* What lies below a path is what lies in it, or in what lies below it. *)
LEMMA AppendBelow ==
  ASSUME NEW p \in Seq(Names), NEW q \in Seq(Names), NEW n \in Names
  PROVE  Under(Append(p, n), q) <=> AtOrBelow(p, q)
<1>1. Len(p) \in Nat /\ Len(q) \in Nat  BY LenProperties
<1>2. Len(Append(p, n)) = Len(p) + 1 /\ Append(p, n) \in Seq(Names)  BY AppendFacts
<1>3. SubSeq(p, 1, Len(p)) = p  BY SubSeqFull
<1>4. CASE Len(q) \in 0..Len(p)
  <2>1. SubSeq(Append(p, n), 1, Len(q)) = SubSeq(p, 1, Len(q))  BY <1>4, AppendFacts
  <2>2. CASE Len(q) = Len(p)
    BY <1>1, <1>2, <1>3, <2>1, <2>2 DEF Under, AtOrBelow
  <2>3. CASE Len(q) # Len(p)
    BY <1>1, <1>2, <1>4, <2>1, <2>3 DEF Under, AtOrBelow
  <2> QED  BY <2>2, <2>3
<1>5. CASE Len(q) \notin 0..Len(p)
  <2>1. ~(Len(p) + 1 > Len(q)) /\ ~(Len(p) > Len(q)) /\ Len(p) # Len(q)  BY <1>1, <1>5
  <2> QED  BY <1>2, <2>1 DEF Under, AtOrBelow
<1> QED  BY <1>4, <1>5

(* A name with slashes at the end of a path leaves what comes before it.   *)
LEMMA ConcatFacts ==
  ASSUME NEW p \in Seq(Names), NEW n \in Seq(Names)
  PROVE  /\ p \o n \in Seq(Names)
         /\ Len(p) \in Nat /\ Len(n) \in Nat /\ Len(p \o n) = Len(p) + Len(n)
         /\ \A k \in 0..Len(p) : SubSeq(p \o n, 1, k) = SubSeq(p, 1, k)
<1> DEFINE a == p \o n
<1>1. /\ a \in Seq(Names) /\ Len(p) \in Nat /\ Len(n) \in Nat /\ Len(a) = Len(p) + Len(n)
      /\ \A i \in 1..Len(p) : a[i] = p[i]
  BY ConcatProperties, LenProperties
<1>2. ASSUME NEW k \in 0..Len(p) PROVE SubSeq(a, 1, k) = SubSeq(p, 1, k)
  <2>1. k \in 0..Len(a)  BY <1>1
  <2>2. /\ SubSeq(p, 1, k) \in Seq(Names) /\ Len(SubSeq(p, 1, k)) = k
        /\ \A i \in 1..k : SubSeq(p, 1, k)[i] = p[i]
    BY PrefixFacts
  <2>3. /\ SubSeq(a, 1, k) \in Seq(Names) /\ Len(SubSeq(a, 1, k)) = k
        /\ \A i \in 1..k : SubSeq(a, 1, k)[i] = a[i]
    BY <1>1, <2>1, PrefixFacts
  <2>4. \A i \in 1..k : SubSeq(a, 1, k)[i] = SubSeq(p, 1, k)[i]
    BY <1>1, <2>2, <2>3
  <2> HIDE DEF a
  <2> QED  BY <2>2, <2>3, <2>4, SeqEqual
<1> QED  BY <1>1, <1>2

(* What lies below a path that the name does not reach into from above has *)
(* its parent at or below the path too.                                    *)
LEMMA ConcatAbove ==
  ASSUME NEW p \in Seq(Names), NEW n \in Seq(Names), NEW q \in Seq(Names),
         Under(p \o n, q), ~Reaches(n, p \o n, q)
  PROVE  AtOrBelow(p, q)
<1>1. Len(p) \in Nat /\ Len(q) \in Nat /\ Len(n) \in Nat /\ Len(p \o n) = Len(p) + Len(n)
  BY ConcatFacts, LenProperties
<1>2. Len(q) \in 0..Len(p)  BY <1>1 DEF Reaches
<1>3. SubSeq(p, 1, Len(q)) = q  BY <1>2, ConcatFacts DEF Under
<1>4. SubSeq(p, 1, Len(p)) = p  BY SubSeqFull
<1> QED  BY <1>1, <1>2, <1>3, <1>4 DEF AtOrBelow, Under

(* What is made at or below a path lies at or below it.                    *)
LEMMA ConcatBelow ==
  ASSUME NEW p \in Seq(Names), NEW n \in Seq(Names), NEW q \in Seq(Names), AtOrBelow(p, q)
  PROVE  AtOrBelow(p \o n, q)
<1>1. Len(p) \in Nat /\ Len(q) \in Nat /\ Len(n) \in Nat /\ Len(p \o n) = Len(p) + Len(n)
  BY ConcatFacts, LenProperties
<1>2. Len(q) \in 0..Len(p)  BY <1>1 DEF AtOrBelow, Under
<1>3. SubSeq(p, 1, Len(p)) = p  BY SubSeqFull
<1>4. SubSeq(p, 1, Len(q)) = q  BY <1>3 DEF AtOrBelow, Under
<1>5. SubSeq(p \o n, 1, Len(q)) = q  BY <1>2, <1>4, ConcatFacts
<1>6. CASE Len(n) = 0
  <2>1. n = <<>>  BY <1>6, EmptySeq
  <2>2. p \o n = p  BY <2>1, ConcatEmptySeq
  <2> QED  BY <2>2
<1>7. CASE Len(n) # 0
  <2>1. Len(p \o n) > Len(q)  BY <1>1, <1>2, <1>7
  <2> QED  BY <1>5, <2>1 DEF AtOrBelow, Under
<1> QED  BY <1>6, <1>7

(* Who takes a directory takes what is made in it. *)
LEMMA TakenConcat ==
  ASSUME NEW p \in Seq(Names), NEW n \in Seq(Names), NEW s, Taken(p, s)
  PROVE  Taken(p \o n, s)
<1>1. PICK k \in 1..Len(p) : SubSeq(p, 1, k) \in s  BY DEF Taken
<1>2. Len(p) \in Nat /\ Len(n) \in Nat /\ Len(p \o n) = Len(p) + Len(n)  BY ConcatFacts
<1>3. k \in 0..Len(p) /\ k \in 1..Len(p \o n)  BY <1>2
<1>4. SubSeq(p \o n, 1, k) = SubSeq(p, 1, k)  BY <1>3, ConcatFacts
<1> QED  BY <1>1, <1>3, <1>4 DEF Taken

(* A name that is a text adds to its path.                                 *)
LEMMA TextFacts ==
  ASSUME NEW n \in Texts
  PROVE  n \in Seq(Names) /\ n # <<>> /\ Len(n) \in Nat /\ Len(n) > 0
<1>1. PICK k \in 0..MaxDepth : n \in [1..k -> Names]  BY DEF Texts, Paths
<1>2. k \in Nat  BY BoundsAssumption
<1>3. n \in Seq(Names)  BY <1>1, <1>2, SeqDef
<1>4. n # <<>>  BY DEF Texts
<1> QED  BY <1>3, <1>4, LenProperties, EmptySeq

(* What a text is added to is not the group's folder. *)
LEMMA TextPath ==
  ASSUME NEW p \in Seq(Names), NEW n \in Texts
  PROVE  p \o n # <<>>
<1>1. n \in Seq(Names) /\ Len(n) \in Nat /\ Len(n) > 0  BY TextFacts
<1>2. Len(p) \in Nat /\ Len(p \o n) = Len(p) + Len(n)  BY <1>1, ConcatFacts
<1>3. Len(p \o n) # 0  BY <1>1, <1>2
<1> QED  BY <1>3, EmptySeq

(* The group's folder lies below no other path. *)
LEMMA NothingEmptyBelow ==
  ASSUME NEW p \in Seq(Names), NEW q \in Seq(Names), AtOrBelow(p, q), q # <<>>
  PROVE  p # <<>>
<1>1. Len(p) \in Nat /\ Len(q) \in Nat /\ (Len(q) = 0 => q = <<>>)
  BY LenProperties, EmptySeq
<1>2. Len(<<>>) = 0  BY EmptySeq
<1> QED  BY <1>1, <1>2 DEF AtOrBelow, Under

(* Who takes a directory takes what is in it. *)
LEMMA TakenAppend ==
  ASSUME NEW p \in Seq(Names), NEW n \in Names, NEW s, Taken(p, s)
  PROVE  Taken(Append(p, n), s)
<1>1. PICK k \in 1..Len(p) : SubSeq(p, 1, k) \in s  BY DEF Taken
<1>2. Len(p) \in Nat /\ Len(Append(p, n)) = Len(p) + 1  BY AppendFacts
<1>3. k \in 0..Len(p) /\ k \in 1..Len(Append(p, n))  BY <1>2
<1>4. SubSeq(Append(p, n), 1, k) = SubSeq(p, 1, k)  BY <1>3, AppendFacts
<1> QED  BY <1>1, <1>3, <1>4 DEF Taken

(* A path that is noted is taken. *)
LEMMA TakenSelf ==
  ASSUME NEW p \in Seq(Names), p # <<>>, NEW s, p \in s
  PROVE  Taken(p, s)
<1>1. Len(p) \in Nat /\ Len(p) # 0  BY LenProperties, EmptySeq
<1>2. SubSeq(p, 1, Len(p)) = p  BY SubSeqFull
<1>3. Len(p) \in 1..Len(p)  BY <1>1
<1> QED  BY <1>2, <1>3 DEF Taken

(* What is noted stays noted. *)
LEMMA TakenMore ==
  ASSUME NEW p, NEW s, NEW t, s \subseteq t, Taken(p, s)
  PROVE  Taken(p, t)
BY DEF Taken

-----------------------------------------------------------------------------
(* The invariant. *)

Requests ==
  [user : Users \cup {NoRow}, group : Groups \cup {NoRow}, id : Nat, dir : Nat,
   name : Seq(Names), path : Seq(Names), stale : BOOLEAN]

(* What a worker at a label has in hand. *)
Fits(label, r) ==
  /\ r \in Requests
  /\ label \in {"mdMkdir", "mdInsert"} =>
       r.user \in Users /\ r.name \in Texts /\ r.dir \in {Root} \cup DirIds
  /\ label = "sfInsert" =>
       r.user \in Users /\ r.group \in Groups /\ r.dir \in {Root, Elsewhere} \cup DirIds

(* TypeOK, and the types of what it leaves out. *)
Types ==
  /\ TypeOK
  /\ dirs \in [DirIds -> DirRows \cup {NoRow}] /\ files \in [FileIds -> FileRows \cup {NoRow}]
  /\ req \in [Workers -> Requests]
  /\ \A w \in Workers : Fits(pc[w], req[w])

Live(d) == d = Root \/ HasDir(d)

(* The rows of directories are a tree, and their ids are not used again.   *)
DirTree ==
  \A d \in DirIds : HasDir(d) =>
    /\ d <= dcreated
    /\ Live(dirs[d].parent)
    /\ dirs[d].path = PathOf(dirs[d].parent) \o dirs[d].name

FileTree == \A f \in FileIds : HasFile(f) => DirExists(files[f].dir)

(* A path that was read stays what the rows say, while they are there.     *)
Follows(r) == Live(r.dir) => r.path = PathOf(r.dir) \o r.name
WorkerPath(w) ==
  /\ pc[w] \in {"mdMkdir", "mdInsert"} => req[w].dir <= dcreated /\ Follows(req[w])
  /\ pc[w] = "ddDelete" =>
       req[w].id \in 1..dcreated /\ (HasDir(req[w].id) => req[w].path = dirs[req[w].id].path)
  /\ pc[w] \in {"ddDelete", "ddSweep"} => req[w].path # <<>>

PathsRight == DirTree /\ \A w \in Workers : WorkerPath(w)

(* The disk holds a tree. *)
DiskTree ==
  /\ \A p \in dirsOnDisk \cup filesOnDisk : p = <<>> \/ ParentPath(p) \in dirsOnDisk
  /\ dirsOnDisk \cap filesOnDisk = {}

(* Who holds a path to be the path of its directory: the rows, and the     *)
(* workers that have made a directory and have not inserted its row yet.   *)
Making(w) == pc[w] = "mdInsert" /\ Live(req[w].dir)
RowClaim(d) == [kind |-> "row", by |-> d, path |-> dirs[d].path]
MakerClaim(w) == [kind |-> "maker", by |-> w, path |-> req[w].path]
Claims ==
  {RowClaim(d) : d \in {e \in DirIds : HasDir(e)}} \cup {MakerClaim(w) : w \in {v \in Workers : Making(v)}}

Sweeping(v) == pc[v] = "ddSweep" /\ ~req[v].stale

(* What is claimed is there, and claimed once, and it is not what a sweep  *)
(* that is still to come is about, unless it, or what it lies in, was      *)
(* taken before.                                                           *)
ClaimsHold ==
  /\ \A c \in Claims : c.path \in dirsOnDisk \/ Taken(c.path, stolen)
  /\ \A b, c \in Claims : b # c /\ b.path = c.path => Taken(c.path, stolen)
  /\ \A v \in Workers, c \in Claims :
       Sweeping(v) /\ c.path = req[v].path => Taken(c.path, stolen)

IInv == Types /\ PathsRight /\ FileTree /\ DiskTree /\ ClaimsHold

-----------------------------------------------------------------------------
(* The steps, as far as directories are concerned. *)

QuietLabels == {"idle", "sfInsert", "sfUndo", "dfDelete", "dfUnlink"}

(* Neither a directory nor a worker moves. *)
Stays == UNCHANGED <<dirs, dcreated, pc, req, dirsOnDisk, stolen>>

(* One worker goes where it has nothing to say about directories. *)
Quiet(w) ==
  \E label \in QuietLabels, r \in Requests :
    /\ Fits(label, r)
    /\ pc' = [pc EXCEPT ![w] = label] /\ req' = [req EXCEPT ![w] = r]
    /\ UNCHANGED <<dirs, dcreated, dirsOnDisk, stolen>>

(* A mkdir, an INSERT and a DELETE that succeed, and a remove(). *)
Mkdirs(w) ==
  LET p == req[w].path IN
  /\ pc[w] = "mdMkdir" /\ ~OnDisk(p) /\ dirsOnDisk' = dirsOnDisk \cup {p}
  /\ req' = [v \in Workers |-> [req[v] EXCEPT !.stale = @ \/ SweepsStill(v, p)]]
  /\ pc' = [pc EXCEPT ![w] = "mdInsert"]
  /\ UNCHANGED <<dirs, dcreated, stolen>>
Inserts(w) ==
  /\ pc[w] = "mdInsert" /\ DirExists(req[w].dir) /\ dcreated < MaxDirs /\ dcreated' = dcreated + 1
  /\ dirs' = [dirs EXCEPT ![dcreated + 1] =
                [name |-> req[w].name, parent |-> req[w].dir, path |-> req[w].path,
                 owner |-> req[w].user]]
  /\ pc' = [pc EXCEPT ![w] = "idle"] /\ req' = [req EXCEPT ![w] = NoReq]
  /\ UNCHANGED <<dirsOnDisk, stolen>>
Deletes(w) ==
  /\ pc[w] = "ddDelete"
  /\ dirs' = [e \in DirIds |-> IF e \in Cascade(req[w].id) THEN NoRow ELSE dirs[e]]
  /\ pc' = [pc EXCEPT ![w] = "ddSweep"]
  /\ req' = [req EXCEPT ![w] =
               [NoReq EXCEPT !.path = req[w].path, !.stale = ~HasDir(req[w].id)]]
  /\ UNCHANGED <<dcreated, dirsOnDisk, stolen>>
Removes(w) ==
  /\ Remove(req[w].path)
  /\ pc' = [pc EXCEPT ![w] = "idle"] /\ req' = [req EXCEPT ![w] = NoReq]
  /\ UNCHANGED <<dirs, dcreated>>

WorkerSteps(w) ==
  \/ Quiet(w) \/ MakeParent(w) \/ Mkdirs(w) \/ Inserts(w) \/ DeleteDirFind(w) \/ Deletes(w)
  \/ DeleteDirSweep(w) \/ Removes(w)

(* A request that asks for nothing. *)
LEMMA NoReqFits == NoReq \in Requests /\ Fits("idle", NoReq)
<1>1. <<>> \in Seq(Names)  BY EmptySeq
<1> QED  BY <1>1 DEF Fits, NoReq, Requests, Root

(* A request that has nothing but a path. *)
LEMMA PathReq ==
  ASSUME NEW p \in Seq(Names), NEW b \in BOOLEAN
  PROVE  /\ [NoReq EXCEPT !.path = p] \in Requests
         /\ [NoReq EXCEPT !.path = p, !.stale = b] \in Requests
         /\ [NoReq EXCEPT !.path = p, !.stale = b].path = p
         /\ [NoReq EXCEPT !.path = p, !.stale = b].stale = b
<1>1. <<>> \in Seq(Names)  BY EmptySeq
<1> QED  BY <1>1 DEF NoReq, Requests, Root

(* Every step is one of these. *)
LEMMA Kinds ==
  ASSUME Types, [Next]_vars
  PROVE  Stays \/ Restart \/ \E w \in Workers : WorkerSteps(w)
<1>0. /\ pc \in [Workers -> Labels] /\ req \in [Workers -> Requests]
      /\ \A f \in FileIds : HasFile(f) => files[f] \in FileRows
  BY DEF Types, TypeOK, HasFile
<1>1. ASSUME NEW w \in Workers, Answer(w), UNCHANGED <<dirs, dcreated, dirsOnDisk, stolen>>
      PROVE  Quiet(w)
  BY <1>1, NoReqFits DEF Answer, Goto, Quiet, QuietLabels
<1>2. ASSUME NEW w \in Workers, NEW label \in QuietLabels, NEW p \in Seq(Names), Goto(w, label),
             label # "sfInsert", req' = [req EXCEPT ![w] = [NoReq EXCEPT !.path = p]],
             UNCHANGED <<dirs, dcreated, dirsOnDisk, stolen>>
      PROVE  Quiet(w)
  <2>1. [NoReq EXCEPT !.path = p] \in Requests  BY PathReq
  <2>2. Fits(label, [NoReq EXCEPT !.path = p])  BY <1>2, <2>1 DEF Fits, QuietLabels
  <2> QED  BY <1>2, <2>1, <2>2 DEF Goto, Quiet
<1>3. CASE UNCHANGED vars  BY <1>3 DEF vars, Stays
<1>4. CASE Upload \/ DeleteElsewhere  BY <1>4 DEF Upload, DeleteElsewhere, Stays, db, disk
<1>5. ASSUME NEW w \in Workers, MakeMkdir(w) PROVE WorkerSteps(w)
  BY <1>1, <1>5 DEF MakeMkdir, Mkdirs, WorkerSteps, At, Goto, db
<1>6. ASSUME NEW w \in Workers, MakeInsert(w) PROVE WorkerSteps(w)
  BY <1>1, <1>6 DEF MakeInsert, Inserts, WorkerSteps, At, Answer, Goto, disk
<1>7. ASSUME NEW w \in Workers, DeleteDirRow(w) PROVE WorkerSteps(w)
  BY <1>1, <1>7 DEF DeleteDirRow, Deletes, WorkerSteps, At, Goto, disk
<1>8. ASSUME NEW w \in Workers, SaveAccess(w) PROVE WorkerSteps(w)
  <2>1. PICK u \in Users, g \in Groups, d \in {Root, Elsewhere} \cup DirIds, n \in Names, p \in Spots :
          Begin(w, "sfInsert", [NoReq EXCEPT !.user = u, !.group = g, !.dir = d,
                                             !.name = <<n>>, !.path = p])
    BY <1>8 DEF SaveAccess
  <2> DEFINE r == [NoReq EXCEPT !.user = u, !.group = g, !.dir = d, !.name = <<n>>, !.path = p]
  <2>2. PICK k \in 0..MaxDepth + 1 : p \in [1..k -> Names]  BY DEF Spots, Paths
  <2>3. k \in Nat  BY BoundsAssumption
  <2>4. p \in Seq(Names) /\ <<n>> \in Seq(Names) /\ <<>> \in Seq(Names)
    BY <2>2, <2>3, SeqDef, EmptySeq
  <2>5. d \in Nat  BY BoundsAssumption DEF Root, Elsewhere, DirIds
  <2>6. r \in Requests /\ r.user = u /\ r.group = g /\ r.dir = d
    BY <2>4, <2>5 DEF Requests, NoReq, Root
  <2> HIDE DEF r
  <2>7. Fits("sfInsert", r)  BY <2>6 DEF Fits
  <2>8. Goto(w, "sfInsert") /\ req' = [req EXCEPT ![w] = r]  BY <2>1 DEF Begin, r
  <2> QED  BY <1>8, <2>6, <2>7, <2>8 DEF SaveAccess, Goto, Quiet, QuietLabels, WorkerSteps, db, disk
<1>9. ASSUME NEW w \in Workers, SaveInsert(w) PROVE WorkerSteps(w)
  <2>1. req[w].path \in Seq(Names)  BY <1>0 DEF Requests
  <2>2. UNCHANGED <<dirs, dcreated, dirsOnDisk, stolen>>  BY <1>9 DEF SaveInsert, disk
  <2>3. \/ Answer(w)
        \/ Goto(w, "sfUndo") /\ req' = [req EXCEPT ![w] = [NoReq EXCEPT !.path = req[w].path]]
    BY <1>9 DEF SaveInsert
  <2>4. "sfUndo" \in QuietLabels  BY DEF QuietLabels
  <2> QED  BY <1>1, <1>2, <2>1, <2>2, <2>3, <2>4 DEF WorkerSteps
<1>10. ASSUME NEW w \in Workers, DeleteFileFind(w) PROVE WorkerSteps(w)
  <2>1. PICK f \in FileIds : /\ HasFile(f)
                             /\ Begin(w, "dfDelete", [NoReq EXCEPT !.id = f, !.path = files[f].path])
    BY <1>10 DEF DeleteFileFind
  <2> DEFINE r == [NoReq EXCEPT !.id = f, !.path = files[f].path]
  <2>2. files[f].path \in Seq(Names) /\ <<>> \in Seq(Names)  BY <1>0, <2>1, EmptySeq DEF FileRows
  <2>3. f \in Nat  BY DEF FileIds
  <2>4. r \in Requests  BY <2>2, <2>3 DEF Requests, NoReq, Root
  <2> HIDE DEF r
  <2>5. Fits("dfDelete", r)  BY <2>4 DEF Fits
  <2>6. Goto(w, "dfDelete") /\ req' = [req EXCEPT ![w] = r]  BY <2>1 DEF Begin, r
  <2> QED  BY <1>10, <2>4, <2>5, <2>6 DEF DeleteFileFind, Goto, Quiet, QuietLabels, WorkerSteps, db, disk
<1>11. ASSUME NEW w \in Workers, DeleteFileRow(w) PROVE WorkerSteps(w)
  <2>1. req[w].path \in Seq(Names)  BY <1>0 DEF Requests
  <2>2. UNCHANGED <<dirs, dcreated, dirsOnDisk, stolen>>  BY <1>11 DEF DeleteFileRow, disk
  <2>3. \/ Answer(w)
        \/ Goto(w, "dfUnlink") /\ req' = [req EXCEPT ![w] = [NoReq EXCEPT !.path = req[w].path]]
    BY <1>11 DEF DeleteFileRow
  <2>4. "dfUnlink" \in QuietLabels  BY DEF QuietLabels
  <2> QED  BY <1>1, <1>2, <2>1, <2>2, <2>3, <2>4 DEF WorkerSteps
<1>12. ASSUME NEW w \in Workers, SaveUndo(w) \/ DeleteFileUnlink(w) PROVE WorkerSteps(w)
  BY <1>12 DEF SaveUndo, DeleteFileUnlink, Removes, WorkerSteps, Answer, Goto, db
<1>13. ASSUME NEW w \in Workers, MakeParent(w) \/ DeleteDirFind(w) \/ DeleteDirSweep(w)
       PROVE  WorkerSteps(w)
  BY <1>13 DEF WorkerSteps
<1> QED
  BY <1>3, <1>4, <1>5, <1>6, <1>7, <1>8, <1>9, <1>10, <1>11, <1>12, <1>13 DEF Next

-----------------------------------------------------------------------------
(* Types. *)

(* The types hold at the start. *)
LEMMA InitTypes == Init => Types
<1> SUFFICES ASSUME Init PROVE Types  OBVIOUS
<1>1. <<>> \in Seq(Names)  BY EmptySeq
<1> QED
  BY <1>1, NoReqFits, BoundsAssumption
  DEF Init, Types, TypeOK, DirIds, FileIds, Labels

(* What becomes of the worker that takes a step. *)
LEMMA WorkerTypes ==
  ASSUME Types, NEW w \in Workers, NEW label \in Labels, NEW r, Fits(label, r),
         pc' = [pc EXCEPT ![w] = label], req' = [req EXCEPT ![w] = r]
  PROVE  /\ pc' \in [Workers -> Labels] /\ req' \in [Workers -> Requests]
         /\ \A v \in Workers : Fits(pc'[v], req'[v])
<1>1. pc \in [Workers -> Labels] /\ req \in [Workers -> Requests] /\ r \in Requests
  BY DEF Types, TypeOK, Fits
<1>2. \A v \in Workers : v # w => pc'[v] = pc[v] /\ req'[v] = req[v]  BY <1>1
<1>3. pc'[w] = label /\ req'[w] = r  BY <1>1
<1> QED  BY <1>1, <1>2, <1>3 DEF Types

(* What holds of directories and workers after a step. *)
MovedTypes ==
  /\ dirs \in [DirIds -> DirRows \cup {NoRow}] /\ dcreated \in 0..MaxDirs
  /\ pc \in [Workers -> Labels] /\ req \in [Workers -> Requests]
  /\ \A w \in Workers : Fits(pc[w], req[w])
  /\ dirsOnDisk \subseteq Seq(Names) /\ stolen \subseteq Seq(Names)

(* Every step keeps the types of directories and workers. *)
LEMMA StepMovedTypes ==
  ASSUME Types, [Next]_vars
  PROVE  MovedTypes'
<1>0. /\ dirs \in [DirIds -> DirRows \cup {NoRow}] /\ dcreated \in 0..MaxDirs
      /\ pc \in [Workers -> Labels] /\ req \in [Workers -> Requests]
      /\ dirsOnDisk \subseteq Seq(Names) /\ filesOnDisk \subseteq Seq(Names)
      /\ stolen \subseteq Seq(Names)
      /\ \A w \in Workers : Fits(pc[w], req[w])
      /\ \A d : HasDir(d) => /\ d \in DirIds /\ dirs[d] \in DirRows
                             /\ dirs[d].path \in Seq(Names)
      /\ \A w \in Workers : req[w].path \in Seq(Names)
  <2>1. dirs \in [DirIds -> DirRows \cup {NoRow}] /\ req \in [Workers -> Requests]  BY DEF Types
  <2>2. \A d : HasDir(d) => d \in DirIds /\ dirs[d] \in DirRows  BY <2>1 DEF HasDir
  <2>3. \A d : HasDir(d) => dirs[d].path \in Seq(Names)  BY <2>2 DEF DirRows
  <2>4. \A w \in Workers : req[w].path \in Seq(Names)  BY <2>1 DEF Requests
  <2> QED  BY <2>1, <2>2, <2>3, <2>4 DEF Types, TypeOK
<1> DEFINE Worked == /\ pc' \in [Workers -> Labels] /\ req' \in [Workers -> Requests]
                     /\ \A v \in Workers : Fits(pc'[v], req'[v])
<1>1. CASE Stays  BY <1>0, <1>1 DEF Stays, MovedTypes
<1>2. CASE Restart
  <2>1. Worked  BY <1>2, NoReqFits DEF Restart, Labels
  <2> QED  BY <1>0, <1>2, <2>1 DEF Restart, MovedTypes, db, disk
<1>3. ASSUME NEW w \in Workers, Quiet(w) PROVE MovedTypes'
  <2>1. PICK label \in QuietLabels, r \in Requests :
          /\ Fits(label, r)
          /\ pc' = [pc EXCEPT ![w] = label] /\ req' = [req EXCEPT ![w] = r]
    BY <1>3 DEF Quiet
  <2>2. label \in Labels  BY DEF QuietLabels, Labels
  <2>3. Worked  BY <2>1, <2>2, WorkerTypes
  <2> QED  BY <1>0, <1>3, <2>3 DEF Quiet, MovedTypes
<1>4. ASSUME NEW w \in Workers, MakeParent(w) PROVE MovedTypes'
  <2>1. PICK u \in Users, d \in {Root} \cup DirIds, n \in Texts :
          /\ d = Root \/ HasDir(d)
          /\ Begin(w, "mdMkdir", [NoReq EXCEPT !.user = u, !.dir = d, !.name = n,
                                               !.path = PathOf(d) \o n])
    BY <1>4 DEF MakeParent
  <2> DEFINE r == [NoReq EXCEPT !.user = u, !.dir = d, !.name = n, !.path = PathOf(d) \o n]
  <2>2. PathOf(d) \in Seq(Names)  BY <1>0, <2>1, EmptySeq DEF PathOf
  <2>3. n \in Seq(Names) /\ PathOf(d) \o n \in Seq(Names)  BY <2>2, TextFacts, ConcatFacts
  <2>4. d \in Nat  BY DEF Root, DirIds
  <2>5. r \in Requests /\ r.user = u /\ r.name = n /\ r.dir = d
    BY <2>3, <2>4 DEF Requests, NoReq, Root
  <2> HIDE DEF r
  <2>6. Fits("mdMkdir", r)  BY <2>5 DEF Fits
  <2>7. "mdMkdir" \in Labels  BY DEF Labels
  <2>8. pc' = [pc EXCEPT ![w] = "mdMkdir"] /\ req' = [req EXCEPT ![w] = r]
    BY <2>1 DEF Begin, Goto, r
  <2>9. Worked  BY <2>6, <2>7, <2>8, WorkerTypes
  <2> QED  BY <1>0, <1>4, <2>9 DEF MakeParent, MovedTypes, db, disk
<1>5. ASSUME NEW w \in Workers, Mkdirs(w) PROVE MovedTypes'
  <2> DEFINE p == req[w].path
  <2>1. /\ pc[w] = "mdMkdir" /\ dirsOnDisk' = dirsOnDisk \cup {p}
        /\ req' = [v \in Workers |-> [req[v] EXCEPT !.stale = @ \/ SweepsStill(v, p)]]
        /\ pc' = [pc EXCEPT ![w] = "mdInsert"]
        /\ UNCHANGED <<dirs, dcreated, stolen>>
    BY <1>5 DEF Mkdirs
  <2>2. ASSUME NEW v \in Workers
        PROVE  /\ req'[v] \in Requests /\ req'[v].user = req[v].user /\ req'[v].name = req[v].name
               /\ req'[v].dir = req[v].dir /\ req'[v].group = req[v].group
    <3>1. req[v] \in Requests /\ SweepsStill(v, p) \in BOOLEAN  BY <1>0 DEF SweepsStill
    <3>2. req'[v] = [req[v] EXCEPT !.stale = req[v].stale \/ SweepsStill(v, p)]  BY <2>1
    <3>3. (req[v].stale \/ SweepsStill(v, p)) \in BOOLEAN  BY <3>1 DEF Requests
    <3> QED  BY <3>1, <3>2, <3>3 DEF Requests
  <2>3. \A v \in Workers : pc'[v] = IF v = w THEN "mdInsert" ELSE pc[v]  BY <1>0, <2>1
  <2>4. ASSUME NEW v \in Workers PROVE Fits(pc'[v], req'[v])
    <3>1. Fits(pc[v], req[v])  BY <1>0
    <3>2. CASE v = w  BY <2>1, <2>2, <2>3, <3>1, <3>2 DEF Fits
    <3>3. CASE v # w  BY <2>2, <2>3, <3>1, <3>3 DEF Fits
    <3> QED  BY <3>2, <3>3
  <2>5. req' \in [Workers -> Requests]  BY <2>1, <2>2
  <2>6. pc' \in [Workers -> Labels]  BY <1>0, <2>1 DEF Labels
  <2> QED  BY <1>0, <2>1, <2>4, <2>5, <2>6 DEF MovedTypes
<1>6. ASSUME NEW w \in Workers, Inserts(w) PROVE MovedTypes'
  <2>1. Worked
    <3>1. "idle" \in Labels  BY DEF Labels
    <3> QED  BY <1>6, <3>1, NoReqFits, WorkerTypes DEF Inserts
  <2>2. dirs' \in [DirIds -> DirRows \cup {NoRow}] /\ dcreated' \in 0..MaxDirs
    <3>1. Fits("mdInsert", req[w]) /\ req[w].path \in Seq(Names)  BY <1>0, <1>6 DEF Inserts
    <3> DEFINE row == [name |-> req[w].name, parent |-> req[w].dir, path |-> req[w].path,
                        owner |-> req[w].user]
    <3>2. row \in DirRows  BY <3>1 DEF Fits, DirRows
    <3>3. dcreated < MaxDirs /\ dcreated' = dcreated + 1 /\ dirs' = [dirs EXCEPT ![dcreated + 1] = row]
      BY <1>6 DEF Inserts
    <3> HIDE DEF row
    <3>4. dcreated + 1 \in DirIds /\ dcreated + 1 \in 0..MaxDirs
      BY <1>0, <3>3, BoundsAssumption DEF DirIds
    <3> QED  BY <1>0, <3>2, <3>3, <3>4
  <2> QED  BY <1>0, <1>6, <2>1, <2>2 DEF Inserts, MovedTypes
<1>7. ASSUME NEW w \in Workers, DeleteDirFind(w) PROVE MovedTypes'
  <2>1. PICK d \in DirIds :
          HasDir(d) /\ Begin(w, "ddDelete", [NoReq EXCEPT !.id = d, !.path = dirs[d].path])
    BY <1>7 DEF DeleteDirFind
  <2> DEFINE r == [NoReq EXCEPT !.id = d, !.path = dirs[d].path]
  <2>2. dirs[d].path \in Seq(Names) /\ <<>> \in Seq(Names) /\ d \in Nat
    BY <1>0, <2>1, EmptySeq DEF DirIds
  <2>3. r \in Requests  BY <2>2 DEF Requests, NoReq, Root
  <2> HIDE DEF r
  <2>4. Fits("ddDelete", r) /\ "ddDelete" \in Labels  BY <2>3 DEF Fits, Labels
  <2>5. pc' = [pc EXCEPT ![w] = "ddDelete"] /\ req' = [req EXCEPT ![w] = r]
    BY <2>1 DEF Begin, Goto, r
  <2>6. Worked  BY <2>4, <2>5, WorkerTypes
  <2> QED  BY <1>0, <1>7, <2>6 DEF DeleteDirFind, MovedTypes, db, disk
<1>8. ASSUME NEW w \in Workers, Deletes(w) PROVE MovedTypes'
  <2> DEFINE r == [NoReq EXCEPT !.path = req[w].path, !.stale = ~HasDir(req[w].id)]
  <2>1. r \in Requests
    <3>1. (~HasDir(req[w].id)) \in BOOLEAN  BY DEF HasDir
    <3> QED  BY <1>0, <3>1, PathReq
  <2> HIDE DEF r
  <2>2. Fits("ddSweep", r) /\ "ddSweep" \in Labels  BY <2>1 DEF Fits, Labels
  <2>3. pc' = [pc EXCEPT ![w] = "ddSweep"] /\ req' = [req EXCEPT ![w] = r]
    BY <1>8 DEF Deletes, r
  <2>4. Worked  BY <2>2, <2>3, WorkerTypes
  <2>5. dirs' \in [DirIds -> DirRows \cup {NoRow}]  BY <1>0, <1>8 DEF Deletes
  <2> QED  BY <1>0, <1>8, <2>4, <2>5 DEF Deletes, MovedTypes
<1>9. ASSUME NEW w \in Workers, DeleteDirSweep(w) PROVE MovedTypes'
  <2>1. Worked
    <3>1. "idle" \in Labels  BY DEF Labels
    <3> QED  BY <1>9, <3>1, NoReqFits, WorkerTypes DEF DeleteDirSweep, Answer, Goto
  <2>2. dirsOnDisk' \subseteq Seq(Names) /\ stolen' \subseteq Seq(Names)
    BY <1>0, <1>9 DEF DeleteDirSweep, Steal
  <2> QED  BY <1>0, <1>9, <2>1, <2>2 DEF DeleteDirSweep, MovedTypes, db
<1>10. ASSUME NEW w \in Workers, Removes(w) PROVE MovedTypes'
  <2>1. Worked
    <3>1. "idle" \in Labels  BY DEF Labels
    <3> QED  BY <1>10, <3>1, NoReqFits, WorkerTypes DEF Removes
  <2>2. dirsOnDisk' \subseteq Seq(Names) /\ stolen' \subseteq Seq(Names)
    BY <1>0, <1>10 DEF Removes, Remove, Steal
  <2> QED  BY <1>0, <1>10, <2>1, <2>2 DEF Removes, MovedTypes
<1> QED
  BY <1>1, <1>2, <1>3, <1>4, <1>5, <1>6, <1>7, <1>8, <1>9, <1>10, Kinds DEF WorkerSteps

(* What holds of files after a step. *)
LEMMA StepFileTypes ==
  ASSUME Types, [Next]_vars
  PROVE  /\ files' \in [FileIds -> FileRows \cup {NoRow}] /\ fcreated' \in 0..MaxFiles
         /\ filesOnDisk' \subseteq Seq(Names)
<1>0. /\ files \in [FileIds -> FileRows \cup {NoRow}] /\ fcreated \in 0..MaxFiles
      /\ filesOnDisk \subseteq Seq(Names) /\ req \in [Workers -> Requests]
  BY DEF Types, TypeOK
<1>1. CASE UNCHANGED <<files, fcreated, filesOnDisk>>  BY <1>0, <1>1
<1>2. CASE Upload
  <2>1. ASSUME NEW p \in Spots PROVE p \in Seq(Names)
    <3>1. PICK k \in 0..MaxDepth + 1 : p \in [1..k -> Names]  BY DEF Spots, Paths
    <3>2. k \in Nat  BY BoundsAssumption
    <3> QED  BY <3>1, <3>2, SeqDef
  <2>2. PICK p \in Spots : filesOnDisk' = filesOnDisk \cup {p}  BY <1>2 DEF Upload
  <2> QED  BY <1>0, <1>2, <2>1, <2>2 DEF Upload, db
<1>3. CASE DeleteElsewhere  BY <1>0, <1>3 DEF DeleteElsewhere, disk
<1>4. ASSUME NEW w \in Workers, SaveInsert(w), ~UNCHANGED <<files, fcreated>>
      PROVE  /\ files' \in [FileIds -> FileRows \cup {NoRow}] /\ fcreated' \in 0..MaxFiles
             /\ filesOnDisk' = filesOnDisk
  <2>1. Fits("sfInsert", req[w]) /\ req[w] \in Requests  BY <1>0, <1>4 DEF SaveInsert, At, Types
  <2> DEFINE row == [name |-> req[w].name, dir |-> req[w].dir, group |-> req[w].group,
                      path |-> req[w].path, owner |-> req[w].user]
  <2>2. row \in FileRows  BY <2>1 DEF Fits, FileRows, Requests
  <2>3. fcreated < MaxFiles /\ fcreated' = fcreated + 1 /\ files' = [files EXCEPT ![fcreated + 1] = row]
    BY <1>4 DEF SaveInsert
  <2> HIDE DEF row
  <2>4. fcreated + 1 \in FileIds /\ fcreated + 1 \in 0..MaxFiles
    BY <1>0, <2>3, BoundsAssumption DEF FileIds
  <2> QED  BY <1>0, <1>4, <2>2, <2>3, <2>4 DEF SaveInsert, disk
<1>5. ASSUME NEW w \in Workers, DeleteDirRow(w)
      PROVE  /\ files' \in [FileIds -> FileRows \cup {NoRow}]
             /\ UNCHANGED <<fcreated, filesOnDisk>>
  BY <1>0, <1>5 DEF DeleteDirRow, disk
<1>6. ASSUME NEW w \in Workers, DeleteFileRow(w)
      PROVE  /\ files' \in [FileIds -> FileRows \cup {NoRow}]
             /\ UNCHANGED <<fcreated, filesOnDisk>>
  BY <1>0, <1>6 DEF DeleteFileRow, disk
<1>7. ASSUME NEW w \in Workers, DeleteDirSweep(w) \/ SaveUndo(w) \/ DeleteFileUnlink(w)
      PROVE  UNCHANGED <<files, fcreated>> /\ filesOnDisk' \subseteq filesOnDisk
  BY <1>7 DEF DeleteDirSweep, SaveUndo, DeleteFileUnlink, Remove, db
<1>8. ASSUME NEW w \in Workers,
             MakeParent(w) \/ MakeMkdir(w) \/ MakeInsert(w) \/ DeleteDirFind(w) \/ SaveAccess(w)
             \/ DeleteFileFind(w)
      PROVE  UNCHANGED <<files, fcreated, filesOnDisk>>
  BY <1>8 DEF MakeParent, MakeMkdir, MakeInsert, DeleteDirFind, SaveAccess, DeleteFileFind, db, disk
<1>9. CASE Restart \/ UNCHANGED vars  BY <1>1, <1>9 DEF Restart, vars, db, disk
<1>10. ASSUME NEW w \in Workers, SaveInsert(w), UNCHANGED <<files, fcreated>>
       PROVE  UNCHANGED <<files, fcreated, filesOnDisk>>
  BY <1>10 DEF SaveInsert, disk
<1> QED
  BY <1>0, <1>1, <1>2, <1>3, <1>4, <1>5, <1>6, <1>7, <1>8, <1>9, <1>10 DEF Next

(* Every step keeps the types. *)
LEMMA StepTypes ==
  ASSUME Types, [Next]_vars
  PROVE  Types'
<1>1. MovedTypes'  BY StepMovedTypes
<1>2. /\ files' \in [FileIds -> FileRows \cup {NoRow}] /\ fcreated' \in 0..MaxFiles
      /\ filesOnDisk' \subseteq Seq(Names)
  BY StepFileTypes
<1> QED  BY <1>1, <1>2 DEF MovedTypes, Types, TypeOK

-----------------------------------------------------------------------------
(* Rows and requests. *)

(* At the start there are no rows and no requests. *)
LEMMA InitPaths == Init => PathsRight /\ FileTree
BY DEF Init, PathsRight, DirTree, FileTree, HasDir, HasFile, WorkerPath

(* A row goes with its parent. *)
LEMMA CascadeClosed ==
  ASSUME NEW d, NEW x, HasDir(x), dirs[x].parent \in Cascade(d)
  PROVE  x \in Cascade(d)
BY DEF Cascade, HasDir

(* The row that is deleted goes. *)
LEMMA CascadeSelf ==
  ASSUME NEW d, HasDir(d)
  PROVE  d \in Cascade(d)
BY DEF Cascade, HasDir

(* No row changes, and no id is used twice. *)
RowsPersist ==
  /\ dcreated' \in Nat /\ dcreated <= dcreated'
  /\ \A d \in DirIds : dirs'[d] # NoRow /\ d <= dcreated => dirs'[d] = dirs[d]

(* Every step is such a step. *)
LEMMA StepPersist ==
  ASSUME Types, [Next]_vars
  PROVE  RowsPersist
<1>0. dirs \in [DirIds -> DirRows \cup {NoRow}] /\ dcreated \in Nat
  BY BoundsAssumption DEF Types, TypeOK
<1>1. ASSUME UNCHANGED <<dirs, dcreated>> PROVE RowsPersist
  BY <1>0, <1>1 DEF RowsPersist
<1>2. ASSUME NEW w \in Workers, Inserts(w) PROVE RowsPersist
  <2>1. PICK row : dcreated' = dcreated + 1 /\ dirs' = [dirs EXCEPT ![dcreated + 1] = row]
    BY <1>2 DEF Inserts
  <2>2. \A d \in DirIds : d <= dcreated => dirs'[d] = dirs[d]
    BY <1>0, <2>1 DEF DirIds
  <2> QED  BY <1>0, <2>1, <2>2 DEF RowsPersist
<1>3. ASSUME NEW w \in Workers, Deletes(w) PROVE RowsPersist
  <2>1. \A d \in DirIds : dirs'[d] = NoRow \/ dirs'[d] = dirs[d]
    BY <1>3 DEF Deletes
  <2>2. dcreated' = dcreated  BY <1>3 DEF Deletes
  <2> QED  BY <1>0, <2>1, <2>2 DEF RowsPersist
<1>4. CASE Stays \/ Restart  BY <1>1, <1>4 DEF Stays, Restart, db
<1>5. ASSUME NEW w \in Workers,
             Quiet(w) \/ MakeParent(w) \/ Mkdirs(w) \/ DeleteDirFind(w) \/ DeleteDirSweep(w) \/ Removes(w)
      PROVE  RowsPersist
  BY <1>1, <1>5 DEF Quiet, MakeParent, Mkdirs, DeleteDirFind, DeleteDirSweep, Removes, db
<1> QED  BY <1>2, <1>3, <1>4, <1>5, Kinds DEF WorkerSteps

(* So a path that was right once is right while the row is there. *)
LEMMA FollowsKept ==
  ASSUME Types, RowsPersist, NEW r, r.dir \in {Root} \cup DirIds, r.dir <= dcreated, Follows(r),
         NEW s, s.dir = r.dir, s.name = r.name, s.path = r.path
  PROVE  s.dir <= dcreated' /\ Follows(s)'
<1>1. dcreated \in Nat /\ dcreated' \in Nat /\ dcreated <= dcreated' /\ r.dir \in Nat
  BY BoundsAssumption DEF Types, TypeOK, RowsPersist, Root, DirIds
<1>2. s.dir <= dcreated'  BY <1>1
<1>3. CASE r.dir = Root  BY <1>2, <1>3 DEF Follows, Live, PathOf
<1>4. CASE r.dir # Root
  <2>1. ASSUME r.dir \in DirIds, dirs'[r.dir] # NoRow
        PROVE  dirs[r.dir] # NoRow /\ dirs'[r.dir] = dirs[r.dir]
    BY <2>1 DEF RowsPersist
  <2> QED  BY <1>2, <1>4, <2>1 DEF Follows, Live, PathOf, HasDir
<1> QED  BY <1>3, <1>4

(* A worker keeps its path when it stands still, or has made its directory.*)
LEMMA WorkerPathKept ==
  ASSUME Types, RowsPersist, NEW v \in Workers, WorkerPath(v),
         req'[v].dir = req[v].dir, req'[v].id = req[v].id, req'[v].name = req[v].name,
         req'[v].path = req[v].path,
         pc'[v] = pc[v] \/ (pc[v] = "mdMkdir" /\ pc'[v] = "mdInsert")
  PROVE  WorkerPath(v)'
<1>1. dcreated \in Nat /\ dcreated' \in Nat /\ dcreated <= dcreated'
  BY BoundsAssumption DEF Types, TypeOK, RowsPersist
<1>2. pc'[v] \in {"mdMkdir", "mdInsert"} => req'[v].dir <= dcreated' /\ Follows(req[v])'
  <2>1. SUFFICES ASSUME pc[v] \in {"mdMkdir", "mdInsert"}
                 PROVE  req'[v].dir <= dcreated' /\ Follows(req[v])'
    OBVIOUS
  <2>2. req[v].dir \in {Root} \cup DirIds  BY <2>1 DEF Types, Fits
  <2>3. req[v].dir <= dcreated /\ Follows(req[v])  BY <2>1 DEF WorkerPath
  <2>4. \A s : s.dir = req[v].dir /\ s.name = req[v].name /\ s.path = req[v].path
               => s.dir <= dcreated' /\ Follows(s)'
    BY <2>2, <2>3, FollowsKept
  <2>5. PICK s : s = req'[v]  OBVIOUS
  <2>6. s.dir <= dcreated' /\ Follows(s)'  BY <2>4, <2>5
  <2> QED  BY <2>5, <2>6 DEF Follows
<1>3. pc'[v] = "ddDelete" =>
        req'[v].id \in 1..dcreated' /\ (HasDir(req[v].id)' => req'[v].path = dirs'[req'[v].id].path)
  <2>1. SUFFICES ASSUME pc[v] = "ddDelete"
                 PROVE  req'[v].id \in 1..dcreated'
                        /\ (HasDir(req[v].id)' => req'[v].path = dirs'[req'[v].id].path)
    OBVIOUS
  <2>2. req[v].id \in 1..dcreated /\ (HasDir(req[v].id) => req[v].path = dirs[req[v].id].path)
    BY <2>1 DEF WorkerPath
  <2>3. ASSUME HasDir(req[v].id)' PROVE req'[v].path = dirs'[req'[v].id].path
    <3>1. req[v].id \in DirIds /\ dirs'[req[v].id] # NoRow  BY <2>3 DEF HasDir
    <3>2. dirs'[req[v].id] = dirs[req[v].id]  BY <1>1, <2>2, <3>1 DEF RowsPersist
    <3> QED  BY <2>2, <3>1, <3>2 DEF HasDir
  <2> QED  BY <1>1, <2>2, <2>3
<1>4. pc'[v] \in {"ddDelete", "ddSweep"} => req'[v].path # <<>>  BY DEF WorkerPath
<1> QED  BY <1>2, <1>3, <1>4 DEF WorkerPath

(* What a worker that goes to a label must bring. *)
LEMMA WorkerPathNew ==
  ASSUME NEW v \in Workers, pc'[v] \notin {"mdMkdir", "mdInsert", "ddDelete", "ddSweep"}
  PROVE  WorkerPath(v)'
BY DEF WorkerPath

(* Rows of directories have paths, which are not the group's folder's.     *)
LEMMA RowPaths ==
  ASSUME Types, DirTree, NEW d, HasDir(d)
  PROVE  /\ d \in DirIds /\ dirs[d] \in DirRows /\ d <= dcreated
         /\ dirs[d].path \in Seq(Names) /\ dirs[d].path # <<>>
         /\ dirs[d].name \in Texts /\ dirs[d].name \in Seq(Names)
         /\ Live(dirs[d].parent) /\ PathOf(dirs[d].parent) \in Seq(Names)
         /\ dirs[d].path = PathOf(dirs[d].parent) \o dirs[d].name
<1>1. \A e : HasDir(e) => e \in DirIds /\ dirs[e] \in DirRows /\ dirs[e].path \in Seq(Names)
  BY DEF Types, HasDir, DirRows
<1>2. dirs[d].name \in Texts /\ dirs[d].name \in Seq(Names)
  BY <1>1, TextFacts DEF DirRows
<1>3. Live(dirs[d].parent) /\ d <= dcreated /\ dirs[d].path = PathOf(dirs[d].parent) \o dirs[d].name
  BY <1>1 DEF DirTree
<1>4. PathOf(dirs[d].parent) \in Seq(Names)  BY <1>1, <1>3, EmptySeq DEF Live, PathOf
<1>5. dirs[d].path # <<>>  BY <1>2, <1>3, <1>4, TextPath
<1> QED  BY <1>1, <1>2, <1>3, <1>4, <1>5

(* Every step keeps the tree of the rows. *)
LEMMA StepDirTree ==
  ASSUME Types, PathsRight, [Next]_vars
  PROVE  DirTree'
<1>0. /\ dirs \in [DirIds -> DirRows \cup {NoRow}] /\ dcreated \in Nat
      /\ req \in [Workers -> Requests] /\ DirTree
  BY BoundsAssumption DEF Types, TypeOK, PathsRight
<1>1. ASSUME UNCHANGED <<dirs, dcreated>> PROVE DirTree'
  BY <1>0, <1>1 DEF DirTree, HasDir, Live, PathOf
<1>2. ASSUME NEW w \in Workers, Inserts(w) PROVE DirTree'
  <2> DEFINE new == dcreated + 1
             row == [name |-> req[w].name, parent |-> req[w].dir, path |-> req[w].path,
                     owner |-> req[w].user]
  <2>1. /\ DirExists(req[w].dir) /\ dcreated < MaxDirs /\ dcreated' = new
        /\ dirs' = [dirs EXCEPT ![new] = row] /\ pc[w] = "mdInsert"
    BY <1>2 DEF Inserts
  <2>2. new \in DirIds /\ new \notin 0..dcreated  BY <1>0, <2>1, BoundsAssumption DEF DirIds
  <2>3. Live(req[w].dir) /\ req[w].path = PathOf(req[w].dir) \o req[w].name
    <3>1. req[w].dir \in {Root} \cup DirIds  BY <2>1 DEF Types, Fits
    <3>2. Live(req[w].dir)  
      <4>1. Elsewhere \notin {Root} \cup DirIds  BY BoundsAssumption DEF Elsewhere, Root, DirIds
      <4> QED  BY <2>1, <3>1, <4>1 DEF DirExists, Live
    <3> QED  BY <2>1, <3>2 DEF PathsRight, WorkerPath, Follows
  <2>4. row.parent = req[w].dir /\ row.name = req[w].name /\ row.path = req[w].path  OBVIOUS
  <2> HIDE DEF row, new
  <2>5. \A d \in DirIds : d # new => dirs'[d] = dirs[d]  BY <1>0, <2>1
  <2>6. dirs'[new] = row  BY <1>0, <2>1, <2>2
  <2>7. \A d : Live(d) => d # new
    <3>1. Root \in 0..dcreated  BY <1>0 DEF Root
    <3>2. \A d : HasDir(d) => d \in DirIds /\ d <= dcreated  BY <1>0 DEF DirTree, HasDir
    <3>3. \A d : HasDir(d) => d \in 0..dcreated  BY <1>0, <3>2 DEF DirIds
    <3> QED  BY <2>2, <3>1, <3>3 DEF Live
  <2>8. \A d : Live(d) => Live(d)' /\ PathOf(d)' = PathOf(d)
    BY <2>5, <2>7 DEF Live, HasDir, PathOf
  <2>9. ASSUME NEW d \in DirIds, HasDir(d)'
        PROVE  /\ d <= dcreated' /\ Live(dirs[d].parent)'
               /\ dirs'[d].path = PathOf(dirs[d].parent)' \o dirs'[d].name
    <3>1. CASE d = new
      <4>1. d <= dcreated'  BY <2>1, <2>2, <3>1 DEF DirIds
      <4>2. dirs'[d].parent = req[w].dir /\ dirs'[d].name = req[w].name /\ dirs'[d].path = req[w].path
        BY <2>4, <2>6, <3>1
      <4>3. \A e : e = req[w].dir => Live(e)' /\ PathOf(e)' = PathOf(e)  BY <2>3, <2>8
      <4>4. Live(dirs[d].parent)'  BY <4>2, <4>3 DEF Live, HasDir
      <4>5. PathOf(dirs[d].parent)' = PathOf(req[w].dir)  BY <4>2, <4>3 DEF PathOf
      <4> QED  BY <2>3, <4>1, <4>2, <4>4, <4>5
    <3>2. CASE d # new
      <4>1. dirs'[d] = dirs[d] /\ HasDir(d)  BY <2>5, <2>9, <3>2 DEF HasDir
      <4>2. /\ d <= dcreated /\ Live(dirs[d].parent)
            /\ dirs[d].path = PathOf(dirs[d].parent) \o dirs[d].name
        BY <1>0, <4>1 DEF DirTree
      <4>3. d <= dcreated'  BY <1>0, <2>1, <4>2 DEF DirIds, new
      <4>4. \A e : e = dirs[d].parent => Live(e)' /\ PathOf(e)' = PathOf(e)  BY <2>8, <4>2
      <4>5. Live(dirs[d].parent)' /\ PathOf(dirs[d].parent)' = PathOf(dirs[d].parent)
        BY <4>1, <4>4 DEF Live, HasDir, PathOf
      <4> QED  BY <4>1, <4>2, <4>3, <4>5
    <3> QED  BY <3>1, <3>2
  <2> QED  BY <2>9 DEF DirTree
<1>3. ASSUME NEW w \in Workers, Deletes(w) PROVE DirTree'
  <2> DEFINE gone == Cascade(req[w].id)
  <2>1. /\ dirs' = [e \in DirIds |-> IF e \in gone THEN NoRow ELSE dirs[e]]
        /\ dcreated' = dcreated
    BY <1>3 DEF Deletes
  <2>2. \A x : HasDir(x) /\ dirs[x].parent \in gone => x \in gone  BY CascadeClosed
  <2>3. \A x \in gone : x # Root /\ HasDir(x)  BY DEF Cascade, DirIds, Root
  <2> HIDE DEF gone
  <2>4. \A d \in DirIds : dirs'[d] # NoRow => d \notin gone /\ HasDir(d) /\ dirs'[d] = dirs[d]
    BY <2>1 DEF HasDir
  <2>5. \A d : Live(d) /\ d \notin gone => Live(d)' /\ PathOf(d)' = PathOf(d)
    BY <2>1 DEF Live, HasDir, PathOf
  <2>6. ASSUME NEW d \in DirIds, HasDir(d)'
        PROVE  /\ d <= dcreated' /\ Live(dirs[d].parent)'
               /\ dirs'[d].path = PathOf(dirs[d].parent)' \o dirs'[d].name
    <3>1. d \notin gone /\ HasDir(d) /\ dirs'[d] = dirs[d]  BY <2>4, <2>6 DEF HasDir
    <3>2. /\ d <= dcreated /\ Live(dirs[d].parent)
          /\ dirs[d].path = PathOf(dirs[d].parent) \o dirs[d].name
      BY <1>0, <3>1 DEF DirTree
    <3>3. dirs[d].parent \notin gone  BY <2>2, <3>1
    <3>4. \A e : e = dirs[d].parent => Live(e)' /\ PathOf(e)' = PathOf(e)  BY <2>5, <3>2, <3>3
    <3>5. Live(dirs[d].parent)' /\ PathOf(dirs[d].parent)' = PathOf(dirs[d].parent)
      BY <3>1, <3>4 DEF Live, HasDir, PathOf
    <3> QED  BY <2>1, <3>1, <3>2, <3>5
  <2> QED  BY <2>6 DEF DirTree
<1>4. CASE Stays \/ Restart  BY <1>1, <1>4 DEF Stays, Restart, db
<1>5. ASSUME NEW w \in Workers,
             Quiet(w) \/ MakeParent(w) \/ Mkdirs(w) \/ DeleteDirFind(w) \/ DeleteDirSweep(w) \/ Removes(w)
      PROVE  DirTree'
  BY <1>1, <1>5 DEF Quiet, MakeParent, Mkdirs, DeleteDirFind, DeleteDirSweep, Removes, db
<1> QED  BY <1>2, <1>3, <1>4, <1>5, Kinds DEF WorkerSteps

(* Every step keeps what the workers hold of paths. *)
LEMMA StepWorkerPath ==
  ASSUME Types, PathsRight, [Next]_vars, NEW v \in Workers
  PROVE  WorkerPath(v)'
<1>0. /\ pc \in [Workers -> Labels] /\ req \in [Workers -> Requests] /\ dcreated \in Nat
      /\ dirs \in [DirIds -> DirRows \cup {NoRow}] /\ WorkerPath(v) /\ DirTree /\ RowsPersist
  BY BoundsAssumption, StepPersist DEF Types, TypeOK, PathsRight
<1>1. ASSUME pc'[v] = pc[v], req'[v] = req[v] PROVE WorkerPath(v)'
  BY <1>0, <1>1, WorkerPathKept
<1>2. ASSUME NEW w \in Workers, v # w, NEW label, NEW r,
             pc' = [pc EXCEPT ![w] = label], req' = [req EXCEPT ![w] = r]
      PROVE  WorkerPath(v)'
  BY <1>0, <1>1, <1>2
<1>3. CASE Stays  BY <1>1, <1>3 DEF Stays
<1>4. CASE Restart
  <2>1. pc'[v] = "idle"  BY <1>4 DEF Restart
  <2> QED  BY <2>1, WorkerPathNew
<1>5. ASSUME NEW w \in Workers, Quiet(w) PROVE WorkerPath(v)'
  <2>1. PICK label \in QuietLabels, r \in Requests :
          pc' = [pc EXCEPT ![w] = label] /\ req' = [req EXCEPT ![w] = r]
    BY <1>5 DEF Quiet
  <2>2. CASE v = w
    <3>1. pc'[v] = label  BY <1>0, <2>1, <2>2
    <3>2. pc'[v] \notin {"mdMkdir", "mdInsert", "ddDelete", "ddSweep"}  BY <3>1 DEF QuietLabels
    <3> QED  BY <3>2, WorkerPathNew
  <2> QED  BY <1>2, <2>1, <2>2
<1>6. ASSUME NEW w \in Workers, MakeParent(w) PROVE WorkerPath(v)'
  <2>1. PICK u \in Users, d \in {Root} \cup DirIds, n \in Texts :
          /\ d = Root \/ HasDir(d)
          /\ Begin(w, "mdMkdir", [NoReq EXCEPT !.user = u, !.dir = d, !.name = n,
                                               !.path = PathOf(d) \o n])
    BY <1>6 DEF MakeParent
  <2> DEFINE r == [NoReq EXCEPT !.user = u, !.dir = d, !.name = n, !.path = PathOf(d) \o n]
  <2>2. r.dir = d /\ r.name = n /\ r.path = PathOf(d) \o n  BY DEF NoReq
  <2>3. pc' = [pc EXCEPT ![w] = "mdMkdir"] /\ req' = [req EXCEPT ![w] = r]
    BY <2>1 DEF Begin, Goto
  <2> HIDE DEF r
  <2>4. CASE v = w
    <3>1. pc'[v] = "mdMkdir" /\ req'[v] = r /\ UNCHANGED <<dirs, dcreated>>
      BY <1>0, <1>6, <2>3, <2>4 DEF MakeParent, db
    <3>2. d <= dcreated
      <4>1. CASE d = Root  BY <1>0, <4>1 DEF Root
      <4>2. CASE d # Root  BY <1>0, <2>1, <4>2 DEF DirTree, HasDir
      <4> QED  BY <4>1, <4>2
    <3>3. Follows(req[v])'  BY <2>2, <3>1 DEF Follows, PathOf
    <3> QED  BY <2>2, <3>1, <3>2, <3>3 DEF WorkerPath
  <2> QED  BY <1>2, <2>3, <2>4
<1>7. ASSUME NEW w \in Workers, Mkdirs(w) PROVE WorkerPath(v)'
  <2>1. /\ pc[w] = "mdMkdir" /\ pc' = [pc EXCEPT ![w] = "mdInsert"]
        /\ req' = [x \in Workers |-> [req[x] EXCEPT !.stale = @ \/ SweepsStill(x, req[w].path)]]
    BY <1>7 DEF Mkdirs
  <2>2. /\ req'[v].dir = req[v].dir /\ req'[v].id = req[v].id
        /\ req'[v].name = req[v].name /\ req'[v].path = req[v].path
    <3>1. req[v] \in Requests  BY <1>0
    <3>2. req'[v] = [req[v] EXCEPT !.stale = req[v].stale \/ SweepsStill(v, req[w].path)]
      BY <2>1
    <3> QED  BY <3>1, <3>2 DEF Requests
  <2>3. pc'[v] = pc[v] \/ (pc[v] = "mdMkdir" /\ pc'[v] = "mdInsert")  BY <1>0, <2>1
  <2> QED  BY <1>0, <2>2, <2>3, WorkerPathKept
<1>8. ASSUME NEW w \in Workers, Inserts(w) \/ DeleteDirSweep(w) \/ Removes(w) PROVE WorkerPath(v)'
  <2>1. pc' = [pc EXCEPT ![w] = "idle"] /\ req' = [req EXCEPT ![w] = NoReq]
    BY <1>8 DEF Inserts, DeleteDirSweep, Removes, Answer, Goto
  <2>2. CASE v = w
    <3>1. pc'[v] = "idle"  BY <1>0, <2>1, <2>2
    <3> QED  BY <3>1, WorkerPathNew
  <2> QED  BY <1>2, <2>1, <2>2
<1>9. ASSUME NEW w \in Workers, DeleteDirFind(w) PROVE WorkerPath(v)'
  <2>1. PICK d \in DirIds :
          HasDir(d) /\ Begin(w, "ddDelete", [NoReq EXCEPT !.id = d, !.path = dirs[d].path])
    BY <1>9 DEF DeleteDirFind
  <2> DEFINE r == [NoReq EXCEPT !.id = d, !.path = dirs[d].path]
  <2>2. r.id = d /\ r.path = dirs[d].path  BY DEF NoReq
  <2>3. pc' = [pc EXCEPT ![w] = "ddDelete"] /\ req' = [req EXCEPT ![w] = r]
    BY <2>1 DEF Begin, Goto
  <2> HIDE DEF r
  <2>4. CASE v = w
    <3>1. pc'[v] = "ddDelete" /\ req'[v] = r /\ UNCHANGED <<dirs, dcreated>>
      BY <1>0, <1>9, <2>3, <2>4 DEF DeleteDirFind, db
    <3>2. d <= dcreated /\ dirs[d].path # <<>>  BY <1>0, <2>1, RowPaths
    <3>3. d \in 1..dcreated  BY <1>0, <3>2 DEF DirIds
    <3> QED  BY <2>2, <3>1, <3>2, <3>3 DEF WorkerPath
  <2> QED  BY <1>2, <2>3, <2>4
<1>10. ASSUME NEW w \in Workers, Deletes(w) PROVE WorkerPath(v)'
  <2> DEFINE r == [NoReq EXCEPT !.path = req[w].path, !.stale = ~HasDir(req[w].id)]
  <2>1. pc[w] = "ddDelete" /\ pc' = [pc EXCEPT ![w] = "ddSweep"] /\ req' = [req EXCEPT ![w] = r]
    BY <1>10 DEF Deletes
  <2>2. r.path = req[w].path
    <3>1. req[w].path \in Seq(Names)  BY <1>0 DEF Requests
    <3> QED  BY DEF NoReq
  <2> HIDE DEF r
  <2>3. CASE v = w
    <3>1. pc'[v] = "ddSweep" /\ req'[v] = r  BY <1>0, <2>1, <2>3
    <3>2. req[v].path # <<>>  BY <1>0, <2>1, <2>3 DEF WorkerPath
    <3> QED  BY <2>2, <2>3, <3>1, <3>2 DEF WorkerPath
  <2> QED  BY <1>2, <2>1, <2>3
<1> QED
  BY <1>3, <1>4, <1>5, <1>6, <1>7, <1>8, <1>9, <1>10, Kinds DEF WorkerSteps

(* Every step keeps the rows and the requests in order. *)
LEMMA StepPaths ==
  ASSUME Types, PathsRight, [Next]_vars
  PROVE  PathsRight'
BY StepDirTree, StepWorkerPath DEF PathsRight

-----------------------------------------------------------------------------
(* The rows of files. *)

(* A file's row goes with its directory's. *)
LEMMA StepFileTree ==
  ASSUME Types, PathsRight, FileTree, [Next]_vars
  PROVE  FileTree'
<1>0. /\ files \in [FileIds -> FileRows \cup {NoRow}] /\ dirs \in [DirIds -> DirRows \cup {NoRow}]
      /\ dcreated \in Nat
  BY BoundsAssumption DEF Types, TypeOK
<1>1. ASSUME \A d : DirExists(d) => DirExists(d)',
             \A f \in FileIds : files'[f] # NoRow =>
               (files'[f] = files[f] /\ files[f] # NoRow) \/ DirExists(files'[f].dir)
      PROVE  FileTree'
  <2> SUFFICES ASSUME NEW f \in FileIds, files'[f] # NoRow PROVE DirExists(files[f].dir)'
    BY DEF FileTree, HasFile
  <2>1. DirExists(files'[f].dir)
    <3>1. CASE files'[f] = files[f] /\ files[f] # NoRow  BY <3>1 DEF FileTree, HasFile
    <3> QED  BY <1>1, <3>1
  <2>2. PICK d : d = files'[f].dir  OBVIOUS
  <2>3. DirExists(d)'  BY <1>1, <2>1, <2>2
  <2> QED  BY <2>2, <2>3 DEF DirExists, HasDir
<1>2. ASSUME UNCHANGED <<dirs, files>> PROVE FileTree'
  BY <1>2 DEF FileTree, DirExists, HasDir, HasFile
<1>3. ASSUME UNCHANGED dirs PROVE \A d : DirExists(d) => DirExists(d)'
  BY <1>3 DEF DirExists, HasDir
<1>4. ASSUME NEW w \in Workers, MakeInsert(w) PROVE FileTree'
  <2>1. files' = files  BY <1>4 DEF MakeInsert
  <2>2. \A d \in DirIds : dirs[d] # NoRow => dirs'[d] # NoRow
    <3>1. CASE UNCHANGED dirs  BY <3>1
    <3>2. CASE ~UNCHANGED dirs
      <4> DEFINE row == [name |-> req[w].name, parent |-> req[w].dir, path |-> req[w].path,
                          owner |-> req[w].user]
      <4>1. dirs' = [dirs EXCEPT ![dcreated + 1] = row]  BY <1>4, <3>2 DEF MakeInsert
      <4> HIDE DEF row
      <4>2. \A d \in DirIds : d # dcreated + 1 => dirs'[d] = dirs[d]  BY <1>0, <4>1
      <4>3. \A d \in DirIds : HasDir(d) => d <= dcreated  BY DEF PathsRight, DirTree
      <4>4. \A d \in DirIds : dirs[d] # NoRow => d <= dcreated  BY <4>3 DEF HasDir
      <4>5. \A d \in DirIds : d <= dcreated => d # dcreated + 1  BY <1>0 DEF DirIds
      <4> QED  BY <4>2, <4>4, <4>5
    <3> QED  BY <3>1, <3>2
  <2>3. \A d : DirExists(d) => DirExists(d)'  BY <2>2 DEF DirExists, HasDir
  <2> QED  BY <1>1, <2>1, <2>3
<1>5. ASSUME NEW w \in Workers, DeleteDirRow(w) PROVE FileTree'
  <2>1. CASE UNCHANGED <<dirs, files>>  BY <1>2, <2>1
  <2>2. CASE ~UNCHANGED <<dirs, files>>
    <3> DEFINE gone == Cascade(req[w].id)
    <3>1. /\ dirs' = [e \in DirIds |-> IF e \in gone THEN NoRow ELSE dirs[e]]
          /\ files' = [f \in FileIds |-> IF HasFile(f) /\ files[f].dir \in gone THEN NoRow ELSE files[f]]
      BY <1>5, <2>2 DEF DeleteDirRow
    <3>2. \A d \in gone : d \in DirIds  BY DEF Cascade
    <3> HIDE DEF gone
    <3>3. ASSUME NEW f \in FileIds, files'[f] # NoRow PROVE DirExists(files[f].dir)'
      <4>1. files'[f] = files[f] /\ HasFile(f) /\ files[f].dir \notin gone
        BY <3>1, <3>3 DEF HasFile
      <4>2. DirExists(files[f].dir)  BY <4>1 DEF FileTree
      <4>3. PICK d : d = files[f].dir  OBVIOUS
      <4>4. DirExists(d)'  BY <3>1, <4>1, <4>2, <4>3 DEF DirExists, HasDir
      <4> QED  BY <4>1, <4>3, <4>4 DEF DirExists, HasDir
    <3> QED  BY <3>3 DEF FileTree, HasFile
  <2> QED  BY <2>1, <2>2
<1>6. ASSUME NEW w \in Workers, SaveInsert(w) PROVE FileTree'
  <2>1. UNCHANGED dirs  BY <1>6 DEF SaveInsert
  <2>2. CASE UNCHANGED files  BY <1>2, <2>1, <2>2
  <2>3. CASE ~UNCHANGED files
    <3> DEFINE row == [name |-> req[w].name, dir |-> req[w].dir, group |-> req[w].group,
                        path |-> req[w].path, owner |-> req[w].user]
    <3>1. DirExists(req[w].dir) /\ files' = [files EXCEPT ![fcreated + 1] = row]
      BY <1>6, <2>3 DEF SaveInsert
    <3>2. row.dir = req[w].dir  OBVIOUS
    <3> HIDE DEF row
    <3>3. \A f \in FileIds : files'[f] = row \/ files'[f] = files[f]  BY <1>0, <3>1
    <3> QED  BY <1>1, <1>3, <2>1, <3>1, <3>2, <3>3
  <2> QED  BY <2>2, <2>3
<1>7. ASSUME UNCHANGED dirs, \A f \in FileIds : files'[f] = NoRow \/ files'[f] = files[f]
      PROVE  FileTree'
  BY <1>1, <1>3, <1>7
<1>8. CASE DeleteElsewhere  BY <1>0, <1>7, <1>8 DEF DeleteElsewhere
<1>9. ASSUME NEW w \in Workers, DeleteFileRow(w) PROVE FileTree'
  <2>1. UNCHANGED dirs  BY <1>9 DEF DeleteFileRow
  <2>2. \A f \in FileIds : files'[f] = NoRow \/ files'[f] = files[f]
    BY <1>0, <1>9 DEF DeleteFileRow
  <2> QED  BY <1>7, <2>1, <2>2
<1>10. CASE UNCHANGED vars \/ Restart \/ Upload
  BY <1>2, <1>10 DEF vars, Restart, Upload, db
<1>11. ASSUME NEW w \in Workers,
             \/ MakeParent(w) \/ MakeMkdir(w) \/ DeleteDirFind(w) \/ DeleteDirSweep(w)
             \/ SaveAccess(w) \/ SaveUndo(w) \/ DeleteFileFind(w) \/ DeleteFileUnlink(w)
       PROVE  FileTree'
  BY <1>2, <1>11
  DEF MakeParent, MakeMkdir, DeleteDirFind, DeleteDirSweep, SaveAccess, SaveUndo, DeleteFileFind,
      DeleteFileUnlink, db
<1> QED
  BY <1>4, <1>5, <1>6, <1>8, <1>9, <1>10, <1>11 DEF Next

-----------------------------------------------------------------------------
(* The disk. *)

(* At the start the disk holds the group's folder alone. *)
LEMMA InitDisk == Init => DiskTree
BY DEF Init, DiskTree

(* What is in a directory lies where the directory lies. *)
LEMMA UnderParent ==
  ASSUME NEW x \in Seq(Names), x # <<>>, NEW q \in Seq(Names), AtOrBelow(ParentPath(x), q)
  PROVE  Under(x, q)
<1>1. PICK n \in Names : x = Append(ParentPath(x), n)  BY ParentFacts
<1>2. ParentPath(x) \in Seq(Names)  BY ParentFacts
<1> QED  BY <1>1, <1>2, AppendBelow

(* No path lies below itself. *)
LEMMA NotUnderItself ==
  ASSUME NEW x \in Seq(Names)
  PROVE  ~Under(x, x)
BY LenProperties DEF Under

(* remove() takes a file or an empty directory. *)
LEMMA RemoveKeepsTree ==
  ASSUME Types, DiskTree, NEW p \in Seq(Names), Remove(p)
  PROVE  DiskTree'
<1>1. /\ filesOnDisk' = filesOnDisk \ {p}
      /\ dirsOnDisk' = IF Empty(p) THEN dirsOnDisk \ {p} ELSE dirsOnDisk
  BY DEF Remove
<1>2. ASSUME NEW x \in dirsOnDisk' \cup filesOnDisk', x # <<>> PROVE ParentPath(x) \in dirsOnDisk'
  <2>1. x \in dirsOnDisk \cup filesOnDisk /\ x \in Seq(Names)  BY <1>1, <1>2 DEF Types, TypeOK
  <2>2. ParentPath(x) \in dirsOnDisk  BY <1>2, <2>1 DEF DiskTree
  <2>3. Under(x, ParentPath(x))
    BY <1>2, <2>1, ParentFacts, UnderParent DEF AtOrBelow
  <2>4. Empty(p) => ParentPath(x) # p  BY <2>1, <2>3 DEF Empty
  <2> QED  BY <1>1, <2>2, <2>4
<1>3. dirsOnDisk' \cap filesOnDisk' = {}  BY <1>1 DEF DiskTree
<1> QED  BY <1>2, <1>3 DEF DiskTree

(* A sweep that stops half way leaves no entry without its directory. *)
LEMMA SweepKeepsTree ==
  ASSUME Types, DiskTree, NEW w \in Workers, DeleteDirSweep(w)
  PROVE  DiskTree'
<1> DEFINE p == req[w].path
           below == IF p \in dirsOnDisk
                    THEN {q \in dirsOnDisk \cup filesOnDisk : Under(q, p) \/ q = p}
                    ELSE {}
<1>1. PICK kept \in SUBSET below :
        /\ \A q \in kept : q = p \/ ParentPath(q) \in kept
        /\ dirsOnDisk' = dirsOnDisk \ (below \ kept)
        /\ filesOnDisk' = filesOnDisk \ (below \ kept)
  BY DEF DeleteDirSweep
<1>2. p \in Seq(Names)  BY DEF Types, Requests
<1>3. \A q \in below : AtOrBelow(q, p)  BY DEF AtOrBelow
<1>4. \A x \in dirsOnDisk \cup filesOnDisk : below # {} /\ Under(x, p) => x \in below
  OBVIOUS
<1> HIDE DEF below, p
<1>5. ASSUME NEW x \in dirsOnDisk' \cup filesOnDisk', x # <<>> PROVE ParentPath(x) \in dirsOnDisk'
  <2>1. x \in dirsOnDisk \cup filesOnDisk /\ x \in Seq(Names) /\ x \notin below \ kept
    BY <1>1, <1>5 DEF Types, TypeOK
  <2>2. ParentPath(x) \in dirsOnDisk  BY <1>5, <2>1 DEF DiskTree
  <2>3. ASSUME ParentPath(x) \in below \ kept PROVE FALSE
    <3>1. Under(x, p)  BY <1>2, <1>3, <1>5, <2>1, <2>3, UnderParent
    <3>2. x \in kept  BY <1>4, <2>1, <2>3, <3>1
    <3>3. x = p  BY <1>1, <2>3, <3>2
    <3> QED  BY <1>2, <3>1, <3>3, NotUnderItself
  <2> QED  BY <1>1, <2>2, <2>3
<1>6. dirsOnDisk' \cap filesOnDisk' = {}  BY <1>1 DEF DiskTree
<1> QED  BY <1>5, <1>6 DEF DiskTree

(* Every step keeps the tree on disk. *)
LEMMA StepDisk ==
  ASSUME Types, DiskTree, [Next]_vars
  PROVE  DiskTree'
<1>1. ASSUME UNCHANGED <<dirsOnDisk, filesOnDisk>> PROVE DiskTree'
  BY <1>1 DEF DiskTree
<1>2. CASE UNCHANGED vars \/ Restart \/ DeleteElsewhere
  BY <1>1, <1>2 DEF vars, Restart, DeleteElsewhere, disk
<1>3. CASE Upload  BY <1>3 DEF Upload, OnDisk, DiskTree
<1>4. ASSUME NEW w \in Workers, MakeMkdir(w) PROVE DiskTree'
  BY <1>1, <1>4 DEF MakeMkdir, OnDisk, DiskTree
<1>5. ASSUME NEW w \in Workers, DeleteDirSweep(w) PROVE DiskTree'
  BY <1>5, SweepKeepsTree
<1>6. ASSUME NEW w \in Workers, SaveUndo(w) \/ DeleteFileUnlink(w) PROVE DiskTree'
  <2>1. req[w].path \in Seq(Names)  BY DEF Types, Requests
  <2> QED  BY <1>6, <2>1, RemoveKeepsTree DEF SaveUndo, DeleteFileUnlink
<1>7. ASSUME NEW w \in Workers,
             \/ MakeParent(w) \/ MakeInsert(w) \/ DeleteDirFind(w) \/ DeleteDirRow(w)
             \/ SaveAccess(w) \/ SaveInsert(w) \/ DeleteFileFind(w) \/ DeleteFileRow(w)
      PROVE  DiskTree'
  BY <1>1, <1>7
  DEF MakeParent, MakeInsert, DeleteDirFind, DeleteDirRow, SaveAccess, SaveInsert, DeleteFileFind,
      DeleteFileRow, disk
<1> QED  BY <1>2, <1>3, <1>4, <1>5, <1>6, <1>7 DEF Next


-----------------------------------------------------------------------------
(* The claims. *)

(* At the start nothing is claimed. *)
LEMMA InitClaims == Init => ClaimsHold
<1> SUFFICES ASSUME Init PROVE ClaimsHold  OBVIOUS
<1>1. \A w \in Workers : pc[w] = "idle"  BY DEF Init
<1>2. \A d \in DirIds : ~HasDir(d)  BY DEF Init, HasDir
<1>3. Claims = {}  BY <1>1, <1>2 DEF Claims, Making
<1> QED  BY <1>1, <1>3 DEF ClaimsHold, Sweeping

(* What is claimed is the path of a row, or of the group's folder, and a   *)
(* name, and lies below what its name reaches into.                        *)
LEMMA ClaimFacts ==
  ASSUME Types, PathsRight, NEW c \in Claims
  PROVE  /\ c.path \in Seq(Names) /\ c.path # <<>>
         /\ \E d \in {Root} \cup DirIds, n \in Texts :
              /\ Live(d) /\ PathOf(d) \in Seq(Names) /\ c.path = PathOf(d) \o n
              /\ \A p : Reaches(n, c.path, p) => c.path \in ReachInto(p)
<1>0. DirTree /\ \A w \in Workers : WorkerPath(w)  BY DEF PathsRight
<1>1. CASE \E d \in DirIds : HasDir(d) /\ c = RowClaim(d)
  <2>1. PICK d \in DirIds : HasDir(d) /\ c = RowClaim(d)  BY <1>1
  <2>2. c.path = dirs[d].path  BY <2>1 DEF RowClaim
  <2>3. /\ dirs[d].path \in Seq(Names) /\ dirs[d].path # <<>> /\ dirs[d].name \in Texts
        /\ Live(dirs[d].parent) /\ PathOf(dirs[d].parent) \in Seq(Names)
        /\ dirs[d].path = PathOf(dirs[d].parent) \o dirs[d].name
    BY <1>0, <2>1, RowPaths
  <2>4. ASSUME NEW p, Reaches(dirs[d].name, c.path, p) PROVE c.path \in ReachInto(p)
    BY <2>1, <2>2, <2>4 DEF ReachInto
  <2>5. dirs[d].parent \in {Root} \cup DirIds  BY <2>3 DEF Live, HasDir
  <2> QED  BY <2>2, <2>3, <2>4, <2>5
<1>2. CASE \E w \in Workers : Making(w) /\ c = MakerClaim(w)
  <2>1. PICK w \in Workers : Making(w) /\ c = MakerClaim(w)  BY <1>2
  <2>2. c.path = req[w].path  BY <2>1 DEF MakerClaim
  <2>3. Live(req[w].dir) /\ req[w].path = PathOf(req[w].dir) \o req[w].name
    BY <1>0, <2>1 DEF Making, WorkerPath, Follows
  <2>4. req[w].name \in Texts /\ req[w].path \in Seq(Names)
    BY <2>1 DEF Making, Types, Fits, Requests
  <2>5. PathOf(req[w].dir) \in Seq(Names)
    <3>1. \A d : HasDir(d) => dirs[d].path \in Seq(Names)  BY <1>0, RowPaths
    <3> QED  BY <2>3, <3>1, EmptySeq DEF Live, PathOf
  <2>6. req[w].path # <<>>  BY <2>3, <2>4, <2>5, TextPath
  <2>7. ASSUME NEW p, Reaches(req[w].name, c.path, p) PROVE c.path \in ReachInto(p)
    BY <2>1, <2>2, <2>7 DEF ReachInto, Making
  <2>8. req[w].dir \in {Root} \cup DirIds  BY <2>3 DEF Live, HasDir
  <2> QED  BY <2>2, <2>3, <2>4, <2>5, <2>6, <2>7, <2>8
<1> QED  BY <1>1, <1>2 DEF Claims

(* A step that adds no claim and no sweep keeps the claims, if what it     *)
(* takes of them is noted.                                                 *)
LEMMA QuietClaims ==
  ASSUME ClaimsHold, Claims' \subseteq Claims, stolen \subseteq stolen',
         \A c \in Claims : c.path \in dirsOnDisk => c.path \in dirsOnDisk' \/ Taken(c.path, stolen'),
         \A v \in Workers : Sweeping(v)' => Sweeping(v) /\ req'[v].path = req[v].path
  PROVE  ClaimsHold'
<1>0. \A p : Taken(p, stolen) => Taken(p, stolen')  BY TakenMore
<1>1. \A c \in Claims' : c.path \in dirsOnDisk' \/ Taken(c.path, stolen')
  BY <1>0 DEF ClaimsHold
<1>2. \A b, c \in Claims' : b # c /\ b.path = c.path => Taken(c.path, stolen')
  BY <1>0 DEF ClaimsHold
<1>3. ASSUME NEW v \in Workers, NEW c \in Claims', Sweeping(v)', c.path = req'[v].path
      PROVE  Taken(c.path, stolen')
  BY <1>0, <1>3 DEF ClaimsHold
<1> QED  BY <1>1, <1>2, <1>3 DEF ClaimsHold

(* A worker that goes elsewhere than to its INSERT or its sweep adds none. *)
LEMMA QuietMove ==
  ASSUME Types, NEW w \in Workers, NEW label, label \notin {"mdInsert", "ddSweep"}, Goto(w, label),
         dirs' = dirs, NEW r, req' = [req EXCEPT ![w] = r]
  PROVE  /\ Claims' \subseteq Claims
         /\ \A v \in Workers : Sweeping(v)' => Sweeping(v) /\ req'[v].path = req[v].path
<1>1. pc \in [Workers -> Labels] /\ req \in [Workers -> Requests]  BY DEF Types, TypeOK
<1>2. \A v \in Workers : v # w => pc'[v] = pc[v] /\ req'[v] = req[v]  BY <1>1 DEF Goto
<1>3. pc'[w] = label  BY <1>1 DEF Goto
<1>4. \A v \in Workers : Making(v)' => Making(v) /\ req'[v] = req[v]
  BY <1>2, <1>3 DEF Making, Live, HasDir
<1>5. \A v \in Workers : Making(v)' => Making(v) /\ MakerClaim(v)' = MakerClaim(v)
  BY <1>4 DEF MakerClaim
<1>6. \A d \in DirIds : HasDir(d)' => HasDir(d) /\ RowClaim(d)' = RowClaim(d)
  BY DEF HasDir, RowClaim
<1>7. Claims' \subseteq Claims  BY <1>5, <1>6 DEF Claims
<1> QED  BY <1>2, <1>3, <1>7 DEF Sweeping

(* A set of numbers that has a member has a least one. *)
LEMMA LeastNumber ==
  ASSUME NEW T \in SUBSET Nat, T # {}
  PROVE  \E n \in T : \A m \in T : n <= m
<1>1. PICK n \in T : \A m \in T : ~(<<m, n>> \in OpToRel(<, Nat))
  BY NatLessThanWellFounded, WFMin, Zenon
<1>2. \A m \in T : ~(m < n)  BY <1>1 DEF OpToRel
<1> QED  BY <1>2

(* What a sweep of p may take of what is claimed. *)
Lost(q, p) == Taken(q, stolen) \/ \E r \in ReachInto(p) : AtOrBelow(q, r)

(* What lies below what is lost is lost. *)
LEMMA LostBelow ==
  ASSUME Types, NEW q \in Seq(Names), NEW n \in Seq(Names), NEW p, Lost(q, p)
  PROVE  Lost(q \o n, p)
<1>1. CASE Taken(q, stolen)  BY <1>1, TakenConcat DEF Lost
<1>2. CASE \E r \in ReachInto(p) : AtOrBelow(q, r)
  <2>1. PICK r \in ReachInto(p) : AtOrBelow(q, r)  BY <1>2
  <2>2. \A d : HasDir(d) => dirs[d].path \in Seq(Names)  BY DEF Types, HasDir, DirRows
  <2>3. \A v \in Workers : req[v].path \in Seq(Names)  BY DEF Types, Requests
  <2>4. r \in Seq(Names)  BY <2>2, <2>3 DEF ReachInto
  <2> QED  BY <2>1, <2>4, ConcatBelow DEF Lost
<1> QED  BY <1>1, <1>2 DEF Lost

(* When nothing but what was lost claims p itself, nothing but what was    *)
(* lost, or what a name that reaches into p leads to, claims a path below: *)
(* were there one that has not, the one with the shortest path would lie   *)
(* in a directory that claims its own path, at or below p and shorter.     *)
LEMMA SweptClaims ==
  ASSUME Types, PathsRight, NEW p \in Seq(Names), p # <<>>,
         \A c \in Claims : c.path = p => Taken(p, stolen),
         NEW e \in Claims, AtOrBelow(e.path, p)
  PROVE  Lost(e.path, p)
<1> DEFINE Bad == {c \in Claims : AtOrBelow(c.path, p) /\ ~Lost(c.path, p)}
           Lengths == {Len(c.path) : c \in Bad}
<1>0. \A c \in Claims : c.path \in Seq(Names)  BY ClaimFacts
<1>1. ASSUME NEW c \in Bad
      PROVE  \E b \in Bad : Len(b.path) < Len(c.path)
  <2>1. c \in Claims /\ AtOrBelow(c.path, p) /\ ~Lost(c.path, p)  OBVIOUS
  <2>2. PICK d \in {Root} \cup DirIds, n \in Texts :
          /\ Live(d) /\ PathOf(d) \in Seq(Names) /\ c.path = PathOf(d) \o n
          /\ \A x : Reaches(n, c.path, x) => c.path \in ReachInto(x)
    BY <2>1, ClaimFacts
  <2>3. n \in Seq(Names) /\ Len(n) \in Nat /\ Len(n) > 0  BY TextFacts
  <2>4. c.path # p  BY <2>1 DEF Lost
  <2>5. Under(PathOf(d) \o n, p)  BY <2>1, <2>2, <2>4 DEF AtOrBelow
  <2>6. ~Reaches(n, PathOf(d) \o n, p)  BY <2>1, <2>2 DEF Lost, AtOrBelow
  <2>7. AtOrBelow(PathOf(d), p)  BY <2>2, <2>3, <2>5, <2>6, ConcatAbove
  <2>8. PathOf(d) # <<>>  BY <2>2, <2>7, NothingEmptyBelow
  <2>9. HasDir(d) /\ PathOf(d) = dirs[d].path  BY <2>2, <2>8 DEF Live, PathOf
  <2>10. RowClaim(d) \in Claims /\ RowClaim(d).path = PathOf(d)
    BY <2>9 DEF Claims, RowClaim, HasDir
  <2>11. ~Lost(PathOf(d), p)  BY <2>1, <2>2, <2>3, LostBelow
  <2>12. RowClaim(d) \in Bad  BY <2>7, <2>10, <2>11
  <2>13. Len(c.path) = Len(PathOf(d)) + Len(n) /\ Len(PathOf(d)) \in Nat
    BY <2>2, <2>3, ConcatFacts
  <2>14. Len(PathOf(d)) < Len(c.path)  BY <2>3, <2>13
  <2> QED  BY <2>10, <2>12, <2>14
<1>2. ASSUME Bad # {} PROVE FALSE
  <2>1. Lengths # {}  BY <1>2
  <2>2. Lengths \subseteq Nat  BY <1>0, LenProperties
  <2> HIDE DEF Lengths
  <2>3. PICK n \in Lengths : \A m \in Lengths : n <= m  BY <2>1, <2>2, LeastNumber
  <2> USE DEF Lengths
  <2>4. PICK c \in Bad : n = Len(c.path)  BY <2>3
  <2> HIDE DEF Bad
  <2>5. PICK b \in Bad : Len(b.path) < Len(c.path)  BY <1>1
  <2>6. Len(b.path) \in Lengths  OBVIOUS
  <2> HIDE DEF Lengths
  <2>7. n <= Len(b.path)  BY <2>3, <2>6
  <2>8. Len(b.path) \in Nat /\ n \in Nat  BY <2>2, <2>6
  <2> QED  BY <2>4, <2>5, <2>7, <2>8
<1> QED  BY <1>2

(* A mkdir that succeeds claims a path that nothing was at: whoever claims *)
(* it too has lost it, and a sweep of it that is to come is stale now.     *)
LEMMA MkdirClaims ==
  ASSUME Types, PathsRight, ClaimsHold, NEW w \in Workers, Mkdirs(w)
  PROVE  ClaimsHold'
<1> DEFINE p == req[w].path
           new == MakerClaim(w)
<1>0. pc \in [Workers -> Labels] /\ req \in [Workers -> Requests]  BY DEF Types, TypeOK
<1>1. /\ pc[w] = "mdMkdir" /\ p \notin dirsOnDisk /\ dirsOnDisk' = dirsOnDisk \cup {p}
      /\ req' = [v \in Workers |-> [req[v] EXCEPT !.stale = @ \/ SweepsStill(v, p)]]
      /\ pc' = [pc EXCEPT ![w] = "mdInsert"] /\ dirs' = dirs /\ stolen' = stolen
  BY DEF Mkdirs, OnDisk
<1>2. ASSUME NEW v \in Workers
      PROVE  /\ req'[v].path = req[v].path /\ req'[v].dir = req[v].dir
             /\ req'[v].stale = (req[v].stale \/ SweepsStill(v, p))
  <2>1. req[v] \in Requests  BY <1>0
  <2>2. req'[v] = [req[v] EXCEPT !.stale = req[v].stale \/ SweepsStill(v, p)]  BY <1>1
  <2> QED  BY <2>1, <2>2 DEF Requests
<1>3. \A v \in Workers : v # w => pc'[v] = pc[v]  BY <1>0, <1>1
<1>4. pc'[w] = "mdInsert"  BY <1>0, <1>1
<1>5. \A v \in Workers : MakerClaim(v)' = MakerClaim(v)  BY <1>2 DEF MakerClaim
<1>6. \A v \in Workers : v # w /\ Making(v)' => Making(v)
  BY <1>1, <1>2, <1>3 DEF Making, Live, HasDir
<1>7. \A d \in DirIds : HasDir(d)' => HasDir(d) /\ RowClaim(d)' = RowClaim(d)
  BY <1>1 DEF HasDir, RowClaim
<1>8. Claims' \subseteq Claims \cup {new}  BY <1>5, <1>6, <1>7 DEF Claims
<1>9. new.path = p  BY DEF MakerClaim
<1> HIDE DEF new, p
<1>10. \A c \in Claims' : c.path \in dirsOnDisk' \/ Taken(c.path, stolen')
  BY <1>1, <1>8, <1>9 DEF ClaimsHold
<1>11. \A c \in Claims : c.path = p => Taken(c.path, stolen)
  BY <1>1 DEF ClaimsHold
<1>12. \A b, c \in Claims' : b # c /\ b.path = c.path => Taken(c.path, stolen')
  BY <1>1, <1>8, <1>9, <1>11 DEF ClaimsHold
<1>13. ASSUME NEW v \in Workers, Sweeping(v)'
       PROVE  Sweeping(v) /\ req[v].path # p /\ req'[v].path = req[v].path
  <2>1. v # w /\ pc[v] = "ddSweep"  BY <1>3, <1>4, <1>13 DEF Sweeping
  <2>2. ~req[v].stale /\ ~SweepsStill(v, p)  BY <1>2, <1>13 DEF Sweeping
  <2> QED  BY <1>2, <2>1, <2>2 DEF Sweeping, SweepsStill
<1>14. ASSUME NEW v \in Workers, NEW c \in Claims', Sweeping(v)', c.path = req'[v].path
       PROVE  Taken(c.path, stolen')
  <2>1. c # new  BY <1>9, <1>13, <1>14
  <2>2. c \in Claims  BY <1>8, <2>1
  <2> QED  BY <1>1, <1>13, <1>14, <2>2 DEF ClaimsHold
<1> QED  BY <1>10, <1>12, <1>14 DEF ClaimsHold

(* An INSERT hands the worker's claim to the row. *)
LEMMA InsertClaims ==
  ASSUME Types, PathsRight, ClaimsHold, NEW w \in Workers, Inserts(w)
  PROVE  ClaimsHold'
<1> DEFINE id == dcreated + 1
           row == [name |-> req[w].name, parent |-> req[w].dir, path |-> req[w].path,
                   owner |-> req[w].user]
           old == MakerClaim(w)
           new == [kind |-> "row", by |-> id, path |-> req[w].path]
<1>0. /\ pc \in [Workers -> Labels] /\ req \in [Workers -> Requests] /\ dcreated \in Nat
      /\ dirs \in [DirIds -> DirRows \cup {NoRow}] /\ DirTree
      /\ \A v \in Workers : WorkerPath(v)
  BY BoundsAssumption DEF Types, TypeOK, PathsRight
<1>1. /\ pc[w] = "mdInsert" /\ DirExists(req[w].dir) /\ dirs' = [dirs EXCEPT ![id] = row]
      /\ pc' = [pc EXCEPT ![w] = "idle"] /\ req' = [req EXCEPT ![w] = NoReq]
      /\ dirsOnDisk' = dirsOnDisk /\ stolen' = stolen
  BY DEF Inserts
<1>2. \A v \in Workers : v # w => pc'[v] = pc[v] /\ req'[v] = req[v]  BY <1>0, <1>1
<1>3. pc'[w] = "idle"  BY <1>0, <1>1
<1>4. Live(req[w].dir)
  <2>1. req[w].dir \in {Root} \cup DirIds  BY <1>1 DEF Types, Fits
  <2>2. Elsewhere \notin {Root} \cup DirIds  BY BoundsAssumption DEF Elsewhere, Root, DirIds
  <2> QED  BY <1>1, <2>1, <2>2 DEF DirExists, Live
<1>5. old \in Claims /\ old.path = req[w].path /\ old.kind = "maker" /\ old.by = w
  BY <1>1, <1>4 DEF Claims, Making, MakerClaim
<1>6. row.path = req[w].path /\ new.path = req[w].path /\ new.kind = "row"  OBVIOUS
<1>7. \A d \in DirIds : dirs'[d] = IF d = id THEN row ELSE dirs[d]  BY <1>0, <1>1
<1>8. \A d : d \in Nat /\ d <= dcreated => d # id  BY <1>0
<1>9. ASSUME NEW v \in Workers, Making(v)' PROVE v # w /\ Making(v) /\ MakerClaim(v)' = MakerClaim(v)
  <2>1. v # w /\ pc[v] = "mdInsert" /\ req'[v] = req[v]  BY <1>2, <1>3, <1>9 DEF Making
  <2>2. req[v].dir <= dcreated /\ req[v].dir \in Nat
    BY <1>0, <2>1 DEF WorkerPath, Requests
  <2>3. req[v].dir # id  BY <1>8, <2>2
  <2>4. Live(req[v].dir)  BY <1>7, <1>9, <2>1, <2>3 DEF Making, Live, HasDir
  <2> QED  BY <2>1, <2>4 DEF Making, MakerClaim
<1>10. ASSUME NEW d \in DirIds, HasDir(d)'
       PROVE  RowClaim(d)' = new \/ (HasDir(d) /\ RowClaim(d)' = RowClaim(d))
  <2>1. CASE d = id  BY <1>6, <1>7, <2>1 DEF RowClaim
  <2>2. CASE d # id  BY <1>7, <1>10, <2>2 DEF RowClaim, HasDir
  <2> QED  BY <2>1, <2>2
<1>11. \A d : RowClaim(d) # old  BY <1>5 DEF RowClaim
<1>12. \A v \in Workers : v # w => MakerClaim(v) # old  BY <1>5 DEF MakerClaim
<1>13. ASSUME NEW c \in Claims', c # new PROVE c \in Claims /\ c # old
  <2>1. CASE \E d \in DirIds : HasDir(d)' /\ c = RowClaim(d)'
    BY <1>10, <1>11, <1>13, <2>1 DEF Claims
  <2>2. CASE \E v \in Workers : Making(v)' /\ c = MakerClaim(v)'
    BY <1>9, <1>12, <1>13, <2>2 DEF Claims
  <2> QED  BY <1>13, <2>1, <2>2 DEF Claims
<1> HIDE DEF old, new, row, id
<1>14. \A c \in Claims' : c.path \in dirsOnDisk' \/ Taken(c.path, stolen')
  BY <1>1, <1>5, <1>6, <1>13 DEF ClaimsHold
<1>15. \A b, c \in Claims' : b # c /\ b.path = c.path => Taken(c.path, stolen')
  BY <1>1, <1>5, <1>6, <1>13 DEF ClaimsHold
<1>16. ASSUME NEW v \in Workers, NEW c \in Claims', Sweeping(v)', c.path = req'[v].path
       PROVE  Taken(c.path, stolen')
  <2>1. Sweeping(v) /\ req'[v].path = req[v].path  BY <1>2, <1>3, <1>16 DEF Sweeping
  <2> QED  BY <1>1, <1>5, <1>6, <1>13, <1>16, <2>1 DEF ClaimsHold
<1> QED  BY <1>14, <1>15, <1>16 DEF ClaimsHold

(* A DELETE takes the row that claimed what its sweep is about. *)
LEMMA DeleteRowClaims ==
  ASSUME Types, PathsRight, ClaimsHold, NEW w \in Workers, Deletes(w)
  PROVE  ClaimsHold'
<1> DEFINE gone == Cascade(req[w].id)
           q == req[w].path
           r == [NoReq EXCEPT !.path = q, !.stale = ~HasDir(req[w].id)]
<1>0. pc \in [Workers -> Labels] /\ req \in [Workers -> Requests]  BY DEF Types, TypeOK
<1>1. /\ pc[w] = "ddDelete" /\ pc' = [pc EXCEPT ![w] = "ddSweep"] /\ req' = [req EXCEPT ![w] = r]
      /\ dirs' = [e \in DirIds |-> IF e \in gone THEN NoRow ELSE dirs[e]]
      /\ dirsOnDisk' = dirsOnDisk /\ stolen' = stolen
  BY DEF Deletes
<1>2. \A v \in Workers : v # w => pc'[v] = pc[v] /\ req'[v] = req[v]  BY <1>0, <1>1
<1>3. pc'[w] = "ddSweep"  BY <1>0, <1>1
<1>4. req'[w].path = q /\ req'[w].stale = ~HasDir(req[w].id)
  <2>1. q \in Seq(Names)  BY <1>0 DEF Requests
  <2>2. (~HasDir(req[w].id)) \in BOOLEAN  BY DEF HasDir
  <2>3. r.path = q /\ r.stale = ~HasDir(req[w].id)  BY <2>1, <2>2, PathReq
  <2> HIDE DEF r
  <2> QED  BY <1>0, <1>1, <2>3
<1> HIDE DEF gone, r
<1>5. \A d : HasDir(d)' => HasDir(d) /\ d \notin gone /\ dirs'[d] = dirs[d]  BY <1>1 DEF HasDir
<1>6. \A d : HasDir(d)' => RowClaim(d)' = RowClaim(d)  BY <1>5 DEF RowClaim
<1>7. ASSUME NEW v \in Workers, Making(v)'
      PROVE  Making(v) /\ MakerClaim(v)' = MakerClaim(v)
  <2>1. v # w /\ pc[v] = "mdInsert" /\ req'[v] = req[v]  BY <1>2, <1>3, <1>7 DEF Making
  <2>2. Live(req[v].dir)
    <3>1. PICK d : d = req[v].dir  OBVIOUS
    <3>2. d = Root \/ HasDir(d)'  BY <1>7, <2>1, <3>1 DEF Making, Live, HasDir
    <3> QED  BY <1>5, <3>1, <3>2 DEF Live
  <2> QED  BY <2>1, <2>2 DEF Making, MakerClaim
<1>8. Claims' \subseteq Claims  BY <1>5, <1>6, <1>7 DEF Claims
(* The sweep that this DELETE goes on to. *)
<1>9. ASSUME HasDir(req[w].id), NEW c \in Claims', c.path = q
      PROVE  Taken(c.path, stolen)
  <2> DEFINE d == req[w].id
  <2>1. q = dirs[d].path /\ d \in DirIds
    BY <1>1, <1>9 DEF PathsRight, WorkerPath, HasDir
  <2>2. c \in Claims /\ RowClaim(d) \in Claims /\ RowClaim(d).path = q
    BY <1>8, <1>9, <2>1 DEF Claims, RowClaim
  <2>3. c # RowClaim(d)
    <3>1. CASE \E e \in DirIds : HasDir(e)' /\ c = RowClaim(e)'
      <4>1. PICK e \in DirIds : HasDir(e)' /\ c = RowClaim(e)'  BY <3>1
      <4>2. d \in gone  BY <1>9, CascadeSelf DEF gone
      <4>3. e \notin gone /\ c.by = e  BY <1>5, <4>1 DEF RowClaim
      <4> QED  BY <4>2, <4>3 DEF RowClaim
    <3>2. CASE \E v \in Workers : Making(v)' /\ c = MakerClaim(v)'
      BY <3>2 DEF MakerClaim, RowClaim
    <3> QED  BY <1>9, <3>1, <3>2 DEF Claims
  <2> HIDE DEF d
  <2> QED  BY <1>9, <2>2, <2>3 DEF ClaimsHold
<1> HIDE DEF q
<1>10. \A c \in Claims' : c.path \in dirsOnDisk' \/ Taken(c.path, stolen')
  BY <1>1, <1>8 DEF ClaimsHold
<1>11. \A b, c \in Claims' : b # c /\ b.path = c.path => Taken(c.path, stolen')
  BY <1>1, <1>8 DEF ClaimsHold
<1>12. ASSUME NEW v \in Workers, NEW c \in Claims', Sweeping(v)', c.path = req'[v].path
       PROVE  Taken(c.path, stolen')
  <2>1. CASE v = w
    <3>1. HasDir(req[w].id)  BY <1>4, <1>12, <2>1 DEF Sweeping
    <3> QED  BY <1>1, <1>4, <1>9, <1>12, <2>1, <3>1
  <2>2. CASE v # w
    <3>1. Sweeping(v) /\ req'[v] = req[v]  BY <1>2, <1>12, <2>2 DEF Sweeping
    <3> QED  BY <1>1, <1>8, <1>12, <3>1 DEF ClaimsHold
  <2> QED  BY <2>1, <2>2
<1> QED  BY <1>10, <1>11, <1>12 DEF ClaimsHold

(* What a sweep takes is below its path, and what it takes late or from    *)
(* what a name reaches into is noted.                                      *)
LEMMA SweepFacts ==
  ASSUME Types, PathsRight, NEW w \in Workers, DeleteDirSweep(w)
  PROVE  /\ pc[w] = "ddSweep" /\ req[w].path \in Seq(Names) /\ req[w].path # <<>>
         /\ stolen \subseteq stolen'
         /\ \A q : \/ q \in dirsOnDisk /\ q \notin dirsOnDisk'
                   \/ q \in filesOnDisk /\ q \notin filesOnDisk'
              => /\ AtOrBelow(q, req[w].path) /\ req[w].path \in dirsOnDisk
                 /\ (req[w].stale \/ \E r \in ReachInto(req[w].path) : AtOrBelow(q, r))
                      => q \in stolen'
<1> DEFINE p == req[w].path
           below == IF p \in dirsOnDisk
                    THEN {q \in dirsOnDisk \cup filesOnDisk : Under(q, p) \/ q = p}
                    ELSE {}
<1>1. PICK kept \in SUBSET below :
        /\ dirsOnDisk' = dirsOnDisk \ (below \ kept)
        /\ filesOnDisk' = filesOnDisk \ (below \ kept)
        /\ Steal({q \in below \ kept : req[w].stale \/ \E r \in ReachInto(p) : AtOrBelow(q, r)})
  BY DEF DeleteDirSweep
<1>2. pc[w] = "ddSweep" /\ p \in Seq(Names) /\ p # <<>>
  BY DEF DeleteDirSweep, At, PathsRight, WorkerPath, Types, Requests
<1>3. \A q \in below : AtOrBelow(q, p) /\ p \in dirsOnDisk  BY DEF AtOrBelow
<1> HIDE DEF below, p
<1>4. ASSUME NEW q, \/ q \in dirsOnDisk /\ q \notin dirsOnDisk'
                    \/ q \in filesOnDisk /\ q \notin filesOnDisk'
      PROVE  q \in below \ kept
  BY <1>1, <1>4
<1>5. \A q \in below \ kept :
        (req[w].stale \/ \E r \in ReachInto(p) : AtOrBelow(q, r)) => q \in stolen'
  BY <1>1 DEF Steal
<1>6. stolen \subseteq stolen'  BY <1>1 DEF Steal
<1> QED  BY <1>2, <1>3, <1>4, <1>5, <1>6 DEF p

(* What a sweep takes of the claims was lost before or is noted.           *)
LEMMA SweepClaims ==
  ASSUME Types, PathsRight, ClaimsHold, NEW w \in Workers, DeleteDirSweep(w)
  PROVE  ClaimsHold'
<1> DEFINE p == req[w].path
<1>1. /\ pc[w] = "ddSweep" /\ p \in Seq(Names) /\ p # <<>> /\ stolen \subseteq stolen'
      /\ \A q : q \in dirsOnDisk /\ q \notin dirsOnDisk'
           => /\ AtOrBelow(q, p)
              /\ (req[w].stale \/ \E r \in ReachInto(p) : AtOrBelow(q, r)) => q \in stolen'
  BY SweepFacts
<1>2. Goto(w, "idle") /\ req' = [req EXCEPT ![w] = NoReq] /\ dirs' = dirs
  BY DEF DeleteDirSweep, Answer, db
<1>3. ASSUME NEW c \in Claims, c.path \in dirsOnDisk, c.path \notin dirsOnDisk'
      PROVE  Taken(c.path, stolen')
  <2>1. c.path \in Seq(Names) /\ c.path # <<>>  BY ClaimFacts
  <2>2. AtOrBelow(c.path, p)  BY <1>1, <1>3
  <2>3. CASE c.path \in stolen'  BY <2>1, <2>3, TakenSelf
  <2>4. CASE c.path \notin stolen'
    <3>1. ~req[w].stale /\ ~\E r \in ReachInto(p) : AtOrBelow(c.path, r)
      BY <1>1, <1>3, <2>4
    <3>2. Sweeping(w)  BY <1>1, <3>1 DEF Sweeping
    <3>3. \A b \in Claims : b.path = p => Taken(p, stolen)  BY <3>2 DEF ClaimsHold
    <3> HIDE DEF p
    <3>4. Lost(c.path, p)  BY <1>1, <2>2, <3>3, SweptClaims
    <3>5. Taken(c.path, stolen)  BY <3>1, <3>4 DEF Lost
    <3> QED  BY <1>1, <3>5, TakenMore
  <2> QED  BY <2>3, <2>4
<1>4. /\ Claims' \subseteq Claims
      /\ \A v \in Workers : Sweeping(v)' => Sweeping(v) /\ req'[v].path = req[v].path
  BY <1>2, QuietMove
<1> QED  BY <1>1, <1>3, <1>4, QuietClaims

(* A remove() that takes a directory notes it. *)
LEMMA RemoveClaims ==
  ASSUME Types, PathsRight, ClaimsHold, NEW w \in Workers, Removes(w)
  PROVE  ClaimsHold'
<1>1. Goto(w, "idle") /\ req' = [req EXCEPT ![w] = NoReq] /\ dirs' = dirs
  BY DEF Removes, Goto
<1>2. /\ Claims' \subseteq Claims
      /\ \A v \in Workers : Sweeping(v)' => Sweeping(v) /\ req'[v].path = req[v].path
  BY <1>1, QuietMove
<1>3. stolen \subseteq stolen'  BY DEF Removes, Remove, Steal
<1>4. \A q : q \in dirsOnDisk /\ q \notin dirsOnDisk' => q \in stolen'
  BY DEF Removes, Remove, Steal
<1>5. \A c \in Claims : c.path # <<>> /\ c.path \in Seq(Names)  BY ClaimFacts
<1>6. \A c \in Claims : c.path \in dirsOnDisk => c.path \in dirsOnDisk' \/ Taken(c.path, stolen')
  BY <1>4, <1>5, TakenSelf
<1> QED  BY <1>2, <1>3, <1>6, QuietClaims

(* Every step keeps the claims. *)
LEMMA StepClaims ==
  ASSUME Types, PathsRight, ClaimsHold, [Next]_vars
  PROVE  ClaimsHold'
<1>1. ASSUME NEW w \in Workers, NEW label, label \notin {"mdInsert", "ddSweep"}, Goto(w, label),
             dirs' = dirs, NEW r, req' = [req EXCEPT ![w] = r],
             dirsOnDisk' = dirsOnDisk, stolen' = stolen
      PROVE  ClaimsHold'
  BY <1>1, QuietMove, QuietClaims
<1>2. CASE Stays
  <2>1. \A v \in Workers : Making(v)' = Making(v) /\ MakerClaim(v)' = MakerClaim(v) /\ Sweeping(v)' = Sweeping(v)
    BY <1>2 DEF Stays, Making, Live, HasDir, MakerClaim, Sweeping
  <2>2. \A d \in DirIds : HasDir(d)' = HasDir(d) /\ RowClaim(d)' = RowClaim(d)
    BY <1>2 DEF Stays, HasDir, RowClaim
  <2>3. Claims' \subseteq Claims  BY <2>1, <2>2 DEF Claims
  <2> QED  BY <1>2, <2>1, <2>3, QuietClaims DEF Stays
<1>3. CASE Restart
  <2>1. \A v \in Workers : ~Making(v)' /\ ~Sweeping(v)'
    BY <1>3 DEF Restart, Making, Sweeping
  <2>2. \A d \in DirIds : HasDir(d)' = HasDir(d) /\ RowClaim(d)' = RowClaim(d)
    BY <1>3 DEF Restart, db, HasDir, RowClaim
  <2>3. Claims' \subseteq Claims  BY <2>1, <2>2 DEF Claims
  <2> QED  BY <1>3, <2>1, <2>3, QuietClaims DEF Restart, disk
<1>4. ASSUME NEW w \in Workers, Quiet(w) PROVE ClaimsHold'
  <2>1. PICK label \in QuietLabels, r \in Requests :
          pc' = [pc EXCEPT ![w] = label] /\ req' = [req EXCEPT ![w] = r]
    BY <1>4 DEF Quiet
  <2>2. label \notin {"mdInsert", "ddSweep"} /\ Goto(w, label)  BY <2>1 DEF QuietLabels, Goto
  <2> QED  BY <1>1, <1>4, <2>1, <2>2 DEF Quiet
<1>5. ASSUME NEW w \in Workers, MakeParent(w) PROVE ClaimsHold'
  <2>1. "mdMkdir" \notin {"mdInsert", "ddSweep"}  OBVIOUS
  <2>2. Goto(w, "mdMkdir") /\ \E r : req' = [req EXCEPT ![w] = r]
    BY <1>5 DEF MakeParent, Begin
  <2> QED  BY <1>1, <1>5, <2>1, <2>2 DEF MakeParent, db, disk
<1>6. ASSUME NEW w \in Workers, DeleteDirFind(w) PROVE ClaimsHold'
  <2>1. "ddDelete" \notin {"mdInsert", "ddSweep"}  OBVIOUS
  <2>2. Goto(w, "ddDelete") /\ \E r : req' = [req EXCEPT ![w] = r]
    BY <1>6 DEF DeleteDirFind, Begin
  <2> QED  BY <1>1, <1>6, <2>1, <2>2 DEF DeleteDirFind, db, disk
<1> QED
  BY <1>2, <1>3, <1>4, <1>5, <1>6, Kinds, MkdirClaims, InsertClaims, DeleteRowClaims, SweepClaims,
     RemoveClaims
  DEF WorkerSteps

-----------------------------------------------------------------------------
(* The theorems. *)

(* The invariant. *)
LEMMA Invariance == Spec => []IInv
<1>1. Init => IInv
  BY InitTypes, InitPaths, InitDisk, InitClaims DEF IInv
<1>2. IInv /\ [Next]_vars => IInv'
  BY StepTypes, StepPaths, StepFileTree, StepDisk, StepClaims DEF IInv
<1> QED  BY <1>1, <1>2, PTL DEF Spec

(* Every variable holds what the code can put there. *)
THEOREM TypeCorrect == Spec => []TypeOK
<1>1. IInv => TypeOK  BY DEF IInv, Types
<1> QED  BY <1>1, Invariance, PTL

(* Deletions that cascade, and inserts that race with them, leave a tree,  *)
(* whatever names have slashes in them: no row outlives its parent's,      *)
(* every directory's path is the parent's and the name, and no sweep,      *)
(* unlink, upload or end of the process breaks the tree on disk.           *)
THEOREM TreesStay == Spec => []Trees
<1>1. IInv => Trees
  <2>1. IInv => \A d \in DirIds : HasDir(d) => Live(dirs[d].parent)
    BY DEF IInv, PathsRight, DirTree
  <2>2. IInv => \A d \in DirIds : HasDir(d) => DirExists(dirs[d].parent)
    BY <2>1 DEF Live, DirExists
  <2> QED  BY <2>2 DEF IInv, PathsRight, DirTree, FileTree, DiskTree, Trees
<1> QED  BY <1>1, Invariance, PTL

(* A directory that has a row is on disk, unless it, or one above it, was  *)
(* taken by a sweep or an unlink that came late, or by the sweep of a      *)
(* directory that a name with slashes reaches into.                        *)
THEOREM RowsHaveDirectories == Spec => []RowHasDirectory
<1>1. IInv => RowHasDirectory
  <2> SUFFICES ASSUME IInv, NEW d \in DirIds, HasDir(d)
               PROVE  dirs[d].path \in dirsOnDisk \/ Taken(dirs[d].path, stolen)
    BY DEF RowHasDirectory
  <2>1. RowClaim(d) \in Claims /\ RowClaim(d).path = dirs[d].path  BY DEF Claims, RowClaim
  <2> QED  BY <2>1 DEF IInv, ClaimsHold
<1> QED  BY <1>1, Invariance, PTL

(* A sweep takes no file that lies where its row says and whose row is     *)
(* left, but a late one, or one of a directory that a name reaches into;   *)
(* every other step that takes it is a remove() of its very path.          *)
THEOREM OthersLeaveFiles == Spec => FilesOutliveOthers
<1> DEFINE Outlives(f) ==
      /\ HasFile(f) /\ HasFile(f)' /\ Filed(f)
      /\ files[f].path \in filesOnDisk /\ files[f].path \notin filesOnDisk'
      => \/ \E w \in Workers : pc[w] \in {"sfUndo", "dfUnlink"} /\ req[w].path = files[f].path
         \/ Taken(files[f].path, stolen')
<1>1. ASSUME IInv, [Next]_vars, NEW f \in FileIds PROVE Outlives(f)
  <2> USE <1>1 DEF IInv
  <2> SUFFICES ASSUME HasFile(f), HasFile(f)', Filed(f), files[f].path \in filesOnDisk,
                      files[f].path \notin filesOnDisk',
                      ~\E w \in Workers : pc[w] \in {"sfUndo", "dfUnlink"} /\ req[w].path = files[f].path
               PROVE  Taken(files[f].path, stolen')
    OBVIOUS
  <2> DEFINE x == files[f].path
  <2>1. \A w \in Workers : ~SaveUndo(w) /\ ~DeleteFileUnlink(w)
    BY DEF SaveUndo, DeleteFileUnlink, Remove, At
  <2>2. PICK w \in Workers : DeleteDirSweep(w)
    <3>1. ~UNCHANGED vars /\ ~Upload /\ ~Restart /\ ~DeleteElsewhere
      BY DEF vars, Upload, Restart, DeleteElsewhere, disk
    <3>2. \A w \in Workers :
            ~( \/ MakeParent(w) \/ MakeMkdir(w) \/ MakeInsert(w) \/ DeleteDirFind(w)
               \/ DeleteDirRow(w) \/ SaveAccess(w) \/ SaveInsert(w) \/ DeleteFileFind(w)
               \/ DeleteFileRow(w) )
      BY DEF MakeParent, MakeMkdir, MakeInsert, DeleteDirFind, DeleteDirRow, SaveAccess, SaveInsert,
             DeleteFileFind, DeleteFileRow, disk
    <3> QED  BY <2>1, <3>1, <3>2 DEF Next
  <2> DEFINE p == req[w].path
  <2>3. /\ pc[w] = "ddSweep" /\ p \in Seq(Names) /\ p # <<>> /\ stolen \subseteq stolen'
        /\ AtOrBelow(x, p) /\ p \in dirsOnDisk
        /\ (req[w].stale \/ \E r \in ReachInto(p) : AtOrBelow(x, r)) => x \in stolen'
    BY <2>2, SweepFacts
  <2>4. x \in Seq(Names) /\ x # <<>>  BY DEF Types, HasFile, FileRows, Filed
  <2> HIDE DEF p
  <2>5. CASE x \in stolen'  BY <2>4, <2>5, TakenSelf
  <2>6. CASE x \notin stolen'
    <3> DEFINE d == files[f].dir
    <3>1. ~req[w].stale /\ ~\E r \in ReachInto(p) : AtOrBelow(x, r)  BY <2>3, <2>6
    <3>2. Under(x, p)  BY <2>3 DEF DiskTree, AtOrBelow
    <3>3. ParentPath(x) = PathOf(d) /\ DirExists(d) /\ d # Elsewhere  BY DEF Filed, FileTree
    <3>4. PathOf(d) \in Seq(Names)  BY <2>4, <3>3, ParentFacts
    <3>5. PICK n \in Names : x = Append(PathOf(d), n)  BY <2>4, <3>3, ParentFacts
    <3>6. AtOrBelow(PathOf(d), p)  BY <2>3, <3>2, <3>4, <3>5, AppendBelow
    <3>7. PathOf(d) # <<>>  BY <2>3, <3>4, <3>6, NothingEmptyBelow
    <3>8. HasDir(d) /\ PathOf(d) = dirs[d].path  BY <3>3, <3>7 DEF DirExists, PathOf
    <3>9. RowClaim(d) \in Claims /\ RowClaim(d).path = PathOf(d)
      BY <3>8 DEF Claims, RowClaim, HasDir
    <3>10. \A b \in Claims : b.path = p => Taken(p, stolen)
      <4>1. Sweeping(w)  BY <2>3, <3>1 DEF Sweeping
      <4> QED  BY <4>1 DEF ClaimsHold, p
    <3>11. Lost(PathOf(d), p)  BY <2>3, <3>6, <3>9, <3>10, SweptClaims
    <3>12. CASE Taken(PathOf(d), stolen)
      <4>1. Taken(x, stolen)  BY <3>4, <3>5, <3>12, TakenAppend
      <4> QED  BY <2>3, <4>1, TakenMore
    <3>13. CASE \E r \in ReachInto(p) : AtOrBelow(PathOf(d), r)
      <4>1. PICK r \in ReachInto(p) : AtOrBelow(PathOf(d), r)  BY <3>13
      <4>2. r \in Seq(Names)
        <5>1. \A e : HasDir(e) => dirs[e].path \in Seq(Names)  BY DEF Types, HasDir, DirRows
        <5>2. \A v \in Workers : req[v].path \in Seq(Names)  BY DEF Types, Requests
        <5> QED  BY <5>1, <5>2 DEF ReachInto
      <4>3. Under(x, r)  BY <3>4, <3>5, <4>1, <4>2, AppendBelow
      <4> QED  BY <3>1, <4>1, <4>3 DEF AtOrBelow
    <3> QED  BY <3>11, <3>12, <3>13 DEF Lost
  <2> QED  BY <2>5, <2>6
<1>2. IInv /\ [Next]_vars => [\A f \in FileIds : Outlives(f)]_vars
  BY <1>1
<1> HIDE DEF Outlives
<1>3. IInv /\ [Next]_vars =>
        [\A f \in FileIds :
           /\ HasFile(f) /\ HasFile(f)' /\ Filed(f)
           /\ files[f].path \in filesOnDisk /\ files[f].path \notin filesOnDisk'
           => \/ \E w \in Workers : pc[w] \in {"sfUndo", "dfUnlink"} /\ req[w].path = files[f].path
              \/ Taken(files[f].path, stolen')]_vars
  BY <1>2 DEF Outlives
<1> QED  BY <1>3, Invariance, PTL DEF Spec, FilesOutliveOthers
=============================================================================
