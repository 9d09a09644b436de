------------------------------ MODULE Accounts ------------------------------
(***************************************************************************)
(* Users and sessions of the HTTP server: /register, /login, /logout and   *)
(* the authentication every other route starts with                        *)
(* (http/controller/user_controller.c, http/helper/helper.c, model/user.c, *)
(* model/session.c).  Requests run on the workers of the thread pool and   *)
(* share ONE SQLite connection: each SQL statement commits on its own, and *)
(* sqlite3_last_insert_rowid belongs to the connection, not to the thread. *)
(*                                                                         *)
(* A step is one SQL statement, or the read of the last rowid.             *)
(***************************************************************************)
EXTENDS Naturals, FiniteSets

CONSTANTS
  Workers,              \* threads that serve requests
  Users,                \* usernames
  NoUser,               \* no row
  MaxSessions,          \* bound: rows ever inserted into sessions
  MaxOther              \* bound: rows inserted by the other handlers

ASSUME NoUserAssumption == NoUser \notin Users
ASSUME BoundsAssumption == MaxSessions \in Nat /\ MaxOther \in Nat

Ids   == 1..MaxSessions
NoId  == 0              \* a NULL token, or one that was never issued

VARIABLES
  registered,           \* usernames in table users
  sessions,             \* table sessions: id -> user_id; the token stands for the id
  created,              \* AUTOINCREMENT counter of sessions: ids are not used again
  others,               \* AUTOINCREMENT counter of the other tables
  lastRowid,            \* sqlite3_last_insert_rowid of the shared connection
  known,                \* tokens some client was given
  up,                   \* the process runs
  pc, user, token,      \* each worker: next statement, user and token in hand
  status,               \* and the answer it gave
  mine, disturbed,      \* ghost: the row login inserted; an INSERT came after it
  revoked, before       \* ghost: tokens logged out; those that were when a request came

vars == <<registered, sessions, created, others, lastRowid, known, up, pc, user,
          token, status, mine, disturbed, revoked, before>>
db   == <<registered, sessions, created, others, lastRowid>>
ghosts == <<mine, revoked, before>>

Labels == {"idle", "regFind", "regInsert", "logFind", "logInsert", "logRowid",
           "logToken", "authSession", "authUser", "served", "outFind", "outDelete",
           "done"}
Statuses == {"none", "200", "401", "409", "500"}

Init ==
  /\ registered = {}
  /\ sessions = [s \in Ids |-> NoUser]
  /\ created = 0 /\ others = 0 /\ lastRowid = 0
  /\ known = {} /\ up = TRUE
  /\ pc = [w \in Workers |-> "idle"]
  /\ user = [w \in Workers |-> NoUser]
  /\ token = [w \in Workers |-> NoId]
  /\ status = [w \in Workers |-> "none"]
  /\ mine = [w \in Workers |-> NoId]
  /\ disturbed = [w \in Workers |-> FALSE]
  /\ revoked = {}
  /\ before = [w \in Workers |-> {}]

At(w, label) == up /\ pc[w] = label
Goto(w, label) == pc' = [pc EXCEPT ![w] = label]
Answer(w, s) == status' = [status EXCEPT ![w] = s] /\ Goto(w, "done")

(* What an INSERT does to everybody else who is about to read the rowid. *)
Insert(w, rowid) ==
  /\ lastRowid' = rowid
  /\ disturbed' = [v \in Workers |-> v # w /\ (disturbed[v] \/ mine[v] # NoId)]

-----------------------------------------------------------------------------
(* A request arrives: a worker takes it from the pool. *)

Request(w, label, u, t) ==
  /\ At(w, "idle")
  /\ Goto(w, label)
  /\ user' = [user EXCEPT ![w] = u]
  /\ token' = [token EXCEPT ![w] = t]
  /\ before' = [before EXCEPT ![w] = revoked]
  /\ UNCHANGED <<db, known, up, status, mine, disturbed, revoked>>

Register(w) == \E u \in Users : Request(w, "regFind", u, NoId)
Login(w) == \E u \in Users : Request(w, "logFind", u, NoId)
Authenticate(w) == \E t \in known \cup {NoId} : Request(w, "authSession", NoUser, t)

(* The connection is closed and everything the handler kept is gone. *)
Close(w) ==
  /\ At(w, "done")
  /\ Goto(w, "idle")
  /\ user' = [user EXCEPT ![w] = NoUser]
  /\ token' = [token EXCEPT ![w] = NoId]
  /\ status' = [status EXCEPT ![w] = "none"]
  /\ mine' = [mine EXCEPT ![w] = NoId]
  /\ disturbed' = [disturbed EXCEPT ![w] = FALSE]
  /\ before' = [before EXCEPT ![w] = {}]
  /\ UNCHANGED <<db, known, up, revoked>>

-----------------------------------------------------------------------------
(* register_user *)

RegisterFind(w) ==
  /\ At(w, "regFind")
  /\ IF user[w] \in registered
     THEN Answer(w, "409")
     ELSE Goto(w, "regInsert") /\ UNCHANGED status
  /\ UNCHANGED <<db, known, up, user, token, disturbed, ghosts>>

(* username is UNIQUE: the INSERT that comes second fails. *)
RegisterInsert(w) ==
  /\ At(w, "regInsert")
  /\ IF user[w] \in registered
     THEN /\ Answer(w, "500")
          /\ UNCHANGED <<registered, lastRowid, disturbed>>
     ELSE /\ registered' = registered \cup {user[w]}
          /\ Insert(w, Cardinality(registered) + 1)
          /\ Answer(w, "200")
  /\ UNCHANGED <<sessions, created, others, known, up, user, token, ghosts>>

-----------------------------------------------------------------------------
(* login, and save_session. *)

LoginFind(w) ==
  /\ At(w, "logFind")
  /\ \/ user[w] \in registered /\ Goto(w, "logInsert") /\ UNCHANGED status
     \/ Answer(w, "401")               \* no such user, or not that password
  /\ UNCHANGED <<db, known, up, user, token, disturbed, ghosts>>

LoginInsert(w) ==
  /\ At(w, "logInsert")
  /\ created < MaxSessions
  /\ created' = created + 1
  /\ sessions' = [sessions EXCEPT ![created + 1] = user[w]]
  /\ Insert(w, created + 1)
  /\ mine' = [mine EXCEPT ![w] = created + 1]
  /\ Goto(w, "logRowid")
  /\ UNCHANGED <<registered, others, known, up, user, token, status, revoked, before>>

(* Seeded fault: the newest row is found by counting the rows. *)
LoginRowidByCount(w) ==
  /\ At(w, "logRowid")
  /\ token' = [token EXCEPT ![w] = Cardinality({s \in Ids : sessions[s] # NoUser})]
  /\ Goto(w, "logToken")
  /\ UNCHANGED <<db, known, up, user, status, disturbed, ghosts>>

LoginRowid(w) ==
  /\ At(w, "logRowid")
  /\ token' = [token EXCEPT ![w] = lastRowid]
  /\ Goto(w, "logToken")
  /\ UNCHANGED <<db, known, up, user, status, disturbed, ghosts>>

HasSession(t) == t \in Ids /\ sessions[t] # NoUser

(* No such row leaves the token NULL, and encoding it ends the process. *)
LoginToken(w) ==
  /\ At(w, "logToken")
  /\ IF HasSession(token[w])
     THEN known' = known \cup {token[w]} /\ Answer(w, "200") /\ UNCHANGED up
     ELSE up' = FALSE /\ UNCHANGED <<known, pc, status>>
  /\ UNCHANGED <<db, user, token, disturbed, ghosts>>

-----------------------------------------------------------------------------
(* get_user_from_request, and what follows it. is_expired never says yes.  *)

(* Seeded fault: the session's id is taken for its user's. *)
AuthSessionId(w) ==
  /\ At(w, "authSession")
  /\ IF HasSession(token[w])
     THEN /\ user' = [user EXCEPT ![w] = token[w]]
          /\ Goto(w, "authUser")
          /\ UNCHANGED status
     ELSE Answer(w, "401") /\ UNCHANGED user
  /\ UNCHANGED <<db, known, up, token, disturbed, ghosts>>

AuthSession(w) ==
  /\ At(w, "authSession")
  /\ IF HasSession(token[w])
     THEN /\ user' = [user EXCEPT ![w] = sessions[token[w]]]
          /\ Goto(w, "authUser")
          /\ UNCHANGED status
     ELSE Answer(w, "401") /\ UNCHANGED user
  /\ UNCHANGED <<db, known, up, token, disturbed, ghosts>>

(* user_find_by_id for the session's user: no route deletes a user. *)
AuthUser(w) ==
  /\ At(w, "authUser")
  /\ user[w] \in registered
  /\ \E label \in {"served", "outFind"} : Goto(w, label)
  /\ UNCHANGED <<db, known, up, user, token, status, disturbed, ghosts>>

(* /me/info and the like: the handler acts for the user. *)
Serve(w) ==
  /\ At(w, "served")
  /\ Answer(w, "200")
  /\ UNCHANGED <<db, known, up, user, token, disturbed, ghosts>>

(* A handler that inserts: a group, a member, a directory or a file. *)
ServeInsert(w) ==
  /\ At(w, "served")
  /\ others < MaxOther
  /\ others' = others + 1
  /\ Insert(w, others + 1)
  /\ Answer(w, "200")
  /\ UNCHANGED <<registered, sessions, created, known, up, user, token, ghosts>>

(* logout looks the session up again before it deletes it. *)
LogoutFind(w) ==
  /\ At(w, "outFind")
  /\ IF HasSession(token[w])
     THEN Goto(w, "outDelete") /\ UNCHANGED status
     ELSE Answer(w, "401")
  /\ UNCHANGED <<db, known, up, user, token, disturbed, ghosts>>

(* Seeded fault: the DELETE is sent for the newest session. *)
LogoutDeleteNewest(w) ==
  /\ At(w, "outDelete")
  /\ sessions' = [sessions EXCEPT ![created] = NoUser]
  /\ revoked' = revoked \cup {token[w]}
  /\ Answer(w, "200")
  /\ UNCHANGED <<registered, created, others, lastRowid, known, up, user, token,
                 disturbed, mine, before>>

LogoutDelete(w) ==
  /\ At(w, "outDelete")
  /\ sessions' = [sessions EXCEPT ![token[w]] = NoUser]
  /\ revoked' = revoked \cup {token[w]}
  /\ Answer(w, "200")
  /\ UNCHANGED <<registered, created, others, lastRowid, known, up, user, token,
                 disturbed, mine, before>>

-----------------------------------------------------------------------------
Arrive(w) == Register(w) \/ Login(w) \/ Authenticate(w)

Statement(w) ==
  \/ RegisterFind(w) \/ RegisterInsert(w)
  \/ LoginFind(w) \/ LoginInsert(w) \/ LoginRowid(w) \/ LoginToken(w)
  \/ AuthSession(w) \/ AuthUser(w) \/ Serve(w) \/ ServeInsert(w)
  \/ LogoutFind(w) \/ LogoutDelete(w) \/ Close(w)

Next == \E w \in Workers : Arrive(w) \/ Statement(w)

Spec == Init /\ [][Next]_vars

-----------------------------------------------------------------------------
(* Every variable holds what the code can put there. *)
TypeOK ==
  /\ registered \subseteq Users
  /\ sessions \in [Ids -> Users \cup {NoUser}]
  /\ created \in 0..MaxSessions /\ others \in Nat /\ lastRowid \in Nat
  /\ known \subseteq Ids /\ revoked \subseteq Ids
  /\ up \in BOOLEAN
  /\ pc \in [Workers -> Labels]
  /\ user \in [Workers -> Users \cup {NoUser}]
  /\ token \in [Workers -> Nat]
  /\ status \in [Workers -> Statuses]
  /\ mine \in [Workers -> 0..MaxSessions]
  /\ disturbed \in [Workers -> BOOLEAN]
  /\ before \in [Workers -> SUBSET Ids]

Authenticated(w) == pc[w] \in {"authUser", "served", "outFind", "outDelete"}

(* Once /logout has deleted a session, no request that arrives later gets  *)
(* past get_user_from_request with its token, however many other requests  *)
(* with that token were under way.                                         *)
NoServiceAfterLogout ==
  \A w \in Workers : Authenticated(w) => token[w] \notin before[w]

(* A login may go on with a session that is not the one it inserted only   *)
(* if another handler's INSERT came between its INSERT and its read of     *)
(* sqlite3_last_insert_rowid; and the process dies on a NULL token only    *)
(* after such an interleaving, or when another client was given this       *)
(* session and logged it out before the client it was made for ever saw it.*)
UndisturbedLogin ==
  /\ \A w \in Workers :
       mine[w] # NoId /\ pc[w] \in {"logToken", "done"} /\ token[w] # mine[w] => disturbed[w]
  /\ ~up => \E w \in Workers :
              pc[w] = "logToken" /\ (disturbed[w] \/ mine[w] \in revoked)
=============================================================================
