--------------------------- MODULE AccountsProofs ---------------------------
(***************************************************************************)
(* Proofs about Accounts for every set of workers and users and every      *)
(* number of sessions.                                                     *)
(***************************************************************************)
EXTENDS Accounts, FiniteSetTheorems, TLAPS

(* A request that got past the first query has a session's token.          *)
TokensIssued ==
  \A w \in Workers : Authenticated(w) => token[w] \in 1..created

(* Who registers or logs in has a name. *)
NamesGiven ==
  \A w \in Workers : pc[w] \in {"regFind", "regInsert", "logFind", "logInsert"} => user[w] \in Users

(* The rows of sessions are those that were inserted and not logged out,   *)
(* and what was logged out when a request arrived stays so.                *)
RowsOfSessions ==
  /\ \A s \in Ids : sessions[s] # NoUser <=> s \in 1..created /\ s \notin revoked
  /\ revoked \subseteq 1..created
  /\ \A w \in Workers : before[w] \subseteq revoked

(* A login under way has a row of its own, and the last rowid is that row  *)
(* until another INSERT disturbs it.                                       *)
LoginsUnderWay ==
  \A w \in Workers :
    /\ mine[w] \in 0..created
    /\ mine[w] # NoId => pc[w] \in {"logRowid", "logToken", "done"}
    /\ pc[w] \in {"logRowid", "logToken"} => mine[w] # NoId
    /\ pc[w] = "logRowid" => disturbed[w] \/ lastRowid = mine[w]

Inv ==
  /\ TypeOK /\ IsFiniteSet(registered)
  /\ TokensIssued /\ NamesGiven /\ RowsOfSessions /\ LoginsUnderWay
  /\ NoServiceAfterLogout /\ UndisturbedLogin

-----------------------------------------------------------------------------
LEMMA InitInv == Init => Inv
BY FS_EmptySet, BoundsAssumption
   DEF Init, Inv, TypeOK, TokensIssued, NamesGiven, RowsOfSessions, LoginsUnderWay, NoServiceAfterLogout,
       UndisturbedLogin, Authenticated, Ids, NoId, Labels, Statuses

(* Every step keeps every variable typed. *)
LEMMA TypeStep == Inv /\ [Next]_vars => TypeOK' /\ IsFiniteSet(registered)'
<1> SUFFICES ASSUME Inv, [Next]_vars PROVE TypeOK' /\ IsFiniteSet(registered)'
  OBVIOUS
<1> USE NoUserAssumption, BoundsAssumption
    DEF Inv, TypeOK, Ids, NoId, Labels, Statuses, At, Goto, Answer, db, ghosts
<1>1. ASSUME NEW w \in Workers, Arrive(w) PROVE TypeOK' /\ IsFiniteSet(registered)'
  <2>1. PICK label \in {"regFind", "logFind", "authSession"}, u \in Users \cup {NoUser},
             t \in known \cup {NoId} : Request(w, label, u, t)
    BY <1>1 DEF Arrive, Register, Login, Authenticate
  <2> QED
    BY <2>1 DEF Request
<1>2. ASSUME NEW w \in Workers,
             RegisterFind(w) \/ LoginFind(w) \/ AuthUser(w) \/ Serve(w) \/ LogoutFind(w)
      PROVE  TypeOK' /\ IsFiniteSet(registered)'
  BY <1>2 DEF RegisterFind, LoginFind, AuthUser, Serve, LogoutFind
<1>3. ASSUME NEW w \in Workers, RegisterInsert(w) PROVE TypeOK' /\ IsFiniteSet(registered)'
  <2>1. CASE user[w] \in registered
    BY <1>3, <2>1 DEF RegisterInsert
  <2>2. CASE user[w] \notin registered
    <3>1. PICK n \in Nat : Insert(w, n)
      BY <1>3, <2>2, FS_CardinalityType DEF RegisterInsert
    <3>2. IsFiniteSet(registered')
      BY <1>3, <2>2, FS_AddElement DEF RegisterInsert
    <3>3. /\ registered' = registered \cup {user[w]} /\ user[w] \in Users
          /\ pc' = [pc EXCEPT ![w] = "done"] /\ status' = [status EXCEPT ![w] = "200"]
          /\ UNCHANGED <<sessions, created, others, known, up, user, token, ghosts>>
      BY <1>3, <2>2 DEF RegisterInsert, NamesGiven
    <3> QED
      BY <3>1, <3>2, <3>3 DEF Insert
  <2> QED
    BY <2>1, <2>2
<1>4. ASSUME NEW w \in Workers, LoginInsert(w) PROVE TypeOK' /\ IsFiniteSet(registered)'
  BY <1>4 DEF LoginInsert, Insert
<1>5. ASSUME NEW w \in Workers, LoginRowid(w) \/ LoginToken(w)
      PROVE  TypeOK' /\ IsFiniteSet(registered)'
  <2>1. CASE LoginRowid(w)
    BY <2>1 DEF LoginRowid
  <2>2. CASE LoginToken(w) /\ HasSession(token[w])
    <3>1. token[w] \in Ids
      BY <2>2 DEF HasSession
    <3>2. /\ known' = known \cup {token[w]} /\ pc' = [pc EXCEPT ![w] = "done"]
          /\ status' = [status EXCEPT ![w] = "200"]
          /\ UNCHANGED <<db, user, token, disturbed, ghosts, up>>
      BY <2>2 DEF LoginToken
    <3> QED
      BY <3>1, <3>2
  <2>3. CASE LoginToken(w) /\ ~HasSession(token[w])
    BY <2>3 DEF LoginToken
  <2> QED
    BY <1>5, <2>1, <2>2, <2>3
<1>6. ASSUME NEW w \in Workers, AuthSession(w) PROVE TypeOK' /\ IsFiniteSet(registered)'
  <2>1. CASE HasSession(token[w])
    <3>1. sessions[token[w]] \in Users
      BY <2>1 DEF HasSession
    <3> QED
      BY <1>6, <2>1, <3>1 DEF AuthSession
  <2>2. CASE ~HasSession(token[w])
    BY <1>6, <2>2 DEF AuthSession
  <2> QED
    BY <2>1, <2>2
<1>7. ASSUME NEW w \in Workers, ServeInsert(w) PROVE TypeOK' /\ IsFiniteSet(registered)'
  BY <1>7 DEF ServeInsert, Insert
<1>8. ASSUME NEW w \in Workers, LogoutDelete(w) PROVE TypeOK' /\ IsFiniteSet(registered)'
  <2>1. token[w] \in Ids
    BY <1>8 DEF LogoutDelete, TokensIssued, Authenticated
  <2> QED
    BY <1>8, <2>1 DEF LogoutDelete
<1>9. ASSUME NEW w \in Workers, Close(w) PROVE TypeOK' /\ IsFiniteSet(registered)'
  BY <1>9 DEF Close
<1>10. CASE UNCHANGED vars
  BY <1>10 DEF vars
<1> QED
  BY <1>1, <1>2, <1>3, <1>4, <1>5, <1>6, <1>7, <1>8, <1>9, <1>10 DEF Next, Statement

(* What a request knows of names and tokens stays true to the table.       *)
LEMMA NamesStep == Inv /\ [Next]_vars => TokensIssued' /\ NamesGiven' /\ RowsOfSessions'
<1> SUFFICES ASSUME Inv, [Next]_vars PROVE TokensIssued' /\ NamesGiven' /\ RowsOfSessions'
  OBVIOUS
<1> USE NoUserAssumption, BoundsAssumption
    DEF Inv, TypeOK, Ids, NoId, Labels, Statuses, At, Goto, Answer, db, ghosts,
        TokensIssued, NamesGiven, RowsOfSessions, Authenticated
<1>1. ASSUME NEW w \in Workers, Arrive(w) PROVE TokensIssued' /\ NamesGiven' /\ RowsOfSessions'
  <2>1. PICK label \in {"regFind", "logFind", "authSession"}, u \in Users \cup {NoUser},
             t \in Nat : Request(w, label, u, t) /\ (label # "authSession" => u \in Users)
    BY <1>1 DEF Arrive, Register, Login, Authenticate
  <2>2. /\ pc' = [pc EXCEPT ![w] = label] /\ user' = [user EXCEPT ![w] = u]
        /\ token' = [token EXCEPT ![w] = t] /\ before' = [before EXCEPT ![w] = revoked]
        /\ UNCHANGED <<sessions, created, revoked>>
    BY <2>1 DEF Request
  <2>3. TokensIssued' /\ NamesGiven'
    BY <2>1, <2>2
  <2>4. RowsOfSessions'
    BY <2>2
  <2> QED
    BY <2>3, <2>4
<1>2. ASSUME NEW w \in Workers,
             RegisterFind(w) \/ LoginFind(w) \/ AuthUser(w) \/ Serve(w) \/ LogoutFind(w)
      PROVE  TokensIssued' /\ NamesGiven' /\ RowsOfSessions'
  BY <1>2 DEF RegisterFind, LoginFind, AuthUser, Serve, LogoutFind
<1>3. ASSUME NEW w \in Workers, RegisterInsert(w) \/ ServeInsert(w) \/ Close(w)
      PROVE  TokensIssued' /\ NamesGiven' /\ RowsOfSessions'
  <2>1. CASE RegisterInsert(w)
    BY <2>1 DEF RegisterInsert
  <2>2. CASE ServeInsert(w)
    BY <2>2 DEF ServeInsert
  <2>3. CASE Close(w)
    <3>1. /\ pc' = [pc EXCEPT ![w] = "idle"] /\ before' = [before EXCEPT ![w] = {}]
          /\ user' = [user EXCEPT ![w] = NoUser] /\ token' = [token EXCEPT ![w] = NoId]
          /\ UNCHANGED <<sessions, created, revoked>>
      BY <2>3 DEF Close
    <3> QED
      BY <3>1
  <2> QED
    BY <1>3, <2>1, <2>2, <2>3
<1>4. ASSUME NEW w \in Workers, LoginInsert(w)
      PROVE  TokensIssued' /\ NamesGiven' /\ RowsOfSessions'
  BY <1>4 DEF LoginInsert
<1>5. ASSUME NEW w \in Workers, LoginRowid(w) \/ LoginToken(w)
      PROVE  TokensIssued' /\ NamesGiven' /\ RowsOfSessions'
  BY <1>5 DEF LoginRowid, LoginToken
<1>6. ASSUME NEW w \in Workers, AuthSession(w)
      PROVE  TokensIssued' /\ NamesGiven' /\ RowsOfSessions'
  BY <1>6 DEF AuthSession, HasSession
<1>7. ASSUME NEW w \in Workers, LogoutDelete(w)
      PROVE  TokensIssued' /\ NamesGiven' /\ RowsOfSessions'
  BY <1>7 DEF LogoutDelete
<1>8. CASE UNCHANGED vars
  BY <1>8 DEF vars
<1> QED
  BY <1>1, <1>2, <1>3, <1>4, <1>5, <1>6, <1>7, <1>8 DEF Next, Statement

(* A token that was logged out before a request came has no row for its    *)
(* first query, and none is made again.                                    *)
LEMMA ServiceStep == Inv /\ [Next]_vars => NoServiceAfterLogout'
<1> SUFFICES ASSUME Inv, [Next]_vars PROVE NoServiceAfterLogout'
  OBVIOUS
<1> USE NoUserAssumption, BoundsAssumption
    DEF Inv, TypeOK, Ids, NoId, Labels, Statuses, At, Goto, Answer, db, ghosts,
        RowsOfSessions, Authenticated, NoServiceAfterLogout
<1>1. ASSUME NEW w \in Workers, Arrive(w) PROVE NoServiceAfterLogout'
  <2>1. PICK label \in {"regFind", "logFind", "authSession"}, u \in Users \cup {NoUser},
             t \in Nat : Request(w, label, u, t)
    BY <1>1 DEF Arrive, Register, Login, Authenticate
  <2> QED
    BY <2>1 DEF Request
<1>2. ASSUME NEW w \in Workers, AuthSession(w) PROVE NoServiceAfterLogout'
  BY <1>2 DEF AuthSession, HasSession
<1>3. ASSUME NEW w \in Workers,
             RegisterFind(w) \/ LoginFind(w) \/ AuthUser(w) \/ Serve(w) \/ LogoutFind(w)
      PROVE  NoServiceAfterLogout'
  BY <1>3 DEF RegisterFind, LoginFind, AuthUser, Serve, LogoutFind
<1>4. ASSUME NEW w \in Workers,
             RegisterInsert(w) \/ ServeInsert(w) \/ LoginInsert(w) \/ LogoutDelete(w) \/ Close(w)
      PROVE  NoServiceAfterLogout'
  BY <1>4 DEF RegisterInsert, ServeInsert, LoginInsert, LogoutDelete, Close
<1>5. ASSUME NEW w \in Workers, LoginRowid(w) \/ LoginToken(w) PROVE NoServiceAfterLogout'
  BY <1>5 DEF LoginRowid, LoginToken
<1>6. CASE UNCHANGED vars
  BY <1>6 DEF vars
<1> QED
  BY <1>1, <1>2, <1>3, <1>4, <1>5, <1>6 DEF Next, Statement

(* An INSERT disturbs every other login under way.                         *)
LEMMA InsertDisturbs ==
  ASSUME NEW w \in Workers, NEW n, Insert(w, n)
  PROVE  \A v \in Workers : v # w /\ (disturbed[v] \/ mine[v] # NoId) => disturbed'[v]
BY Zenon DEF Insert

(* A login keeps its own row in hand until another INSERT disturbs it.     *)
LEMMA LoginStep == Inv /\ [Next]_vars => LoginsUnderWay' /\ UndisturbedLogin'
<1> SUFFICES ASSUME Inv, [Next]_vars PROVE LoginsUnderWay' /\ UndisturbedLogin'
  OBVIOUS
<1> USE NoUserAssumption, BoundsAssumption
    DEF Inv, TypeOK, Ids, NoId, Labels, Statuses, At, Goto, Answer, db, ghosts,
        LoginsUnderWay, UndisturbedLogin
<1>1. ASSUME NEW w \in Workers, Arrive(w) PROVE LoginsUnderWay' /\ UndisturbedLogin'
  <2>1. PICK label \in {"regFind", "logFind", "authSession"}, u \in Users \cup {NoUser},
             t \in Nat : Request(w, label, u, t)
    BY <1>1 DEF Arrive, Register, Login, Authenticate
  <2> QED
    BY <2>1 DEF Request
<1>2. ASSUME NEW w \in Workers,
             RegisterFind(w) \/ LoginFind(w) \/ AuthUser(w) \/ Serve(w) \/ LogoutFind(w)
      PROVE  LoginsUnderWay' /\ UndisturbedLogin'
  BY <1>2 DEF RegisterFind, LoginFind, AuthUser, Serve, LogoutFind
<1>3. ASSUME NEW w \in Workers, RegisterInsert(w) PROVE LoginsUnderWay' /\ UndisturbedLogin'
  <2>1. mine[w] = NoId /\ pc' = [pc EXCEPT ![w] = "done"] /\ UNCHANGED <<created, token, mine, revoked, up>>
    BY <1>3 DEF RegisterInsert
  <2>2. CASE user[w] \in registered
    BY <1>3, <2>1, <2>2 DEF RegisterInsert
  <2>3. CASE user[w] \notin registered
    <3>1. PICK n : Insert(w, n)
      BY <1>3, <2>3 DEF RegisterInsert
    <3> QED
      BY <2>1, <3>1, InsertDisturbs
  <2> QED
    BY <2>2, <2>3
<1>4. ASSUME NEW w \in Workers, ServeInsert(w) PROVE LoginsUnderWay' /\ UndisturbedLogin'
  <2>1. /\ mine[w] = NoId /\ pc' = [pc EXCEPT ![w] = "done"]
        /\ Insert(w, others + 1) /\ UNCHANGED <<created, token, mine, revoked, up>>
    BY <1>4 DEF ServeInsert
  <2> QED
    BY <2>1, InsertDisturbs
<1>5. ASSUME NEW w \in Workers, LoginInsert(w) PROVE LoginsUnderWay' /\ UndisturbedLogin'
  <2>1. /\ pc[w] = "logInsert" /\ pc' = [pc EXCEPT ![w] = "logRowid"] /\ up
        /\ created' = created + 1 /\ mine' = [mine EXCEPT ![w] = created + 1]
        /\ Insert(w, created + 1) /\ UNCHANGED <<token, revoked, up>>
    BY <1>5 DEF LoginInsert
  <2> QED
    BY <2>1, InsertDisturbs DEF Insert
<1>6. ASSUME NEW w \in Workers, LoginRowid(w) PROVE LoginsUnderWay' /\ UndisturbedLogin'
  BY <1>6 DEF LoginRowid
<1>7. ASSUME NEW w \in Workers, LoginToken(w) PROVE LoginsUnderWay' /\ UndisturbedLogin'
  <2>1. CASE HasSession(token[w])
    BY <1>7, <2>1 DEF LoginToken
  <2>2. CASE ~HasSession(token[w])
    <3>1. pc[w] = "logToken" /\ (disturbed[w] \/ mine[w] \in revoked)
      BY <1>7, <2>2 DEF LoginToken, HasSession, RowsOfSessions
    <3> QED
      BY <1>7, <2>2, <3>1 DEF LoginToken
  <2> QED
    BY <2>1, <2>2
<1>8. ASSUME NEW w \in Workers, AuthSession(w) PROVE LoginsUnderWay' /\ UndisturbedLogin'
  BY <1>8 DEF AuthSession
<1>9. ASSUME NEW w \in Workers, LogoutDelete(w) PROVE LoginsUnderWay' /\ UndisturbedLogin'
  BY <1>9 DEF LogoutDelete
<1>10. ASSUME NEW w \in Workers, Close(w) PROVE LoginsUnderWay' /\ UndisturbedLogin'
  BY <1>10 DEF Close
<1>11. CASE UNCHANGED vars
  BY <1>11 DEF vars
<1> QED
  BY <1>1, <1>2, <1>3, <1>4, <1>5, <1>6, <1>7, <1>8, <1>9, <1>10, <1>11 DEF Next, Statement

LEMMA StepInv == Inv /\ [Next]_vars => Inv'
BY TypeStep, NamesStep, ServiceStep, LoginStep, Zenon DEF Inv

LEMMA Invariant == Spec => []Inv
BY InitInv, StepInv, PTL DEF Spec

-----------------------------------------------------------------------------
(* Every variable of the accounts keeps its type.                          *)
THEOREM AccountsTyped == Spec => []TypeOK
<1>1. Inv => TypeOK
  BY DEF Inv
<1> QED
  BY <1>1, Invariant, PTL

(* get_user_from_request serves nobody whose session was logged out before *)
(* his request came, however many requests and logouts overlap.            *)
THEOREM LoggedOutIsOut == Spec => []NoServiceAfterLogout
<1>1. Inv => NoServiceAfterLogout
  BY DEF Inv
<1> QED
  BY <1>1, Invariant, PTL

(* A login goes on with another session, or ends the process, only after   *)
(* another INSERT came before it read the last rowid of the connection, or *)
(* its own session was logged out first.                                   *)
THEOREM LoginUndisturbed == Spec => []UndisturbedLogin
<1>1. Inv => UndisturbedLogin
  BY DEF Inv
<1> QED
  BY <1>1, Invariant, PTL
=============================================================================
