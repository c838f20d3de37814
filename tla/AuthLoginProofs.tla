---------------------------- MODULE AuthLoginProofs ----------------------------
(***************************************************************************)
(* Proof that concurrent first logins of one user never make two root     *)
(* folders, for any number of requests, users and sessions: AuthIInv is   *)
(* inductive and implies RootFolderUnique.                                 *)
(***************************************************************************)
EXTENDS AuthLogin, TLAPS

USE AuthAssumption

(* Initially no login is under way and no user has a row or a folder.     *)
LEMMA InitAuthIInv == Init => AuthIInv
<1> SUFFICES ASSUME Init PROVE AuthIInv
  OBVIOUS
<1>1. /\ (CHOOSE u \in Users : TRUE) \in Users
      /\ (CHOOSE nm \in Names : TRUE) \in Names
      /\ (CHOOSE s \in Sessions : TRUE) \in Sessions
  OBVIOUS
<1>2. TypeOK
  BY <1>1 DEF Init, TypeOK, Stages
<1>3. QED
  BY <1>2 DEF Init, AuthIInv

(* Bind and Find touch no row and no folder, and lead to "bound",         *)
(* "create", "update" or "done", never to "root".                         *)
LEMMA EarlyAuthIInv ==
  ASSUME AuthIInv, NEW r \in Req, Bind(r) \/ Find(r)
  PROVE  AuthIInv'
<1>1. UNCHANGED <<users, roots>> /\ pc'[r] # "root"
      /\ \A q \in Req \ {r} : pc'[q] = pc[q] /\ who'[q] = who[q]
  BY DEF Bind, Find, Return, AuthIInv, TypeOK
<1>2. TypeOK'
  <2>1. CASE Bind(r)
    <3>1. PICK u \in Users, nm \in Names, s \in Sessions :
            /\ who' = [who EXCEPT ![r] = [user |-> u, name |-> nm, session |-> s]]
            /\ \/ Return(r, "err")
               \/ Return(r, "unauthorized")
               \/ pc' = [pc EXCEPT ![r] = "bound"] /\ UNCHANGED res
      BY <2>1 DEF Bind
    <3>2. who' \in [Req -> [user : Users, name : Names, session : Sessions]]
      BY <3>1 DEF AuthIInv, TypeOK
    <3>3. pc' \in [Req -> Stages] /\ res' \in [Req -> {"none", "ok", "err", "unauthorized"}]
      BY <3>1 DEF Return, AuthIInv, TypeOK, Stages
    <3>4. QED
      BY <1>1, <3>2, <3>3 DEF AuthIInv, TypeOK
  <2>2. CASE Find(r)
    BY <2>2 DEF Find, Return, AuthIInv, TypeOK, Stages
  <2>3. QED
    BY <2>1, <2>2
<1>3. QED
  BY <1>1, <1>2 DEF AuthIInv

(* CreateUser: the Create succeeds only for a user with no row, so no     *)
(* folder and no other login in "root" for that user.                      *)
LEMMA CreateUserAuthIInv ==
  ASSUME AuthIInv, NEW r \in Req, CreateUser(r)
  PROVE  AuthIInv'
<1> DEFINE u == who[r].user
<1>1. pc[r] = "create" /\ UNCHANGED <<who, roots>> /\ u \in Users
  BY DEF CreateUser, AuthIInv, TypeOK
<1>2. CASE Return(r, "err") /\ UNCHANGED users
  <2>1. TypeOK'
    BY <1>1, <1>2 DEF Return, AuthIInv, TypeOK, Stages
  <2>2. QED
    BY <1>1, <1>2, <2>1 DEF Return, AuthIInv
<1>3. CASE /\ users[u] = NoSession
           /\ users' = [users EXCEPT ![u] = who[r].session]
           /\ pc' = [pc EXCEPT ![r] = "root"]
           /\ UNCHANGED res
  <2>1. roots[u] = 0
    BY <1>1, <1>3 DEF AuthIInv, TypeOK
  <2>2. \A q \in Req : pc[q] = "root" => who[q].user # u
    BY <1>3 DEF AuthIInv
  <2>3. who[r].session \in Sessions /\ who[r].session # NoSession
    BY DEF AuthIInv, TypeOK
  <2>4. TypeOK'
    BY <1>1, <1>3, <2>3 DEF AuthIInv, TypeOK, Stages
  <2>5. \A v \in Users : users[v] # NoSession => users'[v] # NoSession
    BY <1>3, <2>3 DEF AuthIInv, TypeOK
  <2>6. QED
    BY <1>1, <1>3, <2>1, <2>2, <2>3, <2>4, <2>5 DEF AuthIInv, TypeOK
<1>4. QED
  BY <1>2, <1>3 DEF CreateUser

(* CreateRoot: the only login creating the user's folder makes the first  *)
(* one and leaves "root".                                                  *)
LEMMA CreateRootAuthIInv ==
  ASSUME AuthIInv, NEW r \in Req, CreateRoot(r)
  PROVE  AuthIInv'
<1> DEFINE u == who[r].user
<1>1. /\ pc[r] = "root" /\ UNCHANGED <<who, users>> /\ u \in Users
      /\ pc' = [pc EXCEPT ![r] = "done"]
      /\ res' \in [Req -> {"none", "ok", "err", "unauthorized"}]
  BY DEF CreateRoot, Return, AuthIInv, TypeOK
<1>2. users[u] # NoSession /\ roots[u] = 0
  BY <1>1 DEF AuthIInv
<1>3. \A q \in Req \ {r} : pc[q] = "root" => who[q].user # u
  BY <1>1 DEF AuthIInv
<1>4. CASE UNCHANGED roots
  BY <1>1, <1>4 DEF AuthIInv, TypeOK, Stages
<1>5. CASE roots' = [roots EXCEPT ![u] = @ + 1]
  <2>1. roots' = [roots EXCEPT ![u] = 1]
    BY <1>2, <1>5 DEF AuthIInv, TypeOK
  <2>2. QED
    BY <1>1, <1>2, <1>3, <2>1 DEF AuthIInv, TypeOK, Stages
<1>6. QED
  BY <1>4, <1>5 DEF CreateRoot

(* UpdateSession writes a session into an existing row: no row goes away. *)
LEMMA UpdateSessionAuthIInv ==
  ASSUME AuthIInv, NEW r \in Req, UpdateSession(r)
  PROVE  AuthIInv'
<1> DEFINE u == who[r].user
<1>1. /\ pc[r] = "update" /\ UNCHANGED <<who, roots>> /\ u \in Users
      /\ pc' = [pc EXCEPT ![r] = "done"]
      /\ res' \in [Req -> {"none", "ok", "err", "unauthorized"}]
      /\ who[r].session \in Sessions /\ who[r].session # NoSession
  BY DEF UpdateSession, Return, AuthIInv, TypeOK
<1>2. \/ users' = users
      \/ users' = [users EXCEPT ![u] = who[r].session]
  BY DEF UpdateSession
<1>3. /\ users' \in [Users -> Sessions \cup {NoSession}]
      /\ \A v \in Users : users[v] # NoSession => users'[v] # NoSession
  BY <1>1, <1>2 DEF AuthIInv, TypeOK
<1>4. QED
  BY <1>1, <1>3 DEF AuthIInv, TypeOK, Stages

(* Every step, or a stutter, preserves AuthIInv.                           *)
LEMMA NextAuthIInv == AuthIInv /\ [Next]_vars => AuthIInv'
<1> SUFFICES ASSUME AuthIInv, [Next]_vars PROVE AuthIInv'
  OBVIOUS
<1>1. CASE Next
  BY <1>1, EarlyAuthIInv, CreateUserAuthIInv, CreateRootAuthIInv,
     UpdateSessionAuthIInv DEF Next
<1>2. CASE UNCHANGED vars
  BY <1>2 DEF vars, AuthIInv, TypeOK
<1>3. QED
  BY <1>1, <1>2

(* Concurrent first logins of one user (lines 158-184) never leave it     *)
(* with two root folders, for every number of requests and users.          *)
THEOREM RootFolderUniqueness == Spec => []RootFolderUnique
<1>1. AuthIInv => RootFolderUnique
  BY DEF AuthIInv, RootFolderUnique
<1>2. QED
  BY <1>1, InitAuthIInv, NextAuthIInv, PTL DEF Spec

(* The whole strengthening holds in every reachable state: a login that   *)
(* creates the root folder made the user's row first, found no folder and *)
(* is the only one creating it, and a user with a folder has a row.        *)
THEOREM AuthIInvInvariant == Spec => []AuthIInv
BY InitAuthIInv, NextAuthIInv, PTL DEF Spec

====
