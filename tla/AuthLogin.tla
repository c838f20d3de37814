------------------------------ MODULE AuthLogin ------------------------------
(***************************************************************************)
(* AuthService.LogIn (src/services/auth.service.go lines 121-196): the     *)
(* login of a user whose Telegram session the client has already made.    *)
(* The handler checks the allow-list, issues the JWE cookie, and then, in  *)
(* three separate database calls with no transaction, looks the user up,   *)
(* creates the user row and the user's root folder on the first login, or *)
(* stores the new session on a later one.  Logins run concurrently (one    *)
(* goroutine per HTTP request), so the calls of two logins interleave.     *)
(*                                                                         *)
(* The payload carries the user's Telegram id and user name as two fields *)
(* the client fills in: the allow-list is checked on the name (line 127), *)
(* while the JWT subject, the row and the session go by the id (134, 158, *)
(* 186).  NameOf is the user name each id really has on Telegram.        *)
(*                                                                         *)
(* The users table is keyed by user_id (the lookup and the update of lines *)
(* 158 and 186 go by it): a Create of a user_id that exists fails.  The    *)
(* root folder has no such key: a second Create of it succeeds.            *)
(***************************************************************************)
EXTENDS Naturals

CONSTANTS
    Req,            \* concurrent LogIn requests
    Users,          \* Telegram user ids a client may log in as
    Names,          \* Telegram user names
    NameOf,         \* NameOf[u]: the user name of the account with id u
    Sessions,       \* Telegram session strings
    AllowedUsers,   \* config.AllowedUsers, user names; {} admits everyone
    NoSession       \* the value of users[u] while u has no row

ASSUME AuthAssumption ==
    /\ Users # {} /\ Names # {} /\ Sessions # {}
    /\ NameOf \in [Users -> Names]
    /\ AllowedUsers \subseteq Names
    /\ NoSession \notin Sessions

VARIABLES
    pc,         \* pc[r]: where request r is in LogIn
    who,        \* who[r]: the payload's user id, user name and session
    res,        \* res[r]: the answer of request r
    users,      \* users[u]: the tg_session of u's row, or NoSession
    roots       \* roots[u]: the number of root folders of u

vars == <<pc, who, res, users, roots>>

Stages == {"idle", "bound", "create", "root", "update", "done"}

-----------------------------------------------------------------------------
(* checkUserIsAllowed, lines 105-119: an empty allow-list admits everyone. *)
checkUserIsAllowed(userName) ==
    AllowedUsers = {} \/ userName \in AllowedUsers

Init ==
    /\ pc = [r \in Req |-> "idle"]
    /\ who = [r \in Req |-> [user |-> CHOOSE u \in Users : TRUE,
                             name |-> CHOOSE nm \in Names : TRUE,
                             session |-> CHOOSE s \in Sessions : TRUE]]
    /\ res = [r \in Req |-> "none"]
    /\ users = [u \in Users |-> NoSession]
    /\ roots = [u \in Users |-> 0]

(* Request r returns with answer a.                                        *)
Return(r, a) ==
    /\ pc' = [pc EXCEPT ![r] = "done"]
    /\ res' = [res EXCEPT ![r] = a]

(* Lines 122-148: bind the payload, refuse a user name not allowed, encode *)
(* the JWE for the payload's id; binding and encoding may fail.  Nothing  *)
(* shared changes.                                                         *)
Bind(r) ==
    /\ pc[r] = "idle"
    /\ \E u \in Users, nm \in Names, s \in Sessions :
         /\ who' = [who EXCEPT ![r] = [user |-> u, name |-> nm, session |-> s]]
         /\ \/ Return(r, "err")
            \/ /\ ~checkUserIsAllowed(nm)
               /\ Return(r, "unauthorized")
            \/ /\ checkUserIsAllowed(nm)
               /\ pc' = [pc EXCEPT ![r] = "bound"]
               /\ UNCHANGED res
    /\ UNCHANGED <<users, roots>>

(* Lines 158-163: look the user up; the query may fail.                    *)
Find(r) ==
    /\ pc[r] = "bound"
    /\ \/ Return(r, "err")
       \/ /\ pc' = [pc EXCEPT ![r] = IF users[who[r].user] = NoSession
                                     THEN "create" ELSE "update"]
          /\ UNCHANGED res
    /\ UNCHANGED <<who, users, roots>>

(* Mutant: the users table has no key on user_id.                          *)
CreateUserNoKey(r) ==
    /\ pc[r] = "create"
    /\ \/ /\ Return(r, "err")
          /\ UNCHANGED users
       \/ /\ users' = [users EXCEPT ![who[r].user] = who[r].session]
          /\ pc' = [pc EXCEPT ![r] = "root"]
          /\ UNCHANGED res
    /\ UNCHANGED <<who, roots>>

(* Lines 164-168: create the user row.  It fails on a database error, and  *)
(* on the key when a concurrent login created the row since the lookup.    *)
CreateUser(r) ==
    /\ pc[r] = "create"
    /\ \/ /\ Return(r, "err")
          /\ UNCHANGED users
       \/ /\ users[who[r].user] = NoSession
          /\ users' = [users EXCEPT ![who[r].user] = who[r].session]
          /\ pc' = [pc EXCEPT ![r] = "root"]
          /\ UNCHANGED res
    /\ UNCHANGED <<who, roots>>

(* Lines 170-184: create the root folder; on failure the user row stays   *)
(* and the request fails.  Lines 192-195 set the cookie and answer.        *)
CreateRoot(r) ==
    /\ pc[r] = "root"
    /\ \/ /\ Return(r, "err")
          /\ UNCHANGED roots
       \/ /\ roots' = [roots EXCEPT ![who[r].user] = @ + 1]
          /\ Return(r, "ok")
    /\ UNCHANGED <<who, users>>

(* Lines 185-195: store the new session in the existing row, set the      *)
(* cookie and answer; the update may fail.                                 *)
UpdateSession(r) ==
    /\ pc[r] = "update"
    /\ \/ /\ Return(r, "err")
          /\ UNCHANGED users
       \/ /\ users' = [users EXCEPT ![who[r].user] = who[r].session]
          /\ Return(r, "ok")
    /\ UNCHANGED <<who, roots>>

Next ==
    \E r \in Req :
       \/ Bind(r) \/ Find(r) \/ CreateUser(r) \/ CreateRoot(r)
       \/ UpdateSession(r)

Spec == Init /\ [][Next]_vars

-----------------------------------------------------------------------------
(* Every variable keeps its type.                                          *)
TypeOK ==
    /\ pc \in [Req -> Stages]
    /\ who \in [Req -> [user : Users, name : Names, session : Sessions]]
    /\ res \in [Req -> {"none", "ok", "err", "unauthorized"}]
    /\ users \in [Users -> Sessions \cup {NoSession}]
    /\ roots \in [Users -> Nat]

(* However the lookups and creates of concurrent first logins of one user  *)
(* interleave (lines 158-184), the user ends up with at most one root      *)
(* folder.                                                                 *)
RootFolderUnique ==
    \A u \in Users : roots[u] <= 1

(* The comment of line 169: the first login creates the root folder, so    *)
(* every user who logged in successfully has one.                          *)
LoggedInUserHasRoot ==
    \A r \in Req : res[r] = "ok" => roots[who[r].user] > 0

(* What checkUserIsAllowed and its "user not allowed" answer (lines       *)
(* 127-129) are there for: a login answered "ok", which stores its session *)
(* in the row of the payload's user id, is of an account whose own user   *)
(* name is on the allow-list.                                              *)
OnlyAllowedLoggedIn ==
    \A r \in Req : res[r] = "ok" => checkUserIsAllowed(NameOf[who[r].user])

-----------------------------------------------------------------------------
(* The strengthening of RootFolderUnique that every step preserves: a     *)
(* login creating the root folder made the user's row, finds no folder     *)
(* yet and is the only one creating it; a user with a folder has a row.    *)
(* It holds because the Create of line 165 fails on the key for every     *)
(* login but the first.                                                    *)
AuthIInv ==
    /\ TypeOK
    /\ \A u \in Users : roots[u] \in {0, 1}
    /\ \A u \in Users : roots[u] = 1 => users[u] # NoSession
    /\ \A r \in Req : pc[r] = "root" =>
          users[who[r].user] # NoSession /\ roots[who[r].user] = 0
    /\ \A r, q \in Req :
          pc[r] = "root" /\ pc[q] = "root" /\ who[r].user = who[q].user => r = q

=============================================================================
