------------------------------- MODULE WsLogin -------------------------------
(***************************************************************************)
(* AuthService.HandleMultipleLogin (src/services/auth.service.go lines    *)
(* 258-388): the interactive login over one websocket connection.  The    *)
(* handler's loop (lines 276-382) reads a SocketMessage per iteration and *)
(* starts a goroutine for each message it recognises (a message is its    *)
(* kind; its fields are left out): a QR login (283),   *)
(* a code request (316), a sign-in with the code (327) or the 2FA         *)
(* password (358).  Each goroutine makes its remote calls on the one      *)
(* client of the connection and answers with conn.WriteJSON.  When a read *)
(* fails (the client went away or sent bad JSON) the loop returns, the    *)
(* client stops and the deferred conn.Close runs; goroutines still        *)
(* running are not waited for.                                             *)
(*                                                                         *)
(* The client is tgc.NoLogin (src/utils/tgc/tgc.go lines 66-70): every     *)
(* remote call passes the flood-wait middleware, which sleeps and retries *)
(* a call answered FLOOD_WAIT up to a bound, and the token-bucket limiter  *)
(* (one token per 100 ms, burst 5), shared by all goroutines.              *)
(*                                                                         *)
(* conn.WriteJSON is not atomic: gorilla/websocket opens a frame writer,   *)
(* encodes into it and flushes it, and allows one writer at a time.  A     *)
(* write is therefore two steps, begin and end, as in a data-race model;  *)
(* two writes in progress at once are the race, whose outcome is either   *)
(* the library's "concurrent write" panic, which ends the process (a      *)
(* goroutine's panic is not recovered), or an interleaved frame.           *)
(***************************************************************************)
EXTENDS Naturals, FiniteSets

CONSTANTS
    MaxMsgs,        \* bound on the messages one connection reads
    Users,          \* Telegram users a login can end as
    AllowedUsers,   \* config.AllowedUsers; {} admits everyone
    Burst,          \* the limiter's burst (5 in tgc.NoLogin)
    MaxFlood        \* the flood-wait middleware's retry bound

ASSUME WsAssumption ==
    /\ MaxMsgs \in Nat /\ Burst \in Nat \ {0} /\ MaxFlood \in Nat
    /\ AllowedUsers \subseteq Users

Gor == 1..MaxMsgs

(* The AuthType/Message combinations the loop tells apart; "ignored" is   *)
(* any other message, and a 2fa message with an empty password.           *)
Kinds == {"qr", "sendcode", "signin", "2fa", "ignored"}

VARIABLES
    reader,     \* "loop" while the read loop runs, "closed" once it returned
    nread,      \* messages read so far
    kind,       \* kind[i]: the kind of goroutine iteration i started
    gpc,        \* gpc[i]: where goroutine i is
    reply,      \* reply[i]: the answer goroutine i is writing
    floods,     \* floods[i]: FLOOD_WAIT retries of goroutine i's current call
    writing,    \* goroutines inside conn.WriteJSON
    tokens,     \* the limiter's tokens
    crashed     \* the process panicked

vars == <<reader, nread, kind, gpc, reply, floods, writing, tokens, crashed>>

Stages == {"none", "call", "show", "wait", "write", "logout", "done"}
Replies == {"none", "token", "code", "2fa", "error", "denied", "success"}

-----------------------------------------------------------------------------
(* checkUserIsAllowed, lines 105-119.                                      *)
checkUserIsAllowed(u) == AllowedUsers = {} \/ u \in AllowedUsers

(* The answers of a login call (SignIn, Password, or the QR import after *)
(* the scan): the 2FA demand where the call can raise it (lines 290, 331), *)
(* an error (295, 336, 361), an empty user (300, 341, 366), a user not     *)
(* allowed (304, 345, 370), or the session (309-313, 350-354, 375-379).   *)
LoginAnswers(twoFA) ==
    (IF twoFA THEN {"2fa"} ELSE {}) \cup {"error"}
    \cup {IF checkUserIsAllowed(u) THEN "success" ELSE "denied" : u \in Users}

Init ==
    /\ reader = "loop"
    /\ nread = 0
    /\ kind = [i \in Gor |-> "ignored"]
    /\ gpc = [i \in Gor |-> "none"]
    /\ reply = [i \in Gor |-> "none"]
    /\ floods = [i \in Gor |-> 0]
    /\ writing = {}
    /\ tokens = Burst
    /\ crashed = FALSE

-----------------------------------------------------------------------------
(* Lines 277-381: one iteration reads a message and starts the goroutine  *)
(* its kind calls for.                                                     *)
Read ==
    /\ ~crashed /\ reader = "loop" /\ nread < MaxMsgs
    /\ \E k \in Kinds :
         LET i == nread + 1 IN
         /\ nread' = i
         /\ kind' = [kind EXCEPT ![i] = k]
         /\ gpc' = [gpc EXCEPT ![i] = IF k = "ignored" THEN "none" ELSE "call"]
    /\ UNCHANGED <<reader, reply, floods, writing, tokens, crashed>>

(* Lines 278-281, 383-387 and 268: ReadJSON fails, the loop returns, the   *)
(* client stops and the connection is closed.                              *)
Close ==
    /\ ~crashed /\ reader = "loop"
    /\ reader' = "closed"
    /\ UNCHANGED <<nread, kind, gpc, reply, floods, writing, tokens, crashed>>

(* The next answer of goroutine i once its call returned with a.          *)
Answer(i, a) ==
    /\ reply' = [reply EXCEPT ![i] = a]
    /\ gpc' = [gpc EXCEPT ![i] = IF a = "token" THEN "show" ELSE "write"]
    /\ floods' = [floods EXCEPT ![i] = 0]

(* Mutant: a stopped client keeps answering.                               *)
InvokeAfterStop(i) ==
    /\ ~crashed /\ gpc[i] = "call" /\ tokens > 0
    /\ tokens' = tokens - 1
    /\ \/ Answer(i, "error")
       \/ /\ floods[i] < MaxFlood
          /\ floods' = [floods EXCEPT ![i] = @ + 1]
          /\ UNCHANGED <<gpc, reply>>
       \/ kind[i] = "qr" /\ Answer(i, "token")
       \/ kind[i] = "sendcode" /\ Answer(i, "code")
       \/ /\ kind[i] \in {"signin", "2fa"}
          /\ \E a \in LoginAnswers(kind[i] = "signin") : Answer(i, a)
    /\ UNCHANGED <<reader, nread, kind, writing, crashed>>

(* One remote call of goroutine i through the NoLogin client: the limiter *)
(* takes a token (line 68) and the call is answered.  FLOOD_WAIT is       *)
(* retried up to MaxFlood times and then surfaces as an error; a stopped  *)
(* client fails every call.  The QR export (285) answers a token to show; *)
(* SendCode (318-324) an error or the code hash; SignIn and Password a    *)
(* login answer.                                                           *)
Invoke(i) ==
    /\ ~crashed /\ gpc[i] = "call" /\ tokens > 0
    /\ tokens' = tokens - 1
    /\ \/ Answer(i, "error")
       \/ /\ reader = "loop" /\ floods[i] < MaxFlood
          /\ floods' = [floods EXCEPT ![i] = @ + 1]
          /\ UNCHANGED <<gpc, reply>>
       \/ /\ reader = "loop" /\ kind[i] = "qr" /\ Answer(i, "token")
       \/ /\ reader = "loop" /\ kind[i] = "sendcode" /\ Answer(i, "code")
       \/ /\ reader = "loop" /\ kind[i] \in {"signin", "2fa"}
          /\ \E a \in LoginAnswers(kind[i] = "signin") : Answer(i, a)
    /\ UNCHANGED <<reader, nread, kind, writing, crashed>>

(* qrlogin.Auth waits for the scan or the token's expiry.  On expiry it   *)
(* exports a new token; on the scan it imports the login, whose answer    *)
(* may demand the 2FA password (lines 285-298).                            *)
Expire(i) ==
    /\ ~crashed /\ gpc[i] = "wait"
    /\ gpc' = [gpc EXCEPT ![i] = "call"]
    /\ UNCHANGED <<reader, nread, kind, reply, floods,
                   writing, tokens, crashed>>

Scan(i) ==
    /\ ~crashed /\ gpc[i] = "wait" /\ reader = "loop" /\ tokens > 0
    /\ tokens' = tokens - 1
    /\ \E a \in LoginAnswers(TRUE) : Answer(i, a)
    /\ UNCHANGED <<reader, nread, kind, writing, crashed>>

(* conn.WriteJSON, first half: the frame writer is opened.                 *)
WriteBegin(i) ==
    /\ ~crashed /\ gpc[i] \in {"show", "write"} /\ i \notin writing
    /\ writing' = writing \cup {i}
    /\ UNCHANGED <<reader, nread, kind, gpc, reply, floods,
                   tokens, crashed>>

(* conn.WriteJSON, second half: the frame is flushed.  With another write *)
(* in progress the flush may panic and end the process.  After the QR      *)
(* token the goroutine waits; after "user not allowed" it logs the client  *)
(* out (lines 306, 347, 372); otherwise it returns.                        *)
WriteEnd(i) ==
    /\ ~crashed /\ i \in writing
    /\ writing' = writing \ {i}
    /\ gpc' = [gpc EXCEPT ![i] = CASE gpc[i] = "show"    -> "wait"
                                   [] reply[i] = "denied" -> "logout"
                                   [] OTHER               -> "done"]
    /\ \/ crashed' = FALSE
       \/ writing # {i} /\ crashed' = TRUE
    /\ UNCHANGED <<reader, nread, kind, reply, floods, tokens>>

(* tgClient.API().AuthLogOut(c), its error dropped.                        *)
LogOut(i) ==
    /\ ~crashed /\ gpc[i] = "logout" /\ tokens > 0
    /\ tokens' = tokens - 1
    /\ gpc' = [gpc EXCEPT ![i] = "done"]
    /\ UNCHANGED <<reader, nread, kind, reply, floods,
                   writing, crashed>>

(* The limiter earns a token every 100 ms, up to the burst.                *)
Refill ==
    /\ tokens < Burst
    /\ tokens' = tokens + 1
    /\ UNCHANGED <<reader, nread, kind, gpc, reply, floods,
                   writing, crashed>>

Goroutine(i) ==
    Invoke(i) \/ Expire(i) \/ WriteBegin(i) \/ WriteEnd(i) \/ LogOut(i)

Next ==
    \/ Read \/ Close \/ Refill
    \/ \E i \in Gor : Goroutine(i) \/ Scan(i)

(* The Go scheduler runs every runnable goroutine and the clock advances: *)
(* each goroutine's steps and the refill are weakly fair.  The client's   *)
(* reads, its closing and the user's scan are not.                         *)
Fairness ==
    /\ WF_vars(Refill)
    /\ \A i \in Gor : WF_vars(Goroutine(i))

Spec == Init /\ [][Next]_vars /\ Fairness

-----------------------------------------------------------------------------
(* Every variable keeps its type.                                          *)
TypeOK ==
    /\ reader \in {"loop", "closed"} /\ nread \in 0..MaxMsgs
    /\ kind \in [Gor -> Kinds] /\ gpc \in [Gor -> Stages]
    /\ reply \in [Gor -> Replies] /\ floods \in [Gor -> 0..MaxFlood]
    /\ writing \subseteq Gor /\ tokens \in 0..Burst /\ crashed \in BOOLEAN

(* Once the handler has returned, every goroutine it started ends (or the  *)
(* process is gone): none keeps calling the stopped client, none waits    *)
(* forever for a token, a scan or a write.                                 *)
GoroutinesEndAfterClose ==
    reader = "closed" ~> (crashed \/ \A i \in Gor : gpc[i] \in {"none", "done"})

(* gorilla/websocket: "Connections support one concurrent reader and one  *)
(* concurrent writer"; at most one goroutine is inside WriteJSON.          *)
SingleWriter ==
    Cardinality(writing) <= 1

=============================================================================
