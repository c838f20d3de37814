---------------------------- MODULE UploadService ----------------------------
(***************************************************************************)
(* The upload engine of src/pkg/services/upload.go: concurrent UploadFile  *)
(* requests, each sending one part as a channel message and writing one    *)
(* row of the upload ledger (table uploads), next to the GetUploadFileById *)
(* and DeleteUploadFile handlers that read and clear the ledger.           *)
(*                                                                         *)
(* One request r is a process: pc[r] is the point it has reached, rq[r]    *)
(* its locals.  An action ends at every remote or database call, the       *)
(* points where another request can run.  Data is abstracted: a message   *)
(* is its (channel, id) pair, a salt is Salted or NoSalt, a stream and its *)
(* size are left out.                                                      *)
(***************************************************************************)
EXTENDS Naturals, Sequences, FiniteSets

CONSTANTS
    Req,              \* the UploadFile requests of a run
    UploadIds,        \* upload session ids (path parameter "id")
    PartNos,          \* part numbers (query partNo)
    Channels,         \* channel ids
    NoChannel,        \* query channelId = 0: use the user's default channel
    DefaultChannel,   \* what getDefaultChannel returns for the user
    Tokens,           \* bot tokens
    BotsOf,           \* BotsOf[ch]: what getBotsToken returns for ch
    EncryptionKeySet, \* cnf.Uploads.EncryptionKey # ""
    Retention,        \* cnf.Uploads.Retention, in clock ticks
    MaxTime           \* bound on the clock

ASSUME ConstantsAssumption ==
    /\ NoChannel \notin Channels
    /\ DefaultChannel \in Channels
    /\ BotsOf \in [Channels -> Seq(Tokens)]
    /\ EncryptionKeySet \in BOOLEAN
    /\ Retention \in Nat \ {0}
    /\ MaxTime \in Nat

VARIABLES
    pc,          \* pc[r]: where request r is
    rq,          \* rq[r]: the locals of request r
    worker,      \* the bot worker (BotWorker)
    ledger,      \* the rows of table uploads
    live,        \* messages that exist in the channels, as <<ch, id>>
    nextId,      \* nextId[ch]: the id the channel gives its next message
    compensated, \* messages removed by a compensating delete
    erased,      \* rows removed by DeleteUploadFile
    listing,     \* the answer of the last GetUploadFileById
    now          \* the database clock

vars == <<pc, rq, worker, ledger, live, nextId, compensated,
          erased, listing, now>>

W == INSTANCE BotWorker

Salted == "salted"
NoSalt == ""

(* generateRandomSalt, lines 280-292: a hashed random salt, or "" with an   *)
(* error when the system's random source fails.                            *)
generateRandomSalt == {Salted, NoSalt}
Results == {"none", "ok", "err", "panic"}
Stages == {"idle", "resolved", "botset", "authed", "prepared", "sent",
           "persisted", "done"}

Row == [uid : UploadIds, part : PartNos, ch : Channels, msg : Nat,
        enc : BOOLEAN, salt : {Salted, NoSalt}, created : Nat]

Locals == [uid : UploadIds \cup {"none"}, part : PartNos \cup {0},
           ch : Channels \cup {NoChannel}, enc : BOOLEAN,
           salt : {Salted, NoSalt}, msg : Nat, created : BOOLEAN,
           at : Nat, res : Results]

NoLocals == [uid |-> "none", part |-> 0, ch |-> NoChannel, enc |-> FALSE,
             salt |-> NoSalt, msg |-> 0, created |-> FALSE, at |-> 0,
             res |-> "none"]

(* The row partUpload that request r writes (lines 235-245).               *)
RowOf(r) ==
    [uid |-> rq[r].uid, part |-> rq[r].part, ch |-> rq[r].ch,
     msg |-> rq[r].msg, enc |-> rq[r].enc, salt |-> rq[r].salt,
     created |-> rq[r].at]

Init ==
    /\ pc = [r \in Req |-> "idle"]
    /\ rq = [r \in Req |-> NoLocals]
    /\ W!WorkerInit
    /\ ledger = {}
    /\ live = {}
    /\ nextId = [ch \in Channels |-> 1]
    /\ compensated = {}
    /\ erased = {}
    /\ listing = [uid |-> "none", at |-> 0, parts |-> {}]
    /\ now = 0

(* Request r returns: the deferred uploadPool.Close and fileStream.Close   *)
(* run on every return, so nothing of the request stays open.              *)
Finish(r, q, res) ==
    /\ pc' = [pc EXCEPT ![r] = "done"]
    /\ rq' = [rq EXCEPT ![r] = [q EXCEPT !.res = res]]

-----------------------------------------------------------------------------
(* UploadFile, lines 113-145: bind the query, refuse an encrypted upload   *)
(* without a key, resolve the channel and look up the bot tokens.  The two *)
(* lookups may fail; nothing outside the request changes.                  *)
Begin(r) ==
    /\ pc[r] = "idle"
    /\ \E uid \in UploadIds, part \in PartNos,
          chq \in Channels \cup {NoChannel}, enc \in BOOLEAN :
         LET q == [rq[r] EXCEPT !.uid = uid, !.part = part, !.enc = enc,
                     !.ch = IF chq = NoChannel THEN DefaultChannel ELSE chq]
         IN \/ /\ enc /\ ~EncryptionKeySet
               /\ Finish(r, q, "err")
            \/ /\ ~(enc /\ ~EncryptionKeySet)
               /\ \/ Finish(r, q, "err")
                  \/ /\ pc' = [pc EXCEPT ![r] = "resolved"]
                     /\ rq' = [rq EXCEPT ![r] = q]
    /\ UNCHANGED <<worker, ledger, live, nextId, compensated,
                   erased, listing, now>>

(* Lines 147-152: no bot for the channel, so log in as the user; the login *)
(* may fail.                                                               *)
UserClient(r) ==
    /\ pc[r] = "resolved"
    /\ BotsOf[rq[r].ch] = <<>>
    /\ \/ Finish(r, rq[r], "err")
       \/ /\ pc' = [pc EXCEPT ![r] = "authed"]
          /\ UNCHANGED rq
    /\ UNCHANGED <<worker, ledger, live, nextId, compensated,
                   erased, listing, now>>

(* Line 154: worker.Set(tokens, channelId), one call under the worker's  *)
(* mutex; the uploads of other requests may run before the next call.      *)
SetBots(r) ==
    /\ pc[r] = "resolved"
    /\ BotsOf[rq[r].ch] # <<>>
    /\ worker' = W!AfterSet(worker, BotsOf[rq[r].ch], rq[r].ch)
    /\ pc' = [pc EXCEPT ![r] = "botset"]
    /\ UNCHANGED <<rq, ledger, live, nextId, compensated, erased, listing,
                   now>>

(* Lines 155-169: worker.Next, a second call under the mutex, then the    *)
(* bot login, which may fail after the cursor has moved; on success the    *)
(* request's connection pool is made.                                      *)
BotClient(r) ==
    /\ pc[r] = "botset"
    /\ worker' = W!AfterNext(worker, rq[r].ch)
    /\ \/ Finish(r, rq[r], "err")
       \/ /\ pc' = [pc EXCEPT ![r] = "authed"]
          /\ UNCHANGED rq
    /\ UNCHANGED <<ledger, live, nextId, compensated, erased, listing, now>>

(* Lines 178-194: RunWithAuth and GetChannelById may fail; for an          *)
(* encrypted part a salt is drawn, and the error of generateRandomSalt is  *)
(* dropped (line 190), so a failed draw leaves the salt "".                *)
Prepare(r) ==
    /\ pc[r] = "authed"
    /\ \/ Finish(r, rq[r], "err")
       \/ \E s \in IF rq[r].enc THEN generateRandomSalt ELSE {NoSalt} :
            /\ pc' = [pc EXCEPT ![r] = "prepared"]
            /\ rq' = [rq EXCEPT ![r].salt = s]
    /\ UNCHANGED <<worker, ledger, live, nextId, compensated,
                   erased, listing, now>>

(* Mutant: the channel hands out the same id twice.                        *)
SendReusesId(r) ==
    /\ pc[r] = "prepared"
    /\ LET ch == rq[r].ch
           m  == <<ch, nextId[ch]>>
       IN \/ /\ Finish(r, rq[r], "err")
             /\ UNCHANGED live
          \/ /\ Finish(r, rq[r], "err")
             /\ live' = live \cup {m}
          \/ /\ pc' = [pc EXCEPT ![r] = "sent"]
             /\ rq' = [rq EXCEPT ![r].msg = nextId[ch]]
             /\ \/ live' = live \cup {m}
                \/ UNCHANGED live
          \/ /\ Finish(r, rq[r], "panic")
             /\ live' = live \cup {m}
    /\ UNCHANGED <<worker, ledger, nextId, compensated, erased,
                   listing, now>>

(* Lines 196-233: upload the file and send it as a message.  Either the    *)
(* upload or the send fails before a message exists; or the message is    *)
(* posted and the reply is lost (timeout, cancelled context); or the send  *)
(* is confirmed with the new id, the message being visible or not (the     *)
(* gap the verification of line 255 is there for); or the confirmation    *)
(* holds no UpdateNewChannelMessage, message stays nil and line 231        *)
(* panics.  Ids are never 0, so the check of line 231 never fires.         *)
Send(r) ==
    /\ pc[r] = "prepared"
    /\ LET ch == rq[r].ch
           m  == <<ch, nextId[ch]>>
           posted == nextId' = [nextId EXCEPT ![ch] = @ + 1]
       IN \/ /\ Finish(r, rq[r], "err")
             /\ UNCHANGED <<live, nextId>>
          \/ /\ Finish(r, rq[r], "err")
             /\ live' = live \cup {m}
             /\ posted
          \/ /\ pc' = [pc EXCEPT ![r] = "sent"]
             /\ rq' = [rq EXCEPT ![r].msg = nextId[ch]]
             /\ \/ live' = live \cup {m}
                \/ UNCHANGED live
             /\ posted
          \/ /\ Finish(r, rq[r], "panic")
             /\ live' = live \cup {m}
             /\ posted
    /\ UNCHANGED <<worker, ledger, compensated, erased, listing, now>>

(* Mutant: the failed insert deletes the message but does not return.      *)
PersistNoReturn(r) ==
    /\ pc[r] = "sent"
    /\ LET row == [RowOf(r) EXCEPT !.created = now]
           m   == <<rq[r].ch, rq[r].msg>>
       IN \/ /\ ~\E x \in ledger : x.uid = row.uid /\ x.part = row.part
             /\ ledger' = ledger \cup {row}
             /\ pc' = [pc EXCEPT ![r] = "persisted"]
             /\ rq' = [rq EXCEPT ![r].created = TRUE, ![r].at = now]
             /\ UNCHANGED <<live, compensated>>
          \/ /\ pc' = [pc EXCEPT ![r] = "persisted"]
             /\ UNCHANGED <<rq, ledger>>
             /\ \/ /\ live' = live \ {m}
                   /\ compensated' = compensated \cup {m}
                \/ UNCHANGED <<live, compensated>>
    /\ UNCHANGED <<worker, nextId, erased, listing, now>>

(* Lines 235-252: insert the row.  The insert fails on a row with the same *)
(* (upload_id, part_no) or on a database error; then the message is        *)
(* deleted, best effort (the result of ChannelsDeleteMessages is dropped), *)
(* and the request fails.                                                  *)
Persist(r) ==
    /\ pc[r] = "sent"
    /\ LET row == [RowOf(r) EXCEPT !.created = now]
           m   == <<rq[r].ch, rq[r].msg>>
       IN \/ /\ ~\E x \in ledger : x.uid = row.uid /\ x.part = row.part
             /\ ledger' = ledger \cup {row}
             /\ pc' = [pc EXCEPT ![r] = "persisted"]
             /\ rq' = [rq EXCEPT ![r].created = TRUE, ![r].at = now]
             /\ UNCHANGED <<live, compensated>>
          \/ /\ Finish(r, rq[r], "err")
             /\ UNCHANGED ledger
             /\ \/ /\ live' = live \ {m}
                   /\ compensated' = compensated \cup {m}
                \/ UNCHANGED <<live, compensated>>
    /\ UNCHANGED <<worker, nextId, erased, listing, now>>

(* Lines 254-264: read the message back.  An error of ChannelsGetMessages  *)
(* is dropped (msgs is nil) and counts as found; only an empty answer      *)
(* fails the request, and the row written before stays.                    *)
Verify(r) ==
    /\ pc[r] = "persisted"
    /\ \/ Finish(r, rq[r], "ok")
       \/ /\ <<rq[r].ch, rq[r].msg>> \notin live
          /\ Finish(r, rq[r], "err")
    /\ UNCHANGED <<worker, ledger, live, nextId, compensated,
                   erased, listing, now>>

-----------------------------------------------------------------------------
(* GetUploadFileById, lines 52-62: the parts of a session, filtered by     *)
(* created_at < now + Retention.                                           *)
GetUploadFileById(uid) ==
    /\ listing' = [uid |-> uid, at |-> now,
                   parts |-> {x \in ledger : x.uid = uid /\
                                             x.created < now + Retention}]
    /\ UNCHANGED <<pc, rq, worker, ledger, live, nextId,
                   compensated, erased, now>>

(* DeleteUploadFile, lines 64-70: delete every row of the session; the     *)
(* messages are left to the caller.                                        *)
DeleteUploadFile(uid) ==
    /\ ledger' = {x \in ledger : x.uid # uid}
    /\ erased' = erased \cup {x \in ledger : x.uid = uid}
    /\ UNCHANGED <<pc, rq, worker, live, nextId, compensated,
                   listing, now>>

(* The clock moves on (time.Now() and the row's created_at).               *)
Tick ==
    /\ now < MaxTime
    /\ now' = now + 1
    /\ UNCHANGED <<pc, rq, worker, ledger, live, nextId,
                   compensated, erased, listing>>

Next ==
    \/ \E r \in Req :
         \/ Begin(r) \/ UserClient(r) \/ SetBots(r) \/ BotClient(r)
         \/ Prepare(r) \/ Send(r) \/ Persist(r) \/ Verify(r)
    \/ \E uid \in UploadIds : GetUploadFileById(uid) \/ DeleteUploadFile(uid)
    \/ Tick

Spec == Init /\ [][Next]_vars

-----------------------------------------------------------------------------
(* Every variable keeps its type; the worker's cursor stays inside the     *)
(* token list of its channel.                                              *)
TypeOK ==
    /\ pc \in [Req -> Stages]
    /\ rq \in [Req -> Locals]
    /\ worker \in [Channels -> [bots : Seq(Tokens), idx : Nat]]
    /\ \A ch \in Channels :
         worker[ch].bots # <<>> => worker[ch].idx \in 0..(Len(worker[ch].bots) - 1)
    /\ ledger \subseteq Row
    /\ live \subseteq Channels \X Nat
    /\ nextId \in [Channels -> Nat \ {0}]
    /\ compensated \subseteq Channels \X Nat
    /\ erased \subseteq Row
    /\ listing \in [uid : UploadIds \cup {"none"}, at : Nat, parts : SUBSET Row]
    /\ now \in 0..MaxTime

(* A compensating delete (line 249) never removes the message of a row in  *)
(* the ledger: concurrent uploads of the same part each delete only their  *)
(* own message.                                                            *)
CompensationSparesRecorded ==
    \A x \in ledger : <<x.ch, x.msg>> \notin compensated

(* A request that answered with a part has its row in the ledger, unless   *)
(* DeleteUploadFile removed it since.                                      *)
SuccessfulUploadRecorded ==
    \A r \in Req : rq[r].res = "ok" => RowOf(r) \in ledger \cup erased

-----------------------------------------------------------------------------
(* The strengthening of TypeOK and CompensationSparesRecorded that a step  *)
(* preserves: the worker holds BotsOf[ch] or nothing, and BotsOf[ch] once *)
(* a request has called worker.Set for ch; a request has a message id     *)
(* from Send on, below its channel's next id and unlike every other       *)
(* request's; each row and each compensated message belongs to the       *)
(* request that sent it, which inserted the row or failed to.              *)
WorkerConsistent ==
    \A ch \in Channels :
       \/ worker[ch] = W!Unset
       \/ worker[ch].bots = BotsOf[ch] /\ BotsOf[ch] # <<>>

BotsSet ==
    \A r \in Req : pc[r] = "botset" => worker[rq[r].ch] # W!Unset

HasMsg(r) == rq[r].msg # 0

StageLocals ==
    \A r \in Req :
       /\ pc[r] # "idle" =>
            rq[r].ch \in Channels /\ rq[r].uid \in UploadIds /\ rq[r].part \in PartNos
       /\ pc[r] \in {"idle", "resolved", "botset", "authed", "prepared"} =>
            ~HasMsg(r) /\ ~rq[r].created
       /\ pc[r] = "sent" => HasMsg(r) /\ ~rq[r].created
       /\ pc[r] = "persisted" => HasMsg(r) /\ rq[r].created
       /\ rq[r].created => HasMsg(r)

MsgFresh ==
    \A r \in Req : HasMsg(r) => rq[r].msg < nextId[rq[r].ch]

MsgDistinct ==
    \A r1, r2 \in Req :
       HasMsg(r1) /\ HasMsg(r2) /\ r1 # r2 =>
          <<rq[r1].ch, rq[r1].msg>> # <<rq[r2].ch, rq[r2].msg>>

RowsOwned ==
    \A x \in ledger : \E r \in Req :
       /\ rq[r].created
       /\ x.ch = rq[r].ch /\ x.msg = rq[r].msg

CompensatedOwned ==
    \A m \in compensated : \E r \in Req :
       /\ HasMsg(r) /\ ~rq[r].created /\ pc[r] = "done"
       /\ m = <<rq[r].ch, rq[r].msg>>

IInv ==
    /\ TypeOK
    /\ WorkerConsistent
    /\ BotsSet
    /\ StageLocals
    /\ MsgFresh
    /\ MsgDistinct
    /\ RowsOwned
    /\ CompensatedOwned

(* Spec section 4.5 (failure semantics): steps 5-9 leave a message on the *)
(* channel without a ledger row only when the compensating delete fails.  *)
(* So every live message is a recorded part's (or one DeleteUploadFile    *)
(* dropped from the ledger, whose messages are left to the caller), or is *)
(* known to the request that sent it, which can still clean it up.        *)
LiveMessagesAccounted ==
    \A m \in live :
       \/ \E x \in ledger \cup erased : <<x.ch, x.msg>> = m
       \/ \E r \in Req : HasMsg(r) /\ <<rq[r].ch, rq[r].msg>> = m

(* Spec sections 7 and 8: a failed upload leaves no part recorded.         *)
FailedUploadLeavesNoRecord ==
    \A r \in Req : pc[r] = "done" /\ rq[r].res # "ok" /\ rq[r].msg # 0 =>
        ~\E x \in ledger : x.ch = rq[r].ch /\ x.msg = rq[r].msg

(* Spec sections 4.6 and 8: listing a session leaves out the parts older   *)
(* than the retention window.                                              *)
ListExcludesExpired ==
    \A x \in listing.parts : listing.at - x.created <= Retention

(* Spec section 3: an encrypted part carries its salt.                     *)
EncryptedPartHasSalt ==
    \A x \in ledger : x.enc => x.salt # NoSalt

=============================================================================
