------------------------- MODULE UploadAnswerProofs -------------------------
(***************************************************************************)
(* Proofs about what UploadFile answers and what it records, for every     *)
(* value of the constants: a request that answered with a part has its     *)
(* row in the ledger (or DeleteUploadFile took it since).  It rests on     *)
(* IInv of UploadServiceProofs and on two further invariants.              *)
(***************************************************************************)
EXTENDS UploadServiceProofs

\* The row that a request holding locals q writes (RowOf, for a record).
RowOfLocals(q) ==
    [uid |-> q.uid, part |-> q.part, ch |-> q.ch, msg |-> q.msg,
     enc |-> q.enc, salt |-> q.salt, created |-> q.at]

(* A request that has inserted its row (created is set at line 247) finds  *)
(* that very row in the ledger, or among the rows DeleteUploadFile took.   *)
RecordedKept ==
    \A r \in Req : rq[r].created => RowOf(r) \in ledger \cup erased

(* Only a request that inserted its row answers "ok" (line 266).           *)
OkCreated ==
    \A r \in Req : rq[r].res = "ok" => rq[r].created

AnswerInv == RecordedKept /\ OkCreated

LEMMA InitAnswerInv == Init => AnswerInv
BY DEF Init, AnswerInv, RecordedKept, OkCreated, NoLocals

(* A step that changes the locals of one request r only, loses no row of  *)
(* the ledger (it may move it to erased), and leaves r with a recorded row *)
(* if created, and created if answered "ok", preserves AnswerInv.          *)
LEMMA OneRequestAnswer ==
  ASSUME AnswerInv, rq \in [Req -> Locals], NEW r \in Req, NEW q,
         rq' = [rq EXCEPT ![r] = q],
         ledger \cup erased \subseteq ledger' \cup erased',
         q.created => RowOfLocals(q) \in ledger' \cup erased',
         q.res = "ok" => q.created
  PROVE  AnswerInv'
<1>1. RecordedKept'
  <2> SUFFICES ASSUME NEW r0 \in Req, rq'[r0].created
               PROVE  RowOf(r0)' \in ledger' \cup erased'
    BY DEF RecordedKept
  <2>1. CASE r0 = r
    BY <2>1 DEF RowOf, RowOfLocals
  <2>2. CASE r0 # r
    BY <2>2 DEF AnswerInv, RecordedKept, RowOf
  <2>3. QED
    BY <2>1, <2>2
<1>2. OkCreated'
  BY DEF AnswerInv, OkCreated
<1>3. QED
  BY <1>1, <1>2 DEF AnswerInv

(* A step that keeps every request's locals and loses no row preserves    *)
(* AnswerInv.                                                              *)
LEMMA NoRequestAnswer ==
  ASSUME AnswerInv, rq' = rq, ledger \cup erased \subseteq ledger' \cup erased'
  PROVE  AnswerInv'
BY DEF AnswerInv, RecordedKept, OkCreated, RowOf

(* A request before Persist has no row and has not answered "ok".         *)
LEMMA Unrecorded ==
  ASSUME IInv, AnswerInv, NEW r \in Req,
         pc[r] \in {"idle", "resolved", "botset", "authed", "prepared", "sent"}
  PROVE  ~rq[r].created /\ rq[r].res # "ok" /\ rq[r] \in Locals
BY DEF IInv, StageLocals, TypeOK, AnswerInv, OkCreated

(* Finish with an error, from a stage before Persist, keeps AnswerInv.     *)
LEMMA FinishErrAnswer ==
  ASSUME IInv, AnswerInv, NEW r \in Req, NEW q \in Locals,
         NEW res \in {"err", "panic"},
         ~q.created, Finish(r, q, res),
         ledger \cup erased \subseteq ledger' \cup erased'
  PROVE  AnswerInv'
<1>1. rq' = [rq EXCEPT ![r] = [q EXCEPT !.res = res]]
  BY DEF Finish
<1>2. rq \in [Req -> Locals]
  BY DEF IInv, TypeOK
<1>3. ~[q EXCEPT !.res = res].created /\ [q EXCEPT !.res = res].res # "ok"
  BY DEF Locals
<1>4. QED
  BY <1>1, <1>2, <1>3, OneRequestAnswer

(* Begin: the request takes its parameters before it has any row.         *)
LEMMA BeginAnswer ==
  ASSUME IInv, AnswerInv, NEW r \in Req, Begin(r)
  PROVE  AnswerInv'
<1>1. PICK uid \in UploadIds, part \in PartNos,
           chq \in Channels \cup {NoChannel}, enc \in BOOLEAN :
         LET q == [rq[r] EXCEPT !.uid = uid, !.part = part, !.enc = enc,
                     !.ch = IF chq = NoChannel THEN DefaultChannel ELSE chq]
         IN \/ /\ enc /\ ~EncryptionKeySet
               /\ Finish(r, q, "err")
            \/ /\ ~(enc /\ ~EncryptionKeySet)
               /\ \/ Finish(r, q, "err")
                  \/ /\ pc' = [pc EXCEPT ![r] = "resolved"]
                     /\ rq' = [rq EXCEPT ![r] = q]
  BY DEF Begin
<1> DEFINE q == [rq[r] EXCEPT !.uid = uid, !.part = part, !.enc = enc,
                   !.ch = IF chq = NoChannel THEN DefaultChannel ELSE chq]
<1>2. pc[r] = "idle" /\ UNCHANGED <<ledger, erased>>
  BY DEF Begin
<1>3. ~rq[r].created /\ rq[r].res # "ok" /\ rq[r] \in Locals
  BY <1>2, Unrecorded
<1>4. q \in Locals /\ ~q.created /\ q.res # "ok"
  <2>1. (IF chq = NoChannel THEN DefaultChannel ELSE chq) \in Channels
    BY ConstantsAssumption
  <2>2. QED
    BY <1>3, <2>1 DEF Locals
<1>5. CASE Finish(r, q, "err")
  BY <1>2, <1>4, <1>5, FinishErrAnswer
<1>6. CASE rq' = [rq EXCEPT ![r] = q]
  BY <1>2, <1>4, <1>6, OneRequestAnswer DEF IInv, TypeOK
<1>7. QED
  BY <1>1, <1>5, <1>6

(* UserClient, SetBots and BotClient: a failed login answers an error, a  *)
(* good one and worker.Set leave the locals as they are.                  *)
LEMMA ClientAnswer ==
  ASSUME IInv, AnswerInv, NEW r \in Req,
         UserClient(r) \/ SetBots(r) \/ BotClient(r)
  PROVE  AnswerInv'
<1>1. /\ pc[r] \in {"resolved", "botset"} /\ UNCHANGED <<ledger, erased>>
      /\ \/ Finish(r, rq[r], "err")
         \/ UNCHANGED rq
  BY DEF UserClient, SetBots, BotClient
<1>2. ~rq[r].created /\ rq[r] \in Locals
  BY <1>1, Unrecorded
<1>3. CASE Finish(r, rq[r], "err")
  BY <1>1, <1>2, <1>3, FinishErrAnswer
<1>4. CASE UNCHANGED rq
  BY <1>1, <1>4, NoRequestAnswer
<1>5. QED
  BY <1>1, <1>3, <1>4

(* Prepare: the salt is drawn before any row exists.                      *)
LEMMA PrepareAnswer ==
  ASSUME IInv, AnswerInv, NEW r \in Req, Prepare(r)
  PROVE  AnswerInv'
<1>1. pc[r] = "authed" /\ UNCHANGED <<ledger, erased>>
  BY DEF Prepare
<1>2. ~rq[r].created /\ rq[r].res # "ok" /\ rq[r] \in Locals
  BY <1>1, Unrecorded
<1>3. CASE Finish(r, rq[r], "err")
  BY <1>1, <1>2, <1>3, FinishErrAnswer
<1>4. CASE \E s \in {Salted, NoSalt} : rq' = [rq EXCEPT ![r].salt = s]
  <2>1. PICK s \in {Salted, NoSalt} : rq' = [rq EXCEPT ![r] = [rq[r] EXCEPT !.salt = s]]
    BY <1>4, <1>2 DEF IInv, TypeOK
  <2>2. /\ [rq[r] EXCEPT !.salt = s] \in Locals
        /\ ~[rq[r] EXCEPT !.salt = s].created
        /\ [rq[r] EXCEPT !.salt = s].res # "ok"
    BY <1>2 DEF Locals
  <2>3. rq \in [Req -> Locals]
    BY DEF IInv, TypeOK
  <2>4. QED
    BY <1>1, <2>1, <2>2, <2>3, OneRequestAnswer
<1>5. QED
  <2>1. Finish(r, rq[r], "err")
        \/ \E s \in {Salted, NoSalt} : rq' = [rq EXCEPT ![r].salt = s]
    BY DEF Prepare, generateRandomSalt
  <2>2. QED
    BY <1>3, <1>4, <2>1

(* Send: the message id is taken before any row exists.                  *)
LEMMA SendAnswer ==
  ASSUME IInv, AnswerInv, NEW r \in Req, Send(r)
  PROVE  AnswerInv'
<1>1. pc[r] = "prepared" /\ UNCHANGED <<ledger, erased>>
  BY DEF Send
<1>2. ~rq[r].created /\ rq[r].res # "ok" /\ rq[r] \in Locals
  BY <1>1, Unrecorded
<1>3. \/ \E res \in {"err", "panic"} : Finish(r, rq[r], res)
      \/ rq' = [rq EXCEPT ![r] = [rq[r] EXCEPT !.msg = nextId[rq[r].ch]]]
  BY <1>2 DEF Send, IInv, TypeOK
<1>4. CASE \E res \in {"err", "panic"} : Finish(r, rq[r], res)
  BY <1>1, <1>2, <1>4, FinishErrAnswer
<1>5. CASE rq' = [rq EXCEPT ![r] = [rq[r] EXCEPT !.msg = nextId[rq[r].ch]]]
  <2>1. nextId[rq[r].ch] \in Nat
    BY <1>1 DEF IInv, TypeOK, StageLocals
  <2>2. /\ [rq[r] EXCEPT !.msg = nextId[rq[r].ch]] \in Locals
        /\ ~[rq[r] EXCEPT !.msg = nextId[rq[r].ch]].created
        /\ [rq[r] EXCEPT !.msg = nextId[rq[r].ch]].res # "ok"
    BY <1>2, <2>1 DEF Locals
  <2>3. rq \in [Req -> Locals]
    BY DEF IInv, TypeOK
  <2>4. QED
    BY <1>1, <1>5, <2>2, <2>3, OneRequestAnswer
<1>6. QED
  BY <1>3, <1>4, <1>5

(* Persist: the insert records exactly the row that RowOf names once       *)
(* created and at are set; a failed insert answers an error.               *)
LEMMA PersistAnswer ==
  ASSUME IInv, AnswerInv, NEW r \in Req, Persist(r)
  PROVE  AnswerInv'
<1>1. pc[r] = "sent" /\ UNCHANGED erased
  BY DEF Persist
<1>2. ~rq[r].created /\ rq[r].res # "ok" /\ rq[r] \in Locals
  BY <1>1, Unrecorded
<1> DEFINE row == [RowOf(r) EXCEPT !.created = now]
           q   == [rq[r] EXCEPT !.created = TRUE, !.at = now]
<1>3. CASE /\ ledger' = ledger \cup {row}
           /\ rq' = [rq EXCEPT ![r].created = TRUE, ![r].at = now]
  <2>1. rq' = [rq EXCEPT ![r] = q]
    BY <1>2, <1>3 DEF IInv, TypeOK
  <2>2. RowOfLocals(q) = row
    BY <1>2 DEF RowOfLocals, RowOf, Locals
  <2>3. q.res # "ok"
    BY <1>2 DEF Locals
  <2>4. QED
    BY <1>1, <1>3, <2>1, <2>2, <2>3, OneRequestAnswer DEF IInv, TypeOK
<1>4. CASE Finish(r, rq[r], "err") /\ UNCHANGED ledger
  BY <1>1, <1>2, <1>4, FinishErrAnswer
<1>5. QED
  BY <1>3, <1>4 DEF Persist

(* Verify: the request answers from a row it has recorded.                *)
LEMMA VerifyAnswer ==
  ASSUME IInv, AnswerInv, NEW r \in Req, Verify(r)
  PROVE  AnswerInv'
<1>1. pc[r] = "persisted" /\ UNCHANGED <<ledger, erased>>
  BY DEF Verify
<1>2. rq[r].created /\ rq[r] \in Locals /\ rq \in [Req -> Locals]
  BY <1>1 DEF IInv, StageLocals, TypeOK
<1>3. PICK res \in {"ok", "err"} : Finish(r, rq[r], res)
  BY DEF Verify
<1> DEFINE q == [rq[r] EXCEPT !.res = res]
<1>4. rq' = [rq EXCEPT ![r] = q]
  BY <1>3 DEF Finish
<1>5. q.created /\ RowOfLocals(q) = RowOf(r)
  BY <1>2 DEF Locals, RowOfLocals, RowOf
<1>6. RowOf(r) \in ledger \cup erased
  BY <1>2 DEF AnswerInv, RecordedKept
<1>7. QED
  BY <1>1, <1>2, <1>4, <1>5, <1>6, OneRequestAnswer

(* The actions outside UploadFile keep every request's locals and lose no *)
(* row: DeleteUploadFile moves its rows to erased.                         *)
LEMMA OtherAnswer ==
  ASSUME AnswerInv,
         \/ \E uid \in UploadIds : GetUploadFileById(uid) \/ DeleteUploadFile(uid)
         \/ Tick
  PROVE  AnswerInv'
<1>1. rq' = rq /\ ledger \cup erased \subseteq ledger' \cup erased'
  BY DEF GetUploadFileById, DeleteUploadFile, Tick
<1>2. QED
  BY <1>1, NoRequestAnswer

(* Every step of the service preserves AnswerInv.                          *)
LEMMA NextAnswerInv == IInv /\ AnswerInv /\ [Next]_vars => AnswerInv'
<1> SUFFICES ASSUME IInv, AnswerInv, [Next]_vars PROVE AnswerInv'
  OBVIOUS
<1>1. CASE UNCHANGED vars
  BY <1>1, NoRequestAnswer DEF vars
<1>2. CASE \E r \in Req :
             \/ Begin(r) \/ UserClient(r) \/ SetBots(r) \/ BotClient(r)
             \/ Prepare(r) \/ Send(r) \/ Persist(r) \/ Verify(r)
  BY <1>2, BeginAnswer, ClientAnswer, PrepareAnswer, SendAnswer,
     PersistAnswer, VerifyAnswer
<1>3. QED
  BY <1>1, <1>2, OtherAnswer DEF Next

(* A request that answered "ok" has recorded its row, and that row is in  *)
(* the ledger unless DeleteUploadFile erased it.                           *)
LEMMA AnswerInvRecorded == AnswerInv => SuccessfulUploadRecorded
BY DEF AnswerInv, RecordedKept, OkCreated, SuccessfulUploadRecorded

(* UploadFile answers "ok" (line 266) only for a part whose row, as that  *)
(* request wrote it, is in the ledger or was removed by DeleteUploadFile:  *)
(* no interleaving of concurrent uploads, lookups, deletes and clock       *)
(* ticks makes an upload report a part the ledger never held.              *)
THEOREM AnswerRecorded == Spec => []SuccessfulUploadRecorded
<1>1. Init => IInv /\ AnswerInv
  BY InitIInv, InitAnswerInv
<1>2. IInv /\ AnswerInv /\ [Next]_vars => IInv' /\ AnswerInv'
  BY NextIInv, NextAnswerInv
<1>3. QED
  BY <1>1, <1>2, AnswerInvRecorded, PTL DEF Spec

=============================================================================
