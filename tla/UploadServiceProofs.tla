------------------------- MODULE UploadServiceProofs -------------------------
(***************************************************************************)
(* Proofs about UploadService for every value of its constants: the type  *)
(* invariant, and that a compensating delete never removes the message of *)
(* a recorded part.  Both rest on the inductive invariant IInv.            *)
(***************************************************************************)
EXTENDS UploadService, TLAPS

USE ConstantsAssumption

\* The frame of the actions that touch one request only.
LocalOnly == UNCHANGED <<worker, ledger, live, nextId, compensated,
                         erased, listing, now>>

\* The frame of the actions that touch one request and the worker.
GlobalFrame == UNCHANGED <<ledger, live, nextId, compensated, erased,
                           listing, now>>

\* The part of IInv about the worker alone.
WorkerOK ==
    /\ worker \in [Channels -> [bots : Seq(Tokens), idx : Nat]]
    /\ \A ch \in Channels :
         worker[ch].bots # <<>> => worker[ch].idx \in 0..(Len(worker[ch].bots) - 1)
    /\ WorkerConsistent

\* A step keeps every channel the worker knows known.
WorkerKept == \A ch \in Channels : worker[ch] # W!Unset => worker'[ch] # W!Unset

(* Initially IInv holds: no request has a message and nothing is recorded.  *)
LEMMA InitIInv == Init => IInv
<1> SUFFICES ASSUME Init PROVE IInv
  OBVIOUS
<1>1. pc \in [Req -> Stages] /\ rq \in [Req -> Locals]
  BY DEF Init, Stages, Locals, NoLocals, Results, Salted, NoSalt
<1>2. worker \in [Channels -> [bots : Seq(Tokens), idx : Nat]]
  BY DEF Init, W!WorkerInit, W!Unset
<1>3. BotsSet
  BY DEF Init, BotsSet
<1>4. listing \in [uid : UploadIds \cup {"none"}, at : Nat, parts : SUBSET Row]
  BY DEF Init
<1>5. TypeOK
  BY <1>1, <1>2, <1>3, <1>4 DEF Init, TypeOK, W!WorkerInit, W!Unset
<1>6. WorkerConsistent
  BY DEF Init, WorkerConsistent, W!WorkerInit
<1>7. StageLocals /\ MsgFresh /\ MsgDistinct
  BY DEF Init, StageLocals, MsgFresh, MsgDistinct, HasMsg, NoLocals
<1>8. RowsOwned /\ CompensatedOwned
  BY DEF Init, RowsOwned, CompensatedOwned
<1>9. QED
  BY <1>3, <1>5, <1>6, <1>7, <1>8 DEF IInv

(* A step that leaves the worker alone keeps WorkerOK.                     *)
LEMMA LocalOnlyFrame ==
  ASSUME IInv, LocalOnly
  PROVE  GlobalFrame /\ WorkerOK' /\ WorkerKept
BY DEF LocalOnly, GlobalFrame, WorkerOK, WorkerKept, IInv, TypeOK,
       WorkerConsistent

(* Setting the result of a request keeps its locals well typed.            *)
LEMMA ResultLocals ==
  ASSUME NEW q \in Locals, NEW res \in Results
  PROVE  [q EXCEPT !.res = res] \in Locals
BY DEF Locals

(* A step of one request that changes only pc[r] and rq[r], keeps its     *)
(* message, its channel once it has a message, and its created flag, and   *)
(* lands on a stage that fits them, preserves IInv.                        *)
LEMMA LocalStepIInv ==
  ASSUME IInv, NEW r \in Req, NEW s \in Stages, NEW q \in Locals,
         pc[r] # "done",
         pc' = [pc EXCEPT ![r] = s], rq' = [rq EXCEPT ![r] = q],
         GlobalFrame, WorkerOK', WorkerKept,
         s = "botset" => worker'[q.ch] # W!Unset,
         q.msg = rq[r].msg, q.created = rq[r].created,
         q.msg # 0 => q.ch = rq[r].ch,
         s # "idle" => q.ch \in Channels,
         \/ q.uid \in UploadIds /\ q.part \in PartNos
         \/ pc[r] # "idle" /\ q.uid = rq[r].uid /\ q.part = rq[r].part,
         s \in {"idle", "resolved", "botset", "authed", "prepared"} =>
            q.msg = 0 /\ ~q.created,
         s = "sent" => q.msg # 0 /\ ~q.created,
         s = "persisted" => q.msg # 0 /\ q.created,
         q.created => q.msg # 0
  PROVE  IInv'
<1> USE DEF GlobalFrame
<1>1. TypeOK'
  BY DEF IInv, TypeOK, WorkerOK
<1>2. WorkerConsistent'
  BY DEF WorkerOK
<1>3. StageLocals'
  BY DEF IInv, StageLocals, HasMsg, TypeOK
<1>9. BotsSet'
  <2> SUFFICES ASSUME NEW r0 \in Req, pc'[r0] = "botset"
               PROVE  worker'[rq'[r0].ch] # W!Unset
    BY DEF BotsSet
  <2>1. CASE r0 = r
    BY <2>1 DEF IInv, TypeOK
  <2>2. CASE r0 # r
    <3>1. pc[r0] = "botset" /\ rq'[r0] = rq[r0]
      BY <2>2 DEF IInv, TypeOK
    <3>2. worker[rq[r0].ch] # W!Unset /\ rq[r0].ch \in Channels
      BY <3>1 DEF IInv, BotsSet, StageLocals
    <3>3. QED
      BY <3>1, <3>2 DEF WorkerKept
  <2>3. QED
    BY <2>1, <2>2
<1>4. MsgFresh'
  BY DEF IInv, MsgFresh, HasMsg, TypeOK
<1>5. MsgDistinct'
  BY DEF IInv, MsgDistinct, HasMsg, TypeOK
<1>6. RowsOwned'
  <2> SUFFICES ASSUME NEW x \in ledger'
               PROVE \E r0 \in Req : /\ rq'[r0].created
                                     /\ x.ch = rq'[r0].ch /\ x.msg = rq'[r0].msg
    BY DEF RowsOwned
  <2>1. PICK r0 \in Req : rq[r0].created /\ x.ch = rq[r0].ch /\ x.msg = rq[r0].msg
    BY DEF IInv, RowsOwned
  <2>2. CASE r0 = r
    <3>1. rq[r].msg # 0
      BY <2>1, <2>2 DEF IInv, StageLocals, HasMsg
    <3>2. QED
      BY <2>1, <2>2, <3>1 DEF IInv, TypeOK
  <2>3. CASE r0 # r
    BY <2>1, <2>3 DEF IInv, TypeOK
  <2>4. QED
    BY <2>2, <2>3
<1>7. CompensatedOwned'
  <2> SUFFICES ASSUME NEW m \in compensated'
               PROVE \E r0 \in Req : /\ HasMsg(r0)' /\ ~rq'[r0].created
                                     /\ pc'[r0] = "done"
                                     /\ m = <<rq'[r0].ch, rq'[r0].msg>>
    BY DEF CompensatedOwned
  <2>1. PICK r0 \in Req : /\ HasMsg(r0) /\ ~rq[r0].created /\ pc[r0] = "done"
                          /\ m = <<rq[r0].ch, rq[r0].msg>>
    BY DEF IInv, CompensatedOwned
  <2>2. r0 # r
    BY <2>1
  <2>3. QED
    BY <2>1, <2>2 DEF IInv, TypeOK, HasMsg
<1>8. QED
  BY <1>1, <1>2, <1>3, <1>4, <1>5, <1>6, <1>7, <1>9 DEF IInv

(* Begin: the request takes its parameters and resolves its channel.       *)
LEMMA BeginIInv ==
  ASSUME IInv, NEW r \in Req, Begin(r)
  PROVE  IInv'
<1>1. PICK uid \in UploadIds, part \in PartNos,
           chq \in Channels \cup {NoChannel}, enc \in BOOLEAN :
         LET q == [rq[r] EXCEPT !.uid = uid, !.part = part, !.enc = enc,
                     !.ch = IF chq = NoChannel THEN DefaultChannel ELSE chq]
         IN \/ /\ enc /\ ~EncryptionKeySet
               /\ Finish(r, q, "err")
            \/ /\ ~(enc /\ ~EncryptionKeySet)
               /\ \/ Finish(r, q, "err")
                  \/ /\ pc' = [pc EXCEPT ![r] = "resolved"]
                     /\ rq' = [rq EXCEPT ![r] = q]
  BY DEF Begin
<1> DEFINE q == [rq[r] EXCEPT !.uid = uid, !.part = part, !.enc = enc,
                   !.ch = IF chq = NoChannel THEN DefaultChannel ELSE chq]
<1>2. pc[r] = "idle" /\ LocalOnly
  BY DEF Begin, LocalOnly
<1>3. /\ q \in Locals /\ q.msg = 0 /\ ~q.created /\ q.ch \in Channels
      /\ q.uid \in UploadIds /\ q.part \in PartNos
  <2>1. rq[r] \in Locals /\ rq[r].msg = 0 /\ ~rq[r].created
    BY <1>2 DEF IInv, TypeOK, StageLocals, HasMsg
  <2>2. (IF chq = NoChannel THEN DefaultChannel ELSE chq) \in Channels
    OBVIOUS
  <2>3. QED
    BY <2>1, <2>2 DEF Locals
<1>4. [q EXCEPT !.res = "err"] \in Locals
  BY <1>3 DEF Locals, Results
<1>5. CASE Finish(r, q, "err")
  <2> DEFINE q2 == [q EXCEPT !.res = "err"]
  <2>1. pc' = [pc EXCEPT ![r] = "done"] /\ rq' = [rq EXCEPT ![r] = q2]
    BY <1>5 DEF Finish
  <2>2. q2 \in Locals /\ q2.msg = rq[r].msg /\ q2.created = rq[r].created
        /\ q2.ch \in Channels /\ q2.msg = 0 /\ ~q2.created
        /\ q2.uid \in UploadIds /\ q2.part \in PartNos
    BY <1>3, <1>4
  <2>3. "done" \in Stages /\ pc[r] # "done"
    BY <1>2 DEF Stages
  <2>4. QED
    BY <1>2, <2>1, <2>2, <2>3, LocalStepIInv, LocalOnlyFrame
<1>6. CASE pc' = [pc EXCEPT ![r] = "resolved"] /\ rq' = [rq EXCEPT ![r] = q]
  <2>1. q.msg = rq[r].msg /\ q.created = rq[r].created
    BY <1>3, <1>2 DEF IInv, StageLocals, HasMsg
  <2>2. "resolved" \in Stages /\ pc[r] # "done"
    BY <1>2 DEF Stages
  <2>3. QED
    BY <1>2, <1>3, <1>6, <2>1, <2>2, LocalStepIInv, LocalOnlyFrame
<1>7. QED
  BY <1>1, <1>5, <1>6

(* UserClient: log in as the user.                                         *)
LEMMA UserClientIInv ==
  ASSUME IInv, NEW r \in Req, UserClient(r)
  PROVE  IInv'
<1>1. pc[r] = "resolved" /\ LocalOnly
  BY DEF UserClient, LocalOnly
<1>2. rq[r] \in Locals /\ [rq[r] EXCEPT !.res = "err"] \in Locals
  BY ResultLocals DEF IInv, TypeOK, Results
<1>3. rq = [rq EXCEPT ![r] = rq[r]]
  BY DEF IInv, TypeOK
<1>4. CASE Finish(r, rq[r], "err")
  <2> DEFINE q2 == [rq[r] EXCEPT !.res = "err"]
  <2>1. pc' = [pc EXCEPT ![r] = "done"] /\ rq' = [rq EXCEPT ![r] = q2]
    BY <1>4 DEF Finish
  <2>2. q2.msg = rq[r].msg /\ q2.created = rq[r].created /\ q2.ch = rq[r].ch
        /\ q2.uid = rq[r].uid /\ q2.part = rq[r].part
        /\ q2.ch \in Channels /\ q2.msg = 0 /\ ~q2.created
    BY <1>1, <1>2 DEF IInv, StageLocals, HasMsg
  <2>3. "done" \in Stages /\ pc[r] # "done"
    BY <1>1 DEF Stages
  <2>4. QED
    BY <1>1, <1>2, <2>1, <2>2, <2>3, LocalStepIInv, LocalOnlyFrame
<1>5. CASE pc' = [pc EXCEPT ![r] = "authed"] /\ UNCHANGED rq
  <2>1. rq[r].ch \in Channels /\ rq[r].msg = 0 /\ ~rq[r].created
    BY <1>1 DEF IInv, StageLocals, HasMsg
  <2>2. "authed" \in Stages /\ pc[r] # "done"
    BY <1>1 DEF Stages
  <2>3. QED
    BY <1>1, <1>2, <1>3, <1>5, <2>1, <2>2, LocalStepIInv, LocalOnlyFrame
<1>6. QED
  BY <1>4, <1>5 DEF UserClient

(* Prepare: authenticate, find the channel, draw the salt.                 *)
LEMMA PrepareIInv ==
  ASSUME IInv, NEW r \in Req, Prepare(r)
  PROVE  IInv'
<1>1. pc[r] = "authed" /\ LocalOnly
  BY DEF Prepare, LocalOnly
<1>2. /\ rq[r] \in Locals /\ [rq[r] EXCEPT !.res = "err"] \in Locals
      /\ rq[r].ch \in Channels /\ rq[r].msg = 0 /\ ~rq[r].created
  BY <1>1, ResultLocals DEF IInv, TypeOK, Results, StageLocals, HasMsg
<1>3. "done" \in Stages /\ "prepared" \in Stages /\ pc[r] # "done"
  BY <1>1 DEF Stages
<1>4. CASE Finish(r, rq[r], "err")
  <2>1. pc' = [pc EXCEPT ![r] = "done"]
        /\ rq' = [rq EXCEPT ![r] = [rq[r] EXCEPT !.res = "err"]]
    BY <1>4 DEF Finish
  <2> DEFINE q2 == [rq[r] EXCEPT !.res = "err"]
  <2>2. q2.msg = rq[r].msg /\ q2.created = rq[r].created /\ q2.ch = rq[r].ch
        /\ q2.uid = rq[r].uid /\ q2.part = rq[r].part
    BY <1>2
  <2>3. QED
    BY <1>1, <1>2, <1>3, <2>1, <2>2, LocalStepIInv, LocalOnlyFrame
<1>5. CASE \E sa \in IF rq[r].enc THEN generateRandomSalt ELSE {NoSalt} :
            /\ pc' = [pc EXCEPT ![r] = "prepared"]
            /\ rq' = [rq EXCEPT ![r].salt = sa]
  <2>1. PICK sa \in {Salted, NoSalt} :
            /\ pc' = [pc EXCEPT ![r] = "prepared"]
            /\ rq' = [rq EXCEPT ![r] = [rq[r] EXCEPT !.salt = sa]]
    BY <1>5 DEF generateRandomSalt
  <2> DEFINE q2 == [rq[r] EXCEPT !.salt = sa]
  <2>2. q2 \in Locals
    BY <1>2 DEF Locals
  <2>3. q2.msg = rq[r].msg /\ q2.created = rq[r].created /\ q2.ch = rq[r].ch
        /\ q2.uid = rq[r].uid /\ q2.part = rq[r].part
    BY <1>2
  <2>4. QED
    BY <1>1, <1>2, <1>3, <2>1, <2>2, <2>3, LocalStepIInv, LocalOnlyFrame
<1>6. QED
  BY <1>4, <1>5 DEF Prepare

(* Verify: read the message back and answer.                               *)
LEMMA VerifyIInv ==
  ASSUME IInv, NEW r \in Req, Verify(r)
  PROVE  IInv'
<1>1. pc[r] = "persisted" /\ LocalOnly
  BY DEF Verify, LocalOnly
<1>2. PICK answer \in {"ok", "err"} : Finish(r, rq[r], answer)
  BY DEF Verify
<1>3. /\ rq[r] \in Locals /\ [rq[r] EXCEPT !.res = answer] \in Locals
      /\ rq[r].ch \in Channels /\ rq[r].msg # 0 /\ rq[r].created
  BY <1>1, ResultLocals DEF IInv, TypeOK, Results, StageLocals, HasMsg
<1>4. pc' = [pc EXCEPT ![r] = "done"]
      /\ rq' = [rq EXCEPT ![r] = [rq[r] EXCEPT !.res = answer]]
  BY <1>2 DEF Finish
<1>5. "done" \in Stages /\ pc[r] # "done"
  BY <1>1 DEF Stages
<1> DEFINE q2 == [rq[r] EXCEPT !.res = answer]
<1>6. q2.msg = rq[r].msg /\ q2.created = rq[r].created /\ q2.ch = rq[r].ch
        /\ q2.uid = rq[r].uid /\ q2.part = rq[r].part
  BY <1>3 DEF Locals
<1>7. QED
  BY <1>1, <1>3, <1>4, <1>5, <1>6, LocalStepIInv, LocalOnlyFrame

(* SetBots: worker.Set stores the channel's tokens, or keeps the list it *)
(* already holds, which is the same one; the cursor stays in range.        *)
LEMMA SetBotsIInv ==
  ASSUME IInv, NEW r \in Req, SetBots(r)
  PROVE  IInv'
<1> DEFINE ch == rq[r].ch
<1> DEFINE n  == Len(BotsOf[ch])
<1> USE DEF ch, n
<1>1. /\ pc[r] = "resolved" /\ BotsOf[ch] # <<>>
      /\ worker' = W!AfterSet(worker, BotsOf[ch], ch)
      /\ pc' = [pc EXCEPT ![r] = "botset"] /\ UNCHANGED rq
      /\ GlobalFrame
  BY DEF SetBots, GlobalFrame
<1>2. /\ ch \in Channels /\ rq[r] \in Locals
      /\ rq[r].msg = 0 /\ ~rq[r].created
      /\ rq[r].uid \in UploadIds /\ rq[r].part \in PartNos
  BY <1>1 DEF IInv, TypeOK, StageLocals, HasMsg
<1>3. BotsOf[ch] \in Seq(Tokens) /\ n \in Nat \ {0}
  BY <1>1, <1>2
<1>4. /\ worker' \in [Channels -> [bots : Seq(Tokens), idx : Nat]]
      /\ worker'[ch].bots = BotsOf[ch] /\ worker'[ch].idx \in 0..(n - 1)
      /\ \A c \in Channels \ {ch} : worker'[c] = worker[c]
  <2>1. CASE worker[ch] = W!Unset
    <3>1. worker' = [worker EXCEPT ![ch] = [bots |-> BotsOf[ch], idx |-> 0]]
      BY <1>1, <2>1 DEF W!AfterSet, W!Unset
    <3>2. QED
      BY <1>2, <1>3, <3>1 DEF IInv, TypeOK
  <2>2. CASE worker[ch] # W!Unset
    <3>1. worker[ch].bots = BotsOf[ch] /\ worker[ch].idx \in 0..(n - 1)
      BY <1>2, <2>2 DEF IInv, WorkerConsistent, TypeOK
    <3>2. worker' = worker
      BY <1>1, <3>1 DEF W!AfterSet
    <3>3. QED
      BY <3>1, <3>2 DEF IInv, TypeOK
  <2>3. QED
    BY <2>1, <2>2
<1>5. worker'[ch] # W!Unset
  BY <1>1, <1>4 DEF W!Unset
<1>6. WorkerOK' /\ WorkerKept
  <2>1. \A c \in Channels : worker'[c].bots # <<>> =>
           worker'[c].idx \in 0..(Len(worker'[c].bots) - 1)
    BY <1>4 DEF IInv, TypeOK
  <2>2. WorkerConsistent'
    BY <1>1, <1>4 DEF IInv, WorkerConsistent
  <2>3. WorkerKept
    BY <1>4, <1>5 DEF WorkerKept
  <2>4. QED
    BY <1>4, <2>1, <2>2, <2>3 DEF WorkerOK
<1>7. rq' = [rq EXCEPT ![r] = rq[r]] /\ "botset" \in Stages /\ pc[r] # "done"
  BY <1>1 DEF IInv, TypeOK, Stages
<1>8. QED
  BY <1>1, <1>2, <1>5, <1>6, <1>7, LocalStepIInv

(* BotClient: worker.Next moves the cursor of a channel whose tokens      *)
(* worker.Set stored, so it stays inside the list; then the bot login.     *)
LEMMA BotClientIInv ==
  ASSUME IInv, NEW r \in Req, BotClient(r)
  PROVE  IInv'
<1> DEFINE ch == rq[r].ch
<1> DEFINE i  == worker[ch].idx
<1> DEFINE n  == Len(BotsOf[ch])
<1> USE DEF ch, n
<1>1. /\ pc[r] = "botset"
      /\ worker' = W!AfterNext(worker, ch)
      /\ GlobalFrame
  BY DEF BotClient, GlobalFrame
<1>2. /\ ch \in Channels /\ rq[r] \in Locals
      /\ rq[r].msg = 0 /\ ~rq[r].created
  BY <1>1 DEF IInv, TypeOK, StageLocals, HasMsg
<1>3. /\ worker[ch].bots = BotsOf[ch] /\ BotsOf[ch] # <<>>
      /\ BotsOf[ch] \in Seq(Tokens) /\ n \in Nat \ {0}
      /\ i \in 0..(n - 1)
  <2>1. worker[ch] # W!Unset
    BY <1>1 DEF IInv, BotsSet
  <2>2. worker[ch].bots = BotsOf[ch] /\ BotsOf[ch] # <<>>
    BY <1>2, <2>1 DEF IInv, WorkerConsistent
  <2>3. QED
    BY <1>2, <2>2 DEF IInv, TypeOK
<1>4. /\ worker' \in [Channels -> [bots : Seq(Tokens), idx : Nat]]
      /\ worker'[ch].bots = BotsOf[ch] /\ worker'[ch].idx = (i + 1) % n
      /\ \A c \in Channels \ {ch} : worker'[c] = worker[c]
  <2> DEFINE k == (i + 1) % n
  <2> DEFINE v == [worker[ch] EXCEPT !.idx = k]
  <2>1. k \in 0..(n - 1)
    BY <1>3 DEF k
  <2>2. worker' = [worker EXCEPT ![ch] = v]
    BY <1>1, <1>2, <1>3 DEF W!AfterNext, k, v, IInv, TypeOK
  <2>3. worker[ch] \in [bots : Seq(Tokens), idx : Nat]
    BY <1>2 DEF IInv, TypeOK
  <2>4. v \in [bots : Seq(Tokens), idx : Nat] /\ v.bots = BotsOf[ch] /\ v.idx = k
    <3>1. k \in Nat
      BY <1>3, <2>1
    <3>2. v \in [bots : Seq(Tokens), idx : Nat]
      BY <2>3, <3>1, Zenon DEF v
    <3>3. v.bots = worker[ch].bots /\ v.idx = k
      BY <2>3, Zenon DEF v
    <3>4. QED
      BY <1>3, <3>2, <3>3
  <2>5. worker \in [Channels -> [bots : Seq(Tokens), idx : Nat]]
    BY DEF IInv, TypeOK
  <2>6. QED
    BY <1>2, <2>2, <2>4, <2>5 DEF k
<1>5. WorkerOK' /\ WorkerKept
  <2>1. \A c \in Channels : worker'[c].bots # <<>> =>
           worker'[c].idx \in 0..(Len(worker'[c].bots) - 1)
    <3>1. (i + 1) % n \in 0..(n - 1)
      BY <1>3
    <3>2. QED
      BY <1>4, <3>1 DEF IInv, TypeOK
  <2>2. WorkerConsistent'
    <3> SUFFICES ASSUME NEW c \in Channels
                 PROVE \/ worker'[c] = W!Unset
                       \/ worker'[c].bots = BotsOf[c] /\ BotsOf[c] # <<>>
      BY DEF WorkerConsistent
    <3>1. CASE c = ch
      BY <1>3, <1>4, <3>1
    <3>2. CASE c # ch
      BY <1>4, <3>2 DEF IInv, WorkerConsistent
    <3>3. QED
      BY <3>1, <3>2
  <2>3. WorkerKept
    <3>1. worker'[ch] # W!Unset
      BY <1>3, <1>4 DEF W!Unset
    <3>2. QED
      BY <1>4, <3>1 DEF WorkerKept
  <2>4. QED
    BY <1>4, <2>1, <2>2, <2>3 DEF WorkerOK
<1>6. "done" \in Stages /\ "authed" \in Stages /\ pc[r] # "done"
  BY <1>1 DEF Stages
<1>7. CASE Finish(r, rq[r], "err")
  <2> DEFINE q2 == [rq[r] EXCEPT !.res = "err"]
  <2>1. pc' = [pc EXCEPT ![r] = "done"] /\ rq' = [rq EXCEPT ![r] = q2]
    BY <1>7 DEF Finish
  <2>2. q2 \in Locals /\ q2.msg = rq[r].msg /\ q2.created = rq[r].created
        /\ q2.ch = rq[r].ch
        /\ q2.uid = rq[r].uid /\ q2.part = rq[r].part
    BY <1>2, ResultLocals DEF Results, Locals
  <2>3. QED
    BY <1>1, <1>2, <1>5, <1>6, <2>1, <2>2, LocalStepIInv
<1>8. CASE pc' = [pc EXCEPT ![r] = "authed"] /\ UNCHANGED rq
  <2>1. rq' = [rq EXCEPT ![r] = rq[r]]
    BY <1>8 DEF IInv, TypeOK
  <2>2. rq[r] \in Locals /\ rq[r].ch \in Channels /\ rq[r].msg = 0 /\ ~rq[r].created
    BY <1>2
  <2>3. QED
    BY <1>1, <1>5, <1>6, <1>8, <2>1, <2>2, LocalStepIInv
<1>9. QED
  BY <1>7, <1>8 DEF BotClient

(* A step of Send that posts a message: the channel's next id goes up by  *)
(* one and the request keeps no id, or takes the id just handed out.      *)
LEMMA PostStepIInv ==
  ASSUME IInv, NEW r \in Req, NEW s \in {"sent", "done"}, NEW q \in Locals,
         pc[r] = "prepared",
         pc' = [pc EXCEPT ![r] = s], rq' = [rq EXCEPT ![r] = q],
         UNCHANGED <<worker, ledger, compensated, erased, listing, now>>,
         live' \subseteq live \cup {<<rq[r].ch, nextId[rq[r].ch]>>},
         nextId' = [nextId EXCEPT ![rq[r].ch] = @ + 1],
         q.ch = rq[r].ch, ~q.created,
         q.uid = rq[r].uid, q.part = rq[r].part,
         q.msg \in {0, nextId[rq[r].ch]},
         s = "sent" <=> q.msg # 0
  PROVE  IInv'
<1> DEFINE ch == rq[r].ch
<1>1. /\ ch \in Channels /\ rq[r].msg = 0 /\ ~rq[r].created
      /\ nextId[ch] \in Nat \ {0}
  BY DEF IInv, StageLocals, HasMsg, TypeOK
<1>2. \A c \in Channels : nextId[c] <= nextId'[c]
  <2> SUFFICES ASSUME NEW c \in Channels PROVE nextId[c] <= nextId'[c]
    OBVIOUS
  <2>1. nextId \in [Channels -> Nat \ {0}]
    BY DEF IInv, TypeOK
  <2>2. CASE c = ch
    BY <1>1, <2>1, <2>2
  <2>3. CASE c # ch
    BY <1>1, <2>1, <2>3
  <2>4. QED
    BY <2>2, <2>3
<1>3. TypeOK'
  <2>1. pc' \in [Req -> Stages] /\ rq' \in [Req -> Locals]
    BY DEF IInv, TypeOK, Stages
  <2>2. live' \subseteq Channels \X Nat /\ nextId' \in [Channels -> Nat \ {0}]
    BY <1>1 DEF IInv, TypeOK
  <2>3. QED
    BY <2>1, <2>2 DEF IInv, TypeOK
<1>4. WorkerConsistent' /\ BotsSet'
  BY DEF IInv, WorkerConsistent, BotsSet, TypeOK
<1>5. StageLocals'
  BY <1>1 DEF IInv, StageLocals, HasMsg, TypeOK
<1>6. MsgFresh'
  <2> SUFFICES ASSUME NEW r1 \in Req, HasMsg(r1)'
               PROVE  rq'[r1].msg < nextId'[rq'[r1].ch]
    BY DEF MsgFresh
  <2>1. CASE r1 = r
    BY <1>1, <2>1 DEF IInv, TypeOK, HasMsg
  <2>2. CASE r1 # r
    <3>1. rq'[r1] = rq[r1] /\ HasMsg(r1) /\ rq[r1].ch \in Channels
      BY <2>2 DEF IInv, TypeOK, HasMsg, StageLocals
    <3>2. rq[r1].msg < nextId[rq[r1].ch]
      BY <3>1 DEF IInv, MsgFresh
    <3>3. /\ nextId[rq[r1].ch] <= nextId'[rq[r1].ch]
          /\ nextId[rq[r1].ch] \in Nat /\ rq[r1].msg \in Nat
      BY <1>2, <3>1 DEF IInv, TypeOK, Locals
    <3>4. QED
      BY <3>1, <3>2, <3>3
  <2>3. QED
    BY <2>1, <2>2
<1>7. MsgDistinct'
  <2> SUFFICES ASSUME NEW r1 \in Req, NEW r2 \in Req,
                      HasMsg(r1)', HasMsg(r2)', r1 # r2
               PROVE  <<rq'[r1].ch, rq'[r1].msg>> # <<rq'[r2].ch, rq'[r2].msg>>
    BY DEF MsgDistinct
  <2>1. CASE r1 # r /\ r2 # r
    BY <2>1 DEF IInv, TypeOK, HasMsg, MsgDistinct
  <2>2. ASSUME NEW ro \in Req, ro # r, HasMsg(ro)'
        PROVE  <<rq'[r].ch, rq'[r].msg>> # <<rq'[ro].ch, rq'[ro].msg>>
    <3>1. rq'[ro] = rq[ro] /\ HasMsg(ro) /\ rq[ro].ch \in Channels
      BY <2>2 DEF IInv, TypeOK, HasMsg, StageLocals
    <3>2. rq[ro].msg < nextId[rq[ro].ch]
      BY <3>1 DEF IInv, MsgFresh
    <3>3. rq'[r].msg = 0 \/ rq'[r].msg = nextId[ch]
      BY DEF IInv, TypeOK
    <3>4. rq'[r].ch = ch
      BY DEF IInv, TypeOK
    <3>5. QED
      BY <1>1, <3>1, <3>2, <3>3, <3>4, <2>2 DEF HasMsg
  <2>3. QED
    BY <2>1, <2>2
<1>8. RowsOwned'
  <2> SUFFICES ASSUME NEW x \in ledger'
               PROVE \E r0 \in Req : /\ rq'[r0].created
                                     /\ x.ch = rq'[r0].ch /\ x.msg = rq'[r0].msg
    BY DEF RowsOwned
  <2>1. PICK r0 \in Req : rq[r0].created /\ x.ch = rq[r0].ch /\ x.msg = rq[r0].msg
    BY DEF IInv, RowsOwned
  <2>2. r0 # r
    BY <1>1, <2>1
  <2>3. QED
    BY <2>1, <2>2 DEF IInv, TypeOK
<1>9. CompensatedOwned'
  <2> SUFFICES ASSUME NEW m \in compensated'
               PROVE \E r0 \in Req : /\ HasMsg(r0)' /\ ~rq'[r0].created
                                     /\ pc'[r0] = "done"
                                     /\ m = <<rq'[r0].ch, rq'[r0].msg>>
    BY DEF CompensatedOwned
  <2>1. PICK r0 \in Req : /\ HasMsg(r0) /\ ~rq[r0].created /\ pc[r0] = "done"
                          /\ m = <<rq[r0].ch, rq[r0].msg>>
    BY DEF IInv, CompensatedOwned
  <2>2. r0 # r
    BY <2>1
  <2>3. QED
    BY <2>1, <2>2 DEF IInv, TypeOK, HasMsg
<1>10. QED
  BY <1>3, <1>4, <1>5, <1>6, <1>7, <1>8, <1>9 DEF IInv

(* Send: upload the file and post the message; the four outcomes of the  *)
(* remote calls.                                                          *)
LEMMA SendIInv ==
  ASSUME IInv, NEW r \in Req, Send(r)
  PROVE  IInv'
<1> DEFINE ch == rq[r].ch
<1> DEFINE m == <<ch, nextId[ch]>>
<1> USE DEF ch, m
<1>1. /\ pc[r] = "prepared"
      /\ UNCHANGED <<worker, ledger, compensated, erased, listing, now>>
  BY DEF Send
<1>2. /\ rq[r] \in Locals /\ ch \in Channels /\ rq[r].msg = 0 /\ ~rq[r].created
      /\ nextId[ch] \in Nat \ {0}
  BY <1>1 DEF IInv, TypeOK, StageLocals, HasMsg
<1>3. /\ [rq[r] EXCEPT !.res = "err"] \in Locals
      /\ [rq[r] EXCEPT !.res = "panic"] \in Locals
      /\ [rq[r] EXCEPT !.msg = nextId[ch]] \in Locals
  <2>1. [rq[r] EXCEPT !.res = "err"] \in Locals
    BY <1>2, ResultLocals DEF Results
  <2>2. [rq[r] EXCEPT !.res = "panic"] \in Locals
    BY <1>2, ResultLocals DEF Results
  <2>3. [rq[r] EXCEPT !.msg = nextId[ch]] \in Locals
    BY <1>2 DEF Locals
  <2>4. QED
    BY <2>1, <2>2, <2>3
<1>4. "done" \in Stages /\ pc[r] # "done"
  BY <1>1 DEF Stages
<1>5. CASE Finish(r, rq[r], "err") /\ UNCHANGED <<live, nextId>>
  <2> DEFINE q2 == [rq[r] EXCEPT !.res = "err"]
  <2>1. pc' = [pc EXCEPT ![r] = "done"] /\ rq' = [rq EXCEPT ![r] = q2]
    BY <1>5 DEF Finish
  <2>2. q2.msg = rq[r].msg /\ q2.created = rq[r].created /\ q2.ch = ch
        /\ q2.uid = rq[r].uid /\ q2.part = rq[r].part /\ q2 \in Locals
    BY <1>2, <1>3 DEF q2
  <2>3. LocalOnly
    BY <1>1, <1>5 DEF LocalOnly
  <2>4. QED
    BY <1>1, <1>2, <1>4, <2>1, <2>2, <2>3, LocalStepIInv, LocalOnlyFrame
<1>6. ASSUME NEW ans \in {"err", "panic"}, Finish(r, rq[r], ans),
             live' = live \cup {m}, nextId' = [nextId EXCEPT ![ch] = @ + 1]
      PROVE  IInv'
  <2> DEFINE q2 == [rq[r] EXCEPT !.res = ans]
  <2>1. pc' = [pc EXCEPT ![r] = "done"] /\ rq' = [rq EXCEPT ![r] = q2]
    BY <1>6 DEF Finish
  <2>2. /\ q2 \in Locals /\ q2.ch = ch /\ ~q2.created /\ q2.msg = 0
        /\ q2.uid = rq[r].uid /\ q2.part = rq[r].part
    <3>1. ans \in Results
      BY DEF Results
    <3>2. q2 \in Locals
      BY <1>2, <3>1, ResultLocals
    <3>3. QED
      BY <1>2, <3>2 DEF Locals
  <2>3. QED
    BY <1>1, <1>6, <2>1, <2>2, PostStepIInv
<1>7. CASE /\ pc' = [pc EXCEPT ![r] = "sent"]
           /\ rq' = [rq EXCEPT ![r].msg = nextId[ch]]
           /\ \/ live' = live \cup {m}
              \/ UNCHANGED live
           /\ nextId' = [nextId EXCEPT ![ch] = @ + 1]
  <2> DEFINE q2 == [rq[r] EXCEPT !.msg = nextId[ch]]
  <2>1. rq' = [rq EXCEPT ![r] = q2]
    BY <1>7
  <2>2. q2 \in Locals /\ q2.ch = ch /\ ~q2.created /\ q2.msg = nextId[ch]
        /\ q2.uid = rq[r].uid /\ q2.part = rq[r].part
        /\ q2.msg # 0
    BY <1>2, <1>3 DEF q2
  <2>3. live' \subseteq live \cup {m}
    BY <1>7
  <2>4. "sent" = "sent" <=> q2.msg # 0
    BY <2>2
  <2>5. QED
    BY <1>1, <1>7, <2>1, <2>2, <2>3, <2>4, PostStepIInv
<1>8. QED
  BY <1>5, <1>6, <1>7 DEF Send

(* Persist, the insert succeeds: the new row belongs to the request that *)
(* now holds created = TRUE.                                               *)
LEMMA PersistInsertIInv ==
  ASSUME IInv, NEW r \in Req, pc[r] = "sent",
         ledger' = ledger \cup {[RowOf(r) EXCEPT !.created = now]},
         pc' = [pc EXCEPT ![r] = "persisted"],
         rq' = [rq EXCEPT ![r].created = TRUE, ![r].at = now],
         UNCHANGED <<worker, live, nextId, compensated, erased,
                     listing, now>>
  PROVE  IInv'
<1> DEFINE row == [RowOf(r) EXCEPT !.created = now]
<1> DEFINE q == [rq[r] EXCEPT !.created = TRUE, !.at = now]
<1>1. /\ rq[r] \in Locals /\ rq[r].ch \in Channels /\ rq[r].msg # 0
      /\ ~rq[r].created /\ rq[r].uid \in UploadIds /\ rq[r].part \in PartNos
      /\ now \in Nat
  BY DEF IInv, TypeOK, StageLocals, HasMsg
<1>2. /\ q \in Locals /\ rq' = [rq EXCEPT ![r] = q]
      /\ q.ch = rq[r].ch /\ q.msg = rq[r].msg /\ q.created
      /\ q.uid = rq[r].uid /\ q.part = rq[r].part
  BY <1>1 DEF Locals
<1>3. row \in Row /\ row.ch = rq[r].ch /\ row.msg = rq[r].msg
  BY <1>1 DEF Row, RowOf, Locals
<1>4. TypeOK'
  <2>1. ledger' = ledger \cup {row}
    OBVIOUS
  <2>2. pc' \in [Req -> Stages] /\ rq' \in [Req -> Locals]
    BY <1>2 DEF IInv, TypeOK, Stages
  <2>3. QED
    BY <1>3, <2>1, <2>2 DEF IInv, TypeOK
<1>5. WorkerConsistent' /\ BotsSet'
  BY <1>2 DEF IInv, WorkerConsistent, BotsSet, TypeOK
<1>6. StageLocals' /\ MsgFresh' /\ MsgDistinct'
  <2>1. \A r0 \in Req : /\ rq'[r0].ch = rq[r0].ch /\ rq'[r0].msg = rq[r0].msg
                      /\ rq'[r0].uid = rq[r0].uid /\ rq'[r0].part = rq[r0].part
    <3> SUFFICES ASSUME NEW r0 \in Req
                 PROVE  /\ rq'[r0].ch = rq[r0].ch /\ rq'[r0].msg = rq[r0].msg
                        /\ rq'[r0].uid = rq[r0].uid /\ rq'[r0].part = rq[r0].part
      OBVIOUS
    <3>1. CASE r0 = r
      <4>1. rq'[r0] = q
        BY <1>2, <3>1 DEF IInv, TypeOK
      <4>2. QED
        BY <1>2, <4>1, <3>1
    <3>2. CASE r0 # r
      BY <1>2, <3>2 DEF IInv, TypeOK
    <3>3. QED
      BY <3>1, <3>2
  <2>2. \A r0 \in Req \ {r} : rq'[r0] = rq[r0] /\ pc'[r0] = pc[r0]
    BY <1>2 DEF IInv, TypeOK
  <2>3. pc'[r] = "persisted" /\ rq'[r].created
    BY <1>2 DEF IInv, TypeOK
  <2>4. StageLocals'
    <3> SUFFICES ASSUME NEW r0 \in Req
                 PROVE  StageLocals!(r0)'
      BY DEF StageLocals
    <3>1. CASE r0 = r
      BY <1>1, <2>1, <2>3, <3>1 DEF HasMsg
    <3>2. CASE r0 # r
      BY <2>2, <3>2 DEF IInv, StageLocals, HasMsg
    <3>3. QED
      BY <3>1, <3>2
  <2>5. MsgFresh'
    <3> SUFFICES ASSUME NEW r0 \in Req, HasMsg(r0)'
                 PROVE  rq'[r0].msg < nextId'[rq'[r0].ch]
      BY DEF MsgFresh
    <3>1. HasMsg(r0) /\ rq[r0].msg < nextId[rq[r0].ch]
      BY <2>1 DEF IInv, MsgFresh, HasMsg
    <3>2. QED
      BY <2>1, <3>1
  <2>6. MsgDistinct'
    <3> SUFFICES ASSUME NEW r1 \in Req, NEW r2 \in Req,
                        HasMsg(r1)', HasMsg(r2)', r1 # r2
                 PROVE  <<rq'[r1].ch, rq'[r1].msg>> # <<rq'[r2].ch, rq'[r2].msg>>
      BY DEF MsgDistinct
    <3>1. <<rq[r1].ch, rq[r1].msg>> # <<rq[r2].ch, rq[r2].msg>>
      BY <2>1 DEF IInv, MsgDistinct, HasMsg
    <3>2. QED
      BY <2>1, <3>1
  <2>7. QED
    BY <2>4, <2>5, <2>6
<1>7. RowsOwned'
  <2> SUFFICES ASSUME NEW x \in ledger'
               PROVE \E r0 \in Req : /\ rq'[r0].created
                                     /\ x.ch = rq'[r0].ch /\ x.msg = rq'[r0].msg
    BY DEF RowsOwned
  <2>1. CASE x = row
    BY <1>2, <1>3, <2>1 DEF IInv, TypeOK
  <2>2. CASE x \in ledger
    <3>1. PICK r0 \in Req : rq[r0].created /\ x.ch = rq[r0].ch /\ x.msg = rq[r0].msg
      BY <2>2 DEF IInv, RowsOwned
    <3>2. r0 # r
      BY <1>1, <3>1
    <3>3. QED
      BY <3>1, <3>2 DEF IInv, TypeOK
  <2>3. QED
    BY <2>1, <2>2
<1>8. CompensatedOwned'
  <2> SUFFICES ASSUME NEW m \in compensated'
               PROVE \E r0 \in Req : /\ HasMsg(r0)' /\ ~rq'[r0].created
                                     /\ pc'[r0] = "done"
                                     /\ m = <<rq'[r0].ch, rq'[r0].msg>>
    BY DEF CompensatedOwned
  <2>1. PICK r0 \in Req : /\ HasMsg(r0) /\ ~rq[r0].created /\ pc[r0] = "done"
                          /\ m = <<rq[r0].ch, rq[r0].msg>>
    BY DEF IInv, CompensatedOwned
  <2>2. r0 # r
    BY <2>1
  <2>3. QED
    BY <1>2, <2>1, <2>2 DEF IInv, TypeOK, HasMsg
<1>9. QED
  BY <1>4, <1>5, <1>6, <1>7, <1>8 DEF IInv

(* Persist, the insert fails and the message is deleted: the deleted      *)
(* message is the failed request's own.                                    *)
LEMMA PersistCompensateIInv ==
  ASSUME IInv, NEW r \in Req, pc[r] = "sent",
         Finish(r, rq[r], "err"),
         live' = live \ {<<rq[r].ch, rq[r].msg>>},
         compensated' = compensated \cup {<<rq[r].ch, rq[r].msg>>},
         UNCHANGED <<worker, ledger, nextId, erased, listing, now>>
  PROVE  IInv'
<1> DEFINE q == [rq[r] EXCEPT !.res = "err"]
<1>1. /\ rq[r] \in Locals /\ rq[r].ch \in Channels /\ rq[r].msg # 0
      /\ ~rq[r].created
  BY DEF IInv, TypeOK, StageLocals, HasMsg
<1>2. /\ q \in Locals /\ rq' = [rq EXCEPT ![r] = q]
      /\ pc' = [pc EXCEPT ![r] = "done"]
      /\ q.ch = rq[r].ch /\ q.msg = rq[r].msg /\ ~q.created
      /\ q.uid = rq[r].uid /\ q.part = rq[r].part
  BY <1>1 DEF Finish, Locals, Results
<1>3. TypeOK'
  <2>1. pc' \in [Req -> Stages] /\ rq' \in [Req -> Locals]
    BY <1>2 DEF IInv, TypeOK, Stages
  <2>2. <<rq[r].ch, rq[r].msg>> \in Channels \X Nat
    BY <1>1 DEF Locals
  <2>3. QED
    BY <2>1, <2>2 DEF IInv, TypeOK
<1>4. WorkerConsistent' /\ BotsSet'
  BY <1>2 DEF IInv, WorkerConsistent, BotsSet, TypeOK
<1>5. StageLocals' /\ MsgFresh' /\ MsgDistinct'
  <2>1. \A r0 \in Req : /\ rq'[r0].ch = rq[r0].ch /\ rq'[r0].msg = rq[r0].msg
                      /\ rq'[r0].uid = rq[r0].uid /\ rq'[r0].part = rq[r0].part
                      /\ rq'[r0].created = rq[r0].created
    BY <1>1, <1>2 DEF IInv, TypeOK
  <2>2. \A r0 \in Req \ {r} : pc'[r0] = pc[r0]
    BY <1>2 DEF IInv, TypeOK
  <2>3. pc'[r] = "done"
    BY <1>2 DEF IInv, TypeOK
  <2>4. StageLocals'
    BY <1>1, <2>1, <2>2, <2>3 DEF IInv, StageLocals, HasMsg
  <2>5. MsgFresh' /\ MsgDistinct'
    BY <2>1 DEF IInv, MsgFresh, MsgDistinct, HasMsg
  <2>6. QED
    BY <2>4, <2>5
<1>6. RowsOwned'
  <2> SUFFICES ASSUME NEW x \in ledger'
               PROVE \E r0 \in Req : /\ rq'[r0].created
                                     /\ x.ch = rq'[r0].ch /\ x.msg = rq'[r0].msg
    BY DEF RowsOwned
  <2>1. PICK r0 \in Req : rq[r0].created /\ x.ch = rq[r0].ch /\ x.msg = rq[r0].msg
    BY DEF IInv, RowsOwned
  <2>2. r0 # r
    BY <1>1, <2>1
  <2>3. QED
    BY <1>2, <2>1, <2>2 DEF IInv, TypeOK
<1>7. CompensatedOwned'
  <2> SUFFICES ASSUME NEW m \in compensated'
               PROVE \E r0 \in Req : /\ HasMsg(r0)' /\ ~rq'[r0].created
                                     /\ pc'[r0] = "done"
                                     /\ m = <<rq'[r0].ch, rq'[r0].msg>>
    BY DEF CompensatedOwned
  <2>1. CASE m = <<rq[r].ch, rq[r].msg>>
    <3>1. rq'[r] = q /\ pc'[r] = "done"
      BY <1>2 DEF IInv, TypeOK
    <3>2. QED
      BY <1>1, <1>2, <2>1, <3>1 DEF HasMsg
  <2>2. CASE m \in compensated
    <3>1. PICK r0 \in Req : /\ HasMsg(r0) /\ ~rq[r0].created /\ pc[r0] = "done"
                            /\ m = <<rq[r0].ch, rq[r0].msg>>
      BY <2>2 DEF IInv, CompensatedOwned
    <3>2. r0 # r
      BY <3>1
    <3>3. QED
      BY <3>1, <3>2, <1>2 DEF IInv, TypeOK, HasMsg
  <2>3. QED
    BY <2>1, <2>2
<1>8. QED
  BY <1>3, <1>4, <1>5, <1>6, <1>7 DEF IInv

(* Persist: insert the row, or fail and delete the message best effort.  *)
LEMMA PersistIInv ==
  ASSUME IInv, NEW r \in Req, Persist(r)
  PROVE  IInv'
<1>1. /\ pc[r] = "sent"
      /\ UNCHANGED <<worker, nextId, erased, listing, now>>
  BY DEF Persist
<1>2. CASE /\ ledger' = ledger \cup {[RowOf(r) EXCEPT !.created = now]}
           /\ pc' = [pc EXCEPT ![r] = "persisted"]
           /\ rq' = [rq EXCEPT ![r].created = TRUE, ![r].at = now]
           /\ UNCHANGED <<live, compensated>>
  BY <1>1, <1>2, PersistInsertIInv
<1>3. CASE /\ Finish(r, rq[r], "err")
           /\ UNCHANGED ledger
           /\ live' = live \ {<<rq[r].ch, rq[r].msg>>}
           /\ compensated' = compensated \cup {<<rq[r].ch, rq[r].msg>>}
  BY <1>1, <1>3, PersistCompensateIInv
<1>4. CASE Finish(r, rq[r], "err") /\ UNCHANGED <<ledger, live, compensated>>
  <2> DEFINE q2 == [rq[r] EXCEPT !.res = "err"]
  <2>1. /\ rq[r] \in Locals /\ rq[r].ch \in Channels /\ rq[r].msg # 0
        /\ ~rq[r].created
    BY <1>1 DEF IInv, TypeOK, StageLocals, HasMsg
  <2>2. /\ pc' = [pc EXCEPT ![r] = "done"] /\ rq' = [rq EXCEPT ![r] = q2]
        /\ q2 \in Locals /\ q2.msg = rq[r].msg /\ q2.created = rq[r].created
        /\ q2.ch = rq[r].ch /\ q2.uid = rq[r].uid /\ q2.part = rq[r].part
    BY <1>4, <2>1, ResultLocals DEF Finish, Results, Locals
  <2>3. LocalOnly /\ "done" \in Stages /\ pc[r] # "done"
    BY <1>1, <1>4 DEF LocalOnly, Stages
  <2>4. QED
    BY <1>1, <2>1, <2>2, <2>3, LocalStepIInv, LocalOnlyFrame
<1>5. QED
  BY <1>2, <1>3, <1>4 DEF Persist

(* A step that leaves every variable IInv reads beyond TypeOK alone, and  *)
(* keeps TypeOK, keeps IInv.                                               *)
LEMMA FrameIInv ==
  ASSUME IInv, TypeOK',
         UNCHANGED <<pc, rq, worker, ledger, nextId, compensated>>
  PROVE  IInv'
<1>1. WorkerConsistent' /\ BotsSet'
  BY DEF IInv, WorkerConsistent, BotsSet
<1>2. StageLocals'
  BY DEF IInv, StageLocals, HasMsg
<1>3. MsgFresh' /\ MsgDistinct'
  BY DEF IInv, MsgFresh, MsgDistinct, HasMsg
<1>4. RowsOwned' /\ CompensatedOwned'
  BY DEF IInv, RowsOwned, CompensatedOwned, HasMsg
<1>5. QED
  BY <1>1, <1>2, <1>3, <1>4 DEF IInv

(* GetUploadFileById only replaces the listing, with rows of the ledger.   *)
LEMMA GetUploadFileByIdIInv ==
  ASSUME IInv, NEW uid \in UploadIds, GetUploadFileById(uid)
  PROVE  IInv'
<1>1. listing' \in [uid : UploadIds \cup {"none"}, at : Nat, parts : SUBSET Row]
  BY DEF GetUploadFileById, IInv, TypeOK
<1>2. TypeOK'
  BY <1>1 DEF GetUploadFileById, IInv, TypeOK
<1>3. QED
  BY <1>2, FrameIInv DEF GetUploadFileById

(* DeleteUploadFile moves rows from the ledger to the erased ones.         *)
LEMMA DeleteUploadFileIInv ==
  ASSUME IInv, NEW uid \in UploadIds, DeleteUploadFile(uid)
  PROVE  IInv'
<1>1. ledger' \subseteq ledger /\ erased' \subseteq Row
  BY DEF DeleteUploadFile, IInv, TypeOK
<1>2. TypeOK'
  BY <1>1 DEF DeleteUploadFile, IInv, TypeOK
<1>3. RowsOwned'
  BY <1>1 DEF DeleteUploadFile, IInv, RowsOwned
<1>4. QED
  BY <1>2, <1>3 DEF DeleteUploadFile, IInv, WorkerConsistent, BotsSet,
                    StageLocals,
                    HasMsg, MsgFresh, MsgDistinct, CompensatedOwned

(* Tick advances the clock inside its bound.                               *)
LEMMA TickIInv ==
  ASSUME IInv, Tick
  PROVE  IInv'
<1>1. now' \in 0..MaxTime
  BY DEF Tick, IInv, TypeOK
<1>2. TypeOK'
  BY <1>1 DEF Tick, IInv, TypeOK
<1>3. QED
  BY <1>2, FrameIInv DEF Tick

(* Every step of the specification, or a stutter, preserves IInv.          *)
LEMMA NextIInv == IInv /\ [Next]_vars => IInv'
<1> SUFFICES ASSUME IInv, [Next]_vars PROVE IInv'
  OBVIOUS
<1>1. CASE \E r \in Req :
             \/ Begin(r) \/ UserClient(r) \/ SetBots(r) \/ BotClient(r)
             \/ Prepare(r) \/ Send(r) \/ Persist(r) \/ Verify(r)
  BY <1>1, BeginIInv, UserClientIInv, SetBotsIInv, BotClientIInv, PrepareIInv,
     SendIInv, PersistIInv, VerifyIInv
<1>2. CASE \E uid \in UploadIds : GetUploadFileById(uid) \/ DeleteUploadFile(uid)
  BY <1>2, GetUploadFileByIdIInv, DeleteUploadFileIInv
<1>3. CASE Tick
  BY <1>3, TickIInv
<1>4. CASE UNCHANGED vars
  <2>1. TypeOK'
    BY <1>4 DEF vars, IInv, TypeOK
  <2>2. QED
    BY <1>4, <2>1, FrameIInv DEF vars
<1>5. QED
  BY <1>1, <1>2, <1>3, <1>4 DEF Next

(* IInv excludes a compensated message of a recorded row: the row's owner  *)
(* holds created = TRUE, the compensated message's owner does not, so they *)
(* are two requests, and two requests never hold the same message.         *)
LEMMA IInvCompensation == IInv => CompensationSparesRecorded
<1> SUFFICES ASSUME IInv, NEW x \in ledger,
                    <<x.ch, x.msg>> \in compensated
             PROVE  FALSE
  BY DEF CompensationSparesRecorded
<1>1. PICK r1 \in Req : rq[r1].created /\ x.ch = rq[r1].ch /\ x.msg = rq[r1].msg
  BY DEF IInv, RowsOwned
<1>2. PICK r2 \in Req : /\ HasMsg(r2) /\ ~rq[r2].created
                        /\ <<x.ch, x.msg>> = <<rq[r2].ch, rq[r2].msg>>
  BY DEF IInv, CompensatedOwned
<1>3. HasMsg(r1) /\ r1 # r2
  BY <1>1, <1>2 DEF IInv, StageLocals
<1>4. QED
  BY <1>1, <1>2, <1>3 DEF IInv, MsgDistinct

(* The inductive invariant holds in every reachable state.                 *)
THEOREM IInvInvariant == Spec => []IInv
BY InitIInv, NextIInv, PTL DEF Spec

(* Type correctness: every variable of the upload service, the credential *)
(* pool's cursor included, keeps its type in every reachable state.        *)
THEOREM TypeCorrect == Spec => []TypeOK
<1>1. IInv => TypeOK
  BY DEF IInv
<1>2. QED
  BY <1>1, IInvInvariant, PTL

(* The compensating delete of a failed insert (upload.go line 249) never  *)
(* deletes the message of a row in the ledger, for any number of          *)
(* concurrent requests, channels, sessions and parts.                      *)
THEOREM CompensationSafe == Spec => []CompensationSparesRecorded
BY IInvCompensation, IInvInvariant, PTL

=============================================================================
