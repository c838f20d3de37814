---------------------------- MODULE WsLoginProofs ----------------------------
(***************************************************************************)
(* Proof that every variable of HandleMultipleLogin keeps its type, for    *)
(* every number of messages, users, limiter burst and flood-wait bound:    *)
(* the goroutines started stay within the messages read, the limiter's    *)
(* tokens within 0..Burst and each goroutine's FLOOD_WAIT retries within   *)
(* 0..MaxFlood.  TypeOK is inductive by itself: one lemma per action.      *)
(***************************************************************************)
EXTENDS WsLogin, TLAPS

USE WsAssumption

(* Initially nothing is read and the bucket is full.                       *)
LEMMA InitTypeOK == Init => TypeOK
<1> SUFFICES ASSUME Init PROVE TypeOK
  OBVIOUS
<1>1. kind \in [Gor -> Kinds] /\ gpc \in [Gor -> Stages]
  BY DEF Init, Stages, Kinds
<1>2. reply \in [Gor -> Replies] /\ floods \in [Gor -> 0..MaxFlood]
  BY DEF Init, Replies
<1>3. reader \in {"loop", "closed"} /\ nread \in 0..MaxMsgs
  BY DEF Init
<1>4. writing \subseteq Gor /\ tokens \in 0..Burst
  BY DEF Init
<1>6. crashed \in BOOLEAN
  BY Zenon DEF Init
<1>5. QED
  BY <1>1, <1>2, <1>3, <1>4, <1>6, Zenon DEF TypeOK

(* Read starts goroutine nread + 1, which exists while nread < MaxMsgs.    *)
LEMMA ReadTypeOK == TypeOK /\ Read => TypeOK'
<1> SUFFICES ASSUME TypeOK, Read PROVE TypeOK'
  OBVIOUS
<1>1. PICK k \in Kinds :
        /\ nread' = nread + 1
        /\ kind' = [kind EXCEPT ![nread + 1] = k]
        /\ gpc' = [gpc EXCEPT ![nread + 1] = IF k = "ignored" THEN "none" ELSE "call"]
  BY DEF Read
<1>2. nread + 1 \in Gor /\ nread' \in 0..MaxMsgs
  BY <1>1 DEF Read, TypeOK, Gor
<1>3. kind' \in [Gor -> Kinds] /\ gpc' \in [Gor -> Stages]
  BY <1>1, <1>2 DEF TypeOK, Stages
<1>4. QED
  BY <1>2, <1>3 DEF Read, TypeOK

(* The answer of a call sets the goroutine's reply and stage and clears   *)
(* its retries.                                                            *)
LEMMA AnswerTypeOK ==
  ASSUME TypeOK, NEW i \in Gor, NEW a \in Replies, Answer(i, a)
  PROVE  /\ reply' \in [Gor -> Replies] /\ gpc' \in [Gor -> Stages]
         /\ floods' \in [Gor -> 0..MaxFlood]
BY DEF Answer, TypeOK, Stages

(* A remote call spends a token it has, and retries FLOOD_WAIT only below  *)
(* the bound.                                                              *)
LEMMA InvokeTypeOK ==
  ASSUME TypeOK, NEW i \in Gor, Invoke(i)
  PROVE  TypeOK'
<1>1. tokens' \in 0..Burst
  BY DEF Invoke, TypeOK
<1>2. LoginAnswers(TRUE) \subseteq Replies /\ LoginAnswers(FALSE) \subseteq Replies
  BY DEF LoginAnswers, Replies
<1>3. /\ reply' \in [Gor -> Replies] /\ gpc' \in [Gor -> Stages]
      /\ floods' \in [Gor -> 0..MaxFlood]
  <2>1. CASE /\ floods[i] < MaxFlood
             /\ floods' = [floods EXCEPT ![i] = @ + 1]
             /\ UNCHANGED <<gpc, reply>>
    BY <2>1 DEF TypeOK
  <2>2. CASE \E a \in Replies : Answer(i, a)
    BY <2>2, AnswerTypeOK
  <2>3. QED
    BY <1>2, <2>1, <2>2 DEF Invoke, Replies
<1>4. QED
  BY <1>1, <1>3 DEF Invoke, TypeOK

(* The user's scan spends a token and answers the login.                   *)
LEMMA ScanTypeOK ==
  ASSUME TypeOK, NEW i \in Gor, Scan(i)
  PROVE  TypeOK'
<1>1. LoginAnswers(TRUE) \subseteq Replies
  BY DEF LoginAnswers, Replies
<1>2. PICK a \in Replies : Answer(i, a)
  BY <1>1 DEF Scan
<1>3. QED
  BY <1>2, AnswerTypeOK DEF Scan, TypeOK

(* Expiry, the two halves of WriteJSON and the logout move a goroutine     *)
(* between stages; LogOut spends a token it has.                           *)
LEMMA MoveTypeOK ==
  ASSUME TypeOK, NEW i \in Gor, Expire(i) \/ WriteBegin(i) \/ WriteEnd(i) \/ LogOut(i)
  PROVE  TypeOK'
<1>1. CASE Expire(i)
  BY <1>1 DEF Expire, TypeOK, Stages
<1>2. CASE WriteBegin(i)
  BY <1>2 DEF WriteBegin, TypeOK
<1>3. CASE WriteEnd(i)
  <2> DEFINE st == CASE gpc[i] = "show"    -> "wait"
                     [] reply[i] = "denied" -> "logout"
                     [] OTHER               -> "done"
  <2>1. st \in Stages
    <3>1. CASE gpc[i] = "show"
      <4>1. st \in {"wait", "logout"}
        BY <3>1, Zenon
      <4>2. QED
        BY <4>1 DEF Stages
    <3>2. CASE gpc[i] # "show" /\ reply[i] = "denied"
      <4>1. st = "logout"
        BY <3>2, Zenon
      <4>2. QED
        BY <4>1 DEF Stages
    <3>3. CASE gpc[i] # "show" /\ reply[i] # "denied"
      <4>1. st = "done"
        BY <3>3, Zenon
      <4>2. QED
        BY <4>1 DEF Stages
    <3>4. QED
      BY <3>1, <3>2, <3>3
  <2>2. gpc' = [gpc EXCEPT ![i] = st]
    BY <1>3, Zenon DEF WriteEnd
  <2>3. QED
    <3> HIDE DEF st
    <3>1. gpc' \in [Gor -> Stages]
      BY <2>1, <2>2 DEF TypeOK
    <3>2. QED
      BY <1>3, <3>1 DEF WriteEnd, TypeOK
<1>4. CASE LogOut(i)
  BY <1>4 DEF LogOut, TypeOK, Stages
<1>5. QED
  BY <1>1, <1>2, <1>3, <1>4

(* Every step, or a stutter, keeps TypeOK.                                 *)
LEMMA NextTypeOK == TypeOK /\ [Next]_vars => TypeOK'
<1> SUFFICES ASSUME TypeOK, [Next]_vars PROVE TypeOK'
  OBVIOUS
<1>1. CASE Read
  BY <1>1, ReadTypeOK
<1>2. CASE Close
  BY <1>2 DEF Close, TypeOK
<1>3. CASE Refill
  BY <1>3 DEF Refill, TypeOK
<1>4. ASSUME NEW i \in Gor, Goroutine(i) \/ Scan(i) PROVE TypeOK'
  BY <1>4, InvokeTypeOK, ScanTypeOK, MoveTypeOK DEF Goroutine
<1>5. CASE UNCHANGED vars
  BY <1>5 DEF vars, TypeOK
<1>6. QED
  BY <1>1, <1>2, <1>3, <1>4, <1>5 DEF Next

(* Type correctness of the websocket login: however the goroutines of one  *)
(* connection interleave with the read loop and the limiter's refill, the  *)
(* limiter never goes below zero tokens or above its burst, no goroutine   *)
(* retries FLOOD_WAIT past the bound, and only started goroutines run.     *)
THEOREM WsTypeCorrect == Spec => []TypeOK
BY InitTypeOK, NextTypeOK, PTL DEF Spec

=============================================================================
