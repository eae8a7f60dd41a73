-------------------------- MODULE ChatLogicProofs --------------------------
(***************************************************************************)
(* Proofs about ChatServer's message queue, for any number of IO threads   *)
(* and messages.                                                           *)
(***************************************************************************)
EXTENDS ChatLogic, SequenceTheorems, TLAPS

(* Moving the front of a queue to the end of the history before it leaves  *)
(* their concatenation as it was.                                          *)
LEMMA PopKeepsOrder ==
    ASSUME NEW S, NEW s \in Seq(S), NEW q \in Seq(S), q # <<>>
    PROVE  Append(s, Head(q)) \o Tail(q) = s \o q
<1> DEFINE l == Append(s, Head(q)) \o Tail(q)
           r == s \o q
<1>1. /\ Append(s, Head(q)) \in Seq(S) /\ Tail(q) \in Seq(S)
      /\ Len(Append(s, Head(q))) = Len(s) + 1
      /\ Len(Tail(q)) = Len(q) - 1
      /\ Len(q) \in Nat \ {0} /\ Len(s) \in Nat
  OBVIOUS
<1>2. l \in Seq(S) /\ r \in Seq(S) /\ Len(l) = Len(r)
  BY <1>1
<1>3. ASSUME NEW i \in 1..Len(l) PROVE l[i] = r[i]
  <2>1. CASE i <= Len(s)
    BY <1>1, <2>1
  <2>2. CASE i = Len(s) + 1
    BY <1>1, <2>2
  <2>3. CASE i > Len(s) + 1
    BY <1>1, <2>3
  <2> QED
    BY <1>1, <1>2, <2>1, <2>2, <2>3
<1> HIDE DEF l, r
<1>4. l = r
  BY <1>2, <1>3, SeqEqual
<1> QED
  BY <1>4 DEF l, r

(* Queueing at the end is appending to the concatenation. *)
LEMMA PushKeepsOrder ==
    ASSUME NEW S, NEW s \in Seq(S), NEW q \in Seq(S), NEW x \in S
    PROVE  s \o Append(q, x) = Append(s \o q, x)
<1> DEFINE l == s \o Append(q, x)
           r == Append(s \o q, x)
<1>1. l \in Seq(S) /\ r \in Seq(S) /\ Len(l) = Len(r)
  OBVIOUS
<1>2. \A i \in 1..Len(l) : l[i] = r[i]
  OBVIOUS
<1> HIDE DEF l, r
<1>3. l = r
  BY <1>1, <1>2, SeqEqual
<1> QED
  BY <1>3 DEF l, r

-----------------------------------------------------------------------------
(* Who holds mutex_, and what the worker knows of the queue at each point  *)
(* while it holds it.                                                      *)
WorkerKnows ==
    /\ mutex_ = Worker <=> worker \in {"block", "pass", "deal", "drain"}
    /\ worker = "block" => msg_que_ = <<>>
    /\ worker = "pass" => msg_que_ # <<>> \/ b_stop_
    /\ worker = "deal" => msg_que_ # <<>>
    /\ worker \in {"drain", "exited"} => b_stop_
    /\ worker = "exited" => msg_que_ = <<>>

(* What the progress of the destructor implies. *)
DtorKnows ==
    /\ b_stop_ <=> dtor \in {"notify", "join", "gone"}
    /\ dtor # "up" => \A p \in Posters : poster[p] = "idle"
    /\ dtor = "gone" => worker = "exited"
    /\ dtor = "join" /\ worker \in {"block", "wait"} => missed

(* The inductive invariant. *)
LogicInv == TypeOK /\ WorkerKnows /\ DtorKnows /\ HandledInOrder /\ NoLostWakeup

LEMMA NextCases ==
    ASSUME [Next]_vars
    PROVE  \/ \E p \in Posters : PostMsgToQue(p)
           \/ \E p \in Posters : Notify(p)
           \/ EvalPredicate \/ Sleep \/ SpuriousWake \/ Pass \/ Deal \/ Drain
           \/ StopPosters \/ DtorFlag \/ DtorNotify \/ DtorJoin
           \/ UNCHANGED vars
  BY DEF Next, WorkerStep, DtorStep

LEMMA LogicInit == Init => LogicInv
<1> SUFFICES ASSUME Init PROVE LogicInv
  OBVIOUS
<1>1. TypeOK
  <2>1. <<>> \in Seq(Messages) /\ 0 \in 0..MaxPosts
    BY MaxPostsNat
  <2>2. /\ poster \in [Posters -> {"idle", "notify"}]
        /\ sent \in [Posters -> 0..MaxPosts]
    BY <2>1 DEF Init
  <2> QED
    BY <2>1, <2>2 DEF Init, TypeOK
<1>2. HandledInOrder
  BY DEF Init, HandledInOrder
<1> QED
  BY <1>1, <1>2 DEF LogicInv, Init, WorkerKnows, DtorKnows, NoLostWakeup, Worker, Nobody

(* A pop, by Deal or by Drain, keeps the types and the order. *)
LEMMA PopFrontSound ==
    ASSUME TypeOK, HandledInOrder, PopFront, msg_que_ # <<>>, posted' = posted
    PROVE  /\ msg_que_' \in Seq(Messages)
           /\ handled' \in Seq(Messages)
           /\ HandledInOrder'
<1>1. msg_que_ \in Seq(Messages) /\ handled \in Seq(Messages)
  BY DEF TypeOK
<1>2. handled' \o msg_que_' = handled \o msg_que_
  BY <1>1, PopKeepsOrder DEF PopFront
<1> QED
  BY <1>1, <1>2 DEF PopFront, HandledInOrder

LEMMA LogicStep == LogicInv /\ [Next]_vars => LogicInv'
<1> SUFFICES ASSUME LogicInv, [Next]_vars PROVE LogicInv'
  OBVIOUS
<1>t. TypeOK /\ WorkerKnows /\ DtorKnows /\ HandledInOrder /\ NoLostWakeup
  BY DEF LogicInv
<1>w. Worker # Nobody
  BY DEF Worker, Nobody
<1>1. ASSUME NEW p \in Posters, PostMsgToQue(p) PROVE LogicInv'
  <2> DEFINE m == <<p, sent[p] + 1>>
  <2>1. m \in Messages /\ sent' \in [Posters -> 0..MaxPosts]
    BY <1>1, <1>t, MaxPostsNat DEF PostMsgToQue, TypeOK, Messages
  <2>2. msg_que_' = Append(msg_que_, m) /\ posted' = Append(posted, m)
    BY <1>1 DEF PostMsgToQue
  <2>3. /\ msg_que_ \in Seq(Messages) /\ posted \in Seq(Messages)
        /\ handled \in Seq(Messages) /\ handled' = handled
    BY <1>1, <1>t DEF PostMsgToQue, TypeOK
  <2> HIDE DEF m
  <2>4. msg_que_' \in Seq(Messages) /\ posted' \in Seq(Messages) /\ msg_que_' # <<>>
    BY <2>1, <2>2, <2>3
  <2>5. TypeOK'
    BY <1>1, <1>t, <2>1, <2>4 DEF PostMsgToQue, TypeOK
  <2>6. HandledInOrder'
    <3>1. handled \o Append(msg_que_, m) = Append(handled \o msg_que_, m)
      BY <2>1, <2>3, PushKeepsOrder
    <3>2. handled \o msg_que_ = posted
      BY <1>t DEF HandledInOrder
    <3>3. handled' \o msg_que_' = posted'
      BY <2>2, <2>3, <3>1, <3>2
    <3> QED
      BY <3>3 DEF HandledInOrder
  <2>7. worker' = worker /\ worker \notin {"block", "pass", "deal", "drain", "exited"}
    BY <1>1, <1>t, <1>w DEF PostMsgToQue, WorkerKnows, DtorKnows
  <2>8. WorkerKnows' /\ DtorKnows'
    BY <1>1, <1>t, <2>7 DEF PostMsgToQue, WorkerKnows, DtorKnows
  <2>9. NoLostWakeup'
    <3>1. CASE msg_que_ = <<>>
      <4>1. Len(msg_que_') = 1
        BY <2>2, <3>1
      <4>2. poster'[p] = "notify"
        BY <1>1, <1>t, <4>1 DEF PostMsgToQue, NotifiesAfter, TypeOK
      <4> QED
        BY <4>2 DEF NoLostWakeup
    <3>2. CASE msg_que_ # <<>>
      <4>1. \A q \in Posters : poster[q] = "notify" => poster'[q] = "notify"
        BY <1>1, <1>t DEF PostMsgToQue, TypeOK
      <4> QED
        BY <1>t, <2>7, <3>2, <4>1 DEF NoLostWakeup
    <3> QED
      BY <3>1, <3>2
  <2> QED
    BY <2>5, <2>6, <2>8, <2>9 DEF LogicInv
<1>2. ASSUME NEW p \in Posters, Notify(p) PROVE LogicInv'
  <2>1. worker' # "wait" /\ (worker' = worker \/ (worker' = "enter" /\ worker = "wait"))
    BY <1>2 DEF Notify, WakeWorker
  <2>2. dtor = "up"
    BY <1>2, <1>t DEF Notify, DtorKnows
  <2>3. TypeOK'
    BY <1>2, <1>t, <2>1 DEF Notify, TypeOK
  <2> QED
    BY <1>2, <1>t, <2>1, <2>2, <2>3
       DEF Notify, LogicInv, WorkerKnows, DtorKnows, HandledInOrder, NoLostWakeup
<1>3. CASE EvalPredicate
  BY <1>3, <1>t, <1>w DEF EvalPredicate, LogicInv, TypeOK, WorkerKnows, DtorKnows,
                          HandledInOrder, NoLostWakeup
<1>4. CASE Sleep
  BY <1>4, <1>t, <1>w DEF Sleep, LogicInv, TypeOK, WorkerKnows, DtorKnows,
                          HandledInOrder, NoLostWakeup
<1>5. CASE SpuriousWake
  BY <1>5, <1>t, <1>w DEF SpuriousWake, LogicInv, TypeOK, WorkerKnows, DtorKnows,
                          HandledInOrder, NoLostWakeup
<1>6. CASE Pass
  BY <1>6, <1>t, <1>w DEF Pass, LogicInv, TypeOK, WorkerKnows, DtorKnows,
                          HandledInOrder, NoLostWakeup
<1>7. CASE Deal
  <2>1. /\ msg_que_' \in Seq(Messages) /\ handled' \in Seq(Messages)
        /\ HandledInOrder'
    BY <1>7, <1>t, PopFrontSound DEF Deal, WorkerKnows
  <2> QED
    BY <1>7, <1>t, <1>w, <2>1
       DEF Deal, LogicInv, TypeOK, WorkerKnows, DtorKnows, NoLostWakeup
<1>8. CASE Drain
  <2>1. CASE msg_que_ # <<>>
    <3>1. /\ msg_que_' \in Seq(Messages) /\ handled' \in Seq(Messages)
          /\ HandledInOrder'
      BY <1>8, <1>t, <2>1, PopFrontSound DEF Drain
    <3> QED
      BY <1>8, <1>t, <1>w, <2>1, <3>1
         DEF Drain, LogicInv, TypeOK, WorkerKnows, DtorKnows, NoLostWakeup
  <2>2. CASE msg_que_ = <<>>
    BY <1>8, <1>t, <1>w, <2>2
       DEF Drain, LogicInv, TypeOK, WorkerKnows, DtorKnows, HandledInOrder, NoLostWakeup
  <2> QED
    BY <2>1, <2>2
<1>9. CASE StopPosters
  BY <1>9, <1>t DEF StopPosters, LogicInv, TypeOK, WorkerKnows, DtorKnows,
                    HandledInOrder, NoLostWakeup
<1>10. CASE DtorFlag
  BY <1>10, <1>t DEF DtorFlag, LogicInv, TypeOK, WorkerKnows, DtorKnows,
                     HandledInOrder, NoLostWakeup
<1>11. CASE DtorNotify
  BY <1>11, <1>t DEF DtorNotify, WakeWorker, LogicInv, TypeOK, WorkerKnows, DtorKnows,
                     HandledInOrder, NoLostWakeup
<1>12. CASE DtorJoin
  BY <1>12, <1>t DEF DtorJoin, LogicInv, TypeOK, WorkerKnows, DtorKnows,
                     HandledInOrder, NoLostWakeup
<1>13. CASE UNCHANGED vars
  BY <1>13, <1>t DEF vars, LogicInv, TypeOK, WorkerKnows, DtorKnows,
                     HandledInOrder, NoLostWakeup
<1> QED
  BY <1>1, <1>2, <1>3, <1>4, <1>5, <1>6, <1>7, <1>8, <1>9, <1>10, <1>11, <1>12,
     <1>13, NextCases

LEMMA LogicInvariant == SafeSpec => []LogicInv
  BY LogicInit, LogicStep, PTL DEF SafeSpec

(* Types of the message queue's state. *)
THEOREM TypeCorrect == SafeSpec => []TypeOK
<1>1. LogicInv => TypeOK
  BY DEF LogicInv
<1> QED
  BY <1>1, LogicInvariant, PTL

(* Messages are handled in the order of PostMsgToQue, none lost, none      *)
(* twice, on the normal and on the draining path.                          *)
THEOREM OrderSafe == SafeSpec => []HandledInOrder
<1>1. LogicInv => HandledInOrder
  BY DEF LogicInv
<1> QED
  BY <1>1, LogicInvariant, PTL

(* Notifying only when the queue becomes non-empty never leaves the worker *)
(* asleep beside work without a notify on its way.                         *)
THEOREM WakeupsSafe == SafeSpec => []NoLostWakeup
<1>1. LogicInv => NoLostWakeup
  BY DEF LogicInv
<1> QED
  BY <1>1, LogicInvariant, PTL

(* The destructor's join can meet a sleeping worker only if its notify fell*)
(* into the window between predicate and sleep.                            *)
THEOREM JoinSafe == SafeSpec => []JoinBlocksOnlyIfMissed
<1>1. LogicInv => JoinBlocksOnlyIfMissed
  BY DEF LogicInv, JoinBlocksOnlyIfMissed, DtorKnows, NoLostWakeup
<1> QED
  BY <1>1, LogicInvariant, PTL

(* A destructor that came back has had every posted message handled. *)
THEOREM ExitSafe == SafeSpec => []DrainedAtExit
<1>1. LogicInv => DrainedAtExit
  <2> SUFFICES ASSUME LogicInv, dtor = "gone" PROVE handled = posted
    BY DEF DrainedAtExit
  <2>1. msg_que_ = <<>> /\ handled \in Seq(Messages) /\ handled \o msg_que_ = posted
    BY DEF LogicInv, DtorKnows, WorkerKnows, TypeOK, HandledInOrder
  <2> QED
    BY <2>1
<1> QED
  BY <1>1, LogicInvariant, PTL
=============================================================================
