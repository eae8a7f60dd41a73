----------------------------- MODULE ChatLogic -----------------------------
(***************************************************************************)
(* ChatServer's LogicSystem (ChatServer/src/LogicSystem.cpp): IO threads   *)
(* post received messages to one queue, one worker thread handles them in  *)
(* order, and the destructor stops the worker.                             *)
(*                                                                         *)
(*  - PostMsgToQue notifies only the post that makes the queue non-empty,  *)
(*    and after it has released mutex_: "notify" is a step of its own.     *)
(*  - The worker keeps mutex_ from the moment its predicate holds until    *)
(*    the message has been handled and popped ("deal").  Between a false   *)
(*    predicate and its sleep ("block") it keeps mutex_ too.               *)
(*  - The destructor sets the plain bool b_stop_ and notifies without      *)
(*    mutex_, so both can fall between the worker's predicate and its      *)
(*    sleep.  It runs after main returned, that is after the signal        *)
(*    handler's AsioIOServicePool::Stop() joined the IO threads.           *)
(*  - A message whose id has no callback is popped unhandled;              *)
(*    RegisterCallBacks registers none at present.  A callback runs inside *)
(*    "deal", under mutex_.                                                *)
(***************************************************************************)
EXTENDS Naturals, Sequences

CONSTANTS Posters,    \* IO threads of the AsioIOServicePool
          MaxPosts    \* bound: messages each of them posts

ASSUME MaxPostsNat == MaxPosts \in Nat

VARIABLES msg_que_, mutex_, b_stop_,
          worker,     \* the worker thread's position
          poster,     \* each IO thread's position
          sent,       \* messages each IO thread has posted
          posted,     \* history: every message, in the order of emplace
          handled,    \* history: messages popped, in order
          dtor,       \* progress of the destructor
          missed      \* the destructor's notify fell into the worker's window

vars == <<msg_que_, mutex_, b_stop_, worker, poster, sent, posted, handled,
          dtor, missed>>

Worker == "worker"
Nobody == "nobody"
Elements(s) == {s[i] : i \in 1..Len(s)}
Messages == Posters \X (1..MaxPosts)

Init == /\ msg_que_ = <<>>
        /\ mutex_ = Nobody
        /\ b_stop_ = FALSE
        /\ worker = "enter"
        /\ poster = [p \in Posters |-> "idle"]
        /\ sent = [p \in Posters |-> 0]
        /\ posted = <<>>
        /\ handled = <<>>
        /\ dtor = "up"
        /\ missed = FALSE

-----------------------------------------------------------------------------
(* PostMsgToQue. *)

(* Mutant of NotifiesAfter: the test is written for the queue before the   *)
(* emplace.                                                                *)
NotifiesAfterOff(queue) == Len(queue) = 2

(* if (msg_que_.size() == 1), evaluated after the emplace. *)
NotifiesAfter(queue) == Len(queue) = 1

(* lock, emplace, test the size, unlock. *)
PostMsgToQue(p) ==
    /\ poster[p] = "idle"
    /\ dtor = "up"
    /\ sent[p] < MaxPosts
    /\ mutex_ = Nobody
    /\ msg_que_' = Append(msg_que_, <<p, sent[p] + 1>>)
    /\ posted' = Append(posted, <<p, sent[p] + 1>>)
    /\ sent' = [sent EXCEPT ![p] = @ + 1]
    /\ poster' = [poster EXCEPT ![p] = IF NotifiesAfter(msg_que_') THEN "notify" ELSE "idle"]
    /\ UNCHANGED <<mutex_, b_stop_, worker, handled, dtor, missed>>

(* consume_.notify_one() wakes the worker if it sleeps at this moment. *)
WakeWorker == worker' = IF worker = "wait" THEN "enter" ELSE worker

Notify(p) == /\ poster[p] = "notify"
             /\ WakeWorker
             /\ poster' = [poster EXCEPT ![p] = "idle"]
             /\ UNCHANGED <<msg_que_, mutex_, b_stop_, sent, posted, handled, dtor, missed>>

-----------------------------------------------------------------------------
(* DealMsg. *)

(* Take the mutex and evaluate the predicate of consume_.wait.  When it    *)
(* holds, b_stop_ is read a second time: Pass.                             *)
EvalPredicate ==
    /\ worker = "enter"
    /\ mutex_ = Nobody
    /\ mutex_' = Worker
    /\ worker' = IF msg_que_ # <<>> \/ b_stop_ THEN "pass" ELSE "block"
    /\ UNCHANGED <<msg_que_, b_stop_, poster, sent, posted, handled, dtor, missed>>

Sleep == /\ worker = "block"
         /\ worker' = "wait"
         /\ mutex_' = Nobody
         /\ UNCHANGED <<msg_que_, b_stop_, poster, sent, posted, handled, dtor, missed>>

SpuriousWake == /\ worker = "wait"
                /\ worker' = "enter"
                /\ UNCHANGED <<msg_que_, mutex_, b_stop_, poster, sent, posted,
                               handled, dtor, missed>>

(* if (b_stop_) drain, else handle one message. *)
Pass == /\ worker = "pass"
        /\ worker' = IF b_stop_ THEN "drain" ELSE "deal"
        /\ UNCHANGED <<msg_que_, mutex_, b_stop_, poster, sent, posted, handled, dtor, missed>>

PopFront == /\ handled' = Append(handled, Head(msg_que_))
            /\ msg_que_' = Tail(msg_que_)

(* Mutant of Deal: the queue is popped from the wrong end. *)
DealLast == /\ worker = "deal"
            /\ handled' = Append(handled, msg_que_[Len(msg_que_)])
            /\ msg_que_' = SubSeq(msg_que_, 1, Len(msg_que_) - 1)
            /\ mutex_' = Nobody
            /\ worker' = "enter"
            /\ UNCHANGED <<b_stop_, poster, sent, posted, dtor, missed>>

(* The callback, if there is one, then pop; the lock goes with the loop    *)
(* body.                                                                   *)
Deal == /\ worker = "deal"
        /\ PopFront
        /\ mutex_' = Nobody
        /\ worker' = "enter"
        /\ UNCHANGED <<b_stop_, poster, sent, posted, dtor, missed>>

(* Mutant of Drain: break at once. *)
DrainNothing == /\ worker = "drain"
                /\ worker' = "exited"
                /\ mutex_' = Nobody
                /\ UNCHANGED <<msg_que_, handled, b_stop_, poster, sent, posted, dtor, missed>>

(* The drain loop: one message per step, mutex_ kept; then break. *)
Drain == /\ worker = "drain"
         /\ \/ /\ msg_que_ # <<>>
               /\ PopFront
               /\ UNCHANGED <<worker, mutex_>>
            \/ /\ msg_que_ = <<>>
               /\ worker' = "exited"
               /\ mutex_' = Nobody
               /\ UNCHANGED <<msg_que_, handled>>
         /\ UNCHANGED <<b_stop_, poster, sent, posted, dtor, missed>>

-----------------------------------------------------------------------------
(* AsioIOServicePool::Stop() joined the IO threads and main returned. *)
StopPosters == /\ dtor = "up"
               /\ \A p \in Posters : poster[p] = "idle"
               /\ dtor' = "flag"
               /\ UNCHANGED <<msg_que_, mutex_, b_stop_, worker, poster, sent,
                              posted, handled, missed>>

(* ~LogicSystem: b_stop_ = true; *)
DtorFlag == /\ dtor = "flag"
            /\ b_stop_' = TRUE
            /\ dtor' = "notify"
            /\ UNCHANGED <<msg_que_, mutex_, worker, poster, sent, posted, handled, missed>>

(* Mutant of DtorNotify: nobody is notified. *)
DtorNotifyNobody == /\ dtor = "notify"
                    /\ missed' = (worker = "block")
                    /\ dtor' = "join"
                    /\ UNCHANGED <<msg_que_, mutex_, b_stop_, worker, poster,
                                   sent, posted, handled>>

(* ~LogicSystem: consume_.notify_one(); *)
DtorNotify == /\ dtor = "notify"
              /\ WakeWorker
              /\ missed' = (worker = "block")
              /\ dtor' = "join"
              /\ UNCHANGED <<msg_que_, mutex_, b_stop_, poster, sent, posted, handled>>

(* ~LogicSystem: worker_thread_.join(); *)
DtorJoin == /\ dtor = "join"
            /\ worker = "exited"
            /\ dtor' = "gone"
            /\ UNCHANGED <<msg_que_, mutex_, b_stop_, worker, poster, sent,
                           posted, handled, missed>>

WorkerStep == EvalPredicate \/ Sleep \/ Pass \/ Deal \/ Drain
DtorStep == DtorFlag \/ DtorNotify \/ DtorJoin

Next == \/ \E p \in Posters : PostMsgToQue(p) \/ Notify(p)
        \/ WorkerStep
        \/ SpuriousWake
        \/ StopPosters
        \/ DtorStep
        \/ dtor = "gone" /\ UNCHANGED vars

(* The worker thread, a poster past its unlock and a destructor that has   *)
(* started keep running; nothing is assumed of new posts.                  *)
Fairness == /\ WF_vars(WorkerStep)
            /\ \A p \in Posters : WF_vars(Notify(p))
            /\ WF_vars(DtorStep)

SafeSpec == Init /\ [][Next]_vars
Spec == SafeSpec /\ Fairness

-----------------------------------------------------------------------------
TypeOK == /\ msg_que_ \in Seq(Messages)
          /\ mutex_ \in {Worker, Nobody}
          /\ b_stop_ \in BOOLEAN
          /\ worker \in {"enter", "block", "wait", "pass", "deal", "drain", "exited"}
          /\ poster \in [Posters -> {"idle", "notify"}]
          /\ sent \in [Posters -> 0..MaxPosts]
          /\ posted \in Seq(Messages)
          /\ handled \in Seq(Messages)
          /\ dtor \in {"up", "flag", "notify", "join", "gone"}
          /\ missed \in BOOLEAN

(* Messages are handled in the order in which they were queued, each once, *)
(* by the normal path and by the drain of a stopped system alike.          *)
HandledInOrder == handled \o msg_que_ = posted

(* Notifying only the post that finds the queue empty loses no wakeup:     *)
(* when the worker sleeps beside a non-empty queue, a poster is about to   *)
(* notify it.                                                              *)
NoLostWakeup ==
    worker = "wait" /\ msg_que_ # <<>> => \E p \in Posters : poster[p] = "notify"

(* The only way the destructor can find the worker asleep for good is that *)
(* its flag and its notify both fell between the worker's false predicate  *)
(* and its sleep, with nothing left in the queue.                          *)
JoinBlocksOnlyIfMissed ==
    dtor = "join" /\ worker = "wait" => missed /\ msg_que_ = <<>>

(* A destructor that came back left nothing behind: every posted message   *)
(* was handled.                                                            *)
DrainedAtExit == dtor = "gone" => handled = posted

(* Every posted message is handled, whether or not the system is being     *)
(* destroyed meanwhile.                                                    *)
EveryMessageHandled ==
    \A m \in Messages : m \in Elements(posted) ~> m \in Elements(handled)

(* The destructor comes back, unless its notify was missed. *)
DtorReturns == dtor = "flag" ~> (dtor = "gone" \/ missed)
=============================================================================
