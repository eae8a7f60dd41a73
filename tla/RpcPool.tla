------------------------------ MODULE RpcPool ------------------------------
(***************************************************************************)
(* RPConPool<ServiceType> (common/include/RPConPool.h), the pool of gRPC   *)
(* stubs, driven by its two users StatusGrpcClient::GetChatServer and      *)
(* VerifyGrpcClient::GetVerifyCode: take a stub, make the RPC, give the    *)
(* stub back, whatever the RPC's status was.                               *)
(*                                                                         *)
(* Every access to connections_ and b_stop_ is made under mutex_ (Close()  *)
(* is called by the destructor only, under its lock_guard), so a critical  *)
(* section is one step.  The wait set of cond_ is the set of callers whose *)
(* pc is "wait"; a caller that was notified, or that wakes spuriously, is  *)
(* back at "call", where it evaluates the predicate again.                 *)
(***************************************************************************)
EXTENDS Naturals, Sequences, FiniteSets

CONSTANTS Callers,    \* threads that call the gRPC clients
          PoolSize    \* stubs the constructor creates (5 in both clients)

ASSUME CallersFinite == IsFiniteSet(Callers)
ASSUME PoolSizePositive == PoolSize \in Nat \ {0}

VARIABLES b_stop_,      \* the pool is closed
          connections_, \* queue of idle stubs
          pc,           \* where each caller is
          stub,         \* the unique_ptr each caller holds
          aborted       \* the process died of a null stub

vars == <<b_stop_, connections_, pc, stub, aborted>>

Stubs == 1..PoolSize
NoStub == 0

Waiting == {t \in Callers : pc[t] = "wait"}
AtCall  == {t \in Callers : pc[t] = "call"}
InPool  == {connections_[i] : i \in 1..Len(connections_)}

-----------------------------------------------------------------------------
(* The constructor: one stub per slot. *)
Init == /\ b_stop_ = FALSE
        /\ connections_ = [i \in Stubs |-> i]
        /\ pc = [t \in Callers |-> "idle"]
        /\ stub = [t \in Callers |-> NoStub]
        /\ aborted = FALSE

(* A client method is called and enters getConnection. *)
Start(t) == /\ ~aborted
            /\ pc[t] = "idle"
            /\ pc' = [pc EXCEPT ![t] = "call"]
            /\ UNCHANGED <<b_stop_, connections_, stub, aborted>>

(* getConnection, predicate true on an open pool: pop the front stub. *)
TakeStub(t) == /\ ~aborted
               /\ pc[t] = "call"
               /\ ~b_stop_
               /\ connections_ # <<>>
               /\ stub' = [stub EXCEPT ![t] = Head(connections_)]
               /\ connections_' = Tail(connections_)
               /\ pc' = [pc EXCEPT ![t] = "rpc"]
               /\ UNCHANGED <<b_stop_, aborted>>

(* getConnection, predicate false: sleep on cond_. *)
Wait(t) == /\ ~aborted
           /\ pc[t] = "call"
           /\ ~b_stop_
           /\ connections_ = <<>>
           /\ pc' = [pc EXCEPT ![t] = "wait"]
           /\ UNCHANGED <<b_stop_, connections_, stub, aborted>>

(* getConnection on a closed pool returns nullptr, which both clients use  *)
(* without a test: the process dies.                                       *)
ReturnNull(t) == /\ ~aborted
                 /\ pc[t] = "call"
                 /\ b_stop_
                 /\ aborted' = TRUE
                 /\ UNCHANGED <<b_stop_, connections_, pc, stub>>

(* The RPC ends, in success or in failure; both branches of the clients    *)
(* give the stub back next.  It need not end: no deadline is set on the    *)
(* ClientContext.                                                          *)
Rpc(t) == /\ ~aborted
          /\ pc[t] = "rpc"
          /\ pc' = [pc EXCEPT ![t] = "back"]
          /\ UNCHANGED <<b_stop_, connections_, stub, aborted>>

(* Mutant of NotifyOne: nobody is woken. *)
NotifyNobody(nextPc) == pc' = nextPc

(* cond_.notify_one(): one waiter, any of them, goes back to its predicate.*)
(* nextPc is the program counters after the notifier's own move.           *)
NotifyOne(nextPc) ==
    IF Waiting = {} THEN pc' = nextPc
    ELSE \E w \in Waiting : pc' = [nextPc EXCEPT ![w] = "call"]

(* Mutant of ReturnConnection: notify only when the queue was empty. *)
ReturnConnectionNotifyFirst(t) ==
    /\ ~aborted /\ pc[t] = "back"
    /\ stub' = [stub EXCEPT ![t] = NoStub]
    /\ IF b_stop_
       THEN /\ pc' = [pc EXCEPT ![t] = "idle"]
            /\ UNCHANGED connections_
       ELSE /\ connections_' = Append(connections_, stub[t])
            /\ IF connections_ = <<>>
               THEN NotifyOne([pc EXCEPT ![t] = "idle"])
               ELSE pc' = [pc EXCEPT ![t] = "idle"]
    /\ UNCHANGED <<b_stop_, aborted>>

(* Mutant of ReturnConnection: the stub is put back and kept. *)
ReturnConnectionKeep(t) ==
    /\ ~aborted /\ pc[t] = "back"
    /\ UNCHANGED <<stub, b_stop_, aborted>>
    /\ connections_' = IF b_stop_ THEN connections_
                       ELSE Append(connections_, stub[t])
    /\ pc' = [pc EXCEPT ![t] = "idle"]

(* Mutant of ReturnConnection: the stub of a failed RPC is not returned. *)
ReturnConnectionOrDrop(t) ==
    /\ ~aborted /\ pc[t] = "back"
    /\ stub' = [stub EXCEPT ![t] = NoStub]
    /\ pc' = [pc EXCEPT ![t] = "idle"]
    /\ connections_' \in {connections_, Append(connections_, stub[t])}
    /\ UNCHANGED <<b_stop_, aborted>>

(* returnConnection: a closed pool destroys the stub, an open one queues it*)
(* and wakes one waiter.                                                   *)
ReturnConnection(t) ==
    /\ ~aborted /\ pc[t] = "back"
    /\ stub' = [stub EXCEPT ![t] = NoStub]
    /\ \/ /\ b_stop_
          /\ pc' = [pc EXCEPT ![t] = "idle"]
          /\ UNCHANGED connections_
       \/ /\ ~b_stop_
          /\ connections_' = Append(connections_, stub[t])
          /\ NotifyOne([pc EXCEPT ![t] = "idle"])
    /\ UNCHANGED <<b_stop_, aborted>>

(* A condition variable may wake a thread for no reason. *)
SpuriousWake(t) == /\ ~aborted
                   /\ pc[t] = "wait"
                   /\ pc' = [pc EXCEPT ![t] = "call"]
                   /\ UNCHANGED <<b_stop_, connections_, stub, aborted>>

(* ~RPConPool: Close() sets the flag and notifies all, then the queue is   *)
(* emptied, all under mutex_.                                              *)
Destroy == /\ ~aborted
           /\ ~b_stop_
           /\ b_stop_' = TRUE
           /\ connections_' = <<>>
           /\ pc' = [t \in Callers |-> IF t \in Waiting THEN "call" ELSE pc[t]]
           /\ UNCHANGED <<stub, aborted>>

Step(t) == TakeStub(t) \/ Wait(t) \/ ReturnNull(t) \/ ReturnConnection(t)

Next == \/ \E t \in Callers : Start(t) \/ Step(t) \/ Rpc(t) \/ SpuriousWake(t)
        \/ Destroy
        \/ aborted /\ UNCHANGED vars

(* A thread that can run does run; nothing is assumed of the server that   *)
(* answers an RPC.                                                         *)
Fairness == \A t \in Callers : WF_vars(Step(t))

SafeSpec == Init /\ [][Next]_vars
Spec == SafeSpec /\ Fairness

-----------------------------------------------------------------------------
TypeOK == /\ b_stop_ \in BOOLEAN
          /\ aborted \in BOOLEAN
          /\ connections_ \in Seq(Stubs)
          /\ pc \in [Callers -> {"idle", "call", "wait", "rpc", "back"}]
          /\ stub \in [Callers -> Stubs \cup {NoStub}]

(* A stub is in one place only: not twice in the queue, not in the queue   *)
(* and in a caller's hands, not in the hands of two callers.  (A stub used *)
(* by two threads at once is what the pool exists to prevent.)             *)
Unshared ==
    /\ \A i, j \in 1..Len(connections_) : connections_[i] = connections_[j] => i = j
    /\ \A t \in Callers : stub[t] \notin InPool
    /\ \A t, u \in Callers : stub[t] = stub[u] /\ stub[t] # NoStub => t = u

(* Until the pool is destroyed no stub is lost on any path through the two *)
(* clients: each is queued or in the hands of a caller between its         *)
(* getConnection and its returnConnection.                                 *)
Conserved ==
    ~b_stop_ => \A s \in Stubs : s \in InPool \/ \E t \in Callers : stub[t] = s

(* A caller holds a stub exactly while it makes its RPC or returns. *)
HolderKnown == \A t \in Callers : (stub[t] # NoStub) <=> pc[t] \in {"rpc", "back"}

StubOwnership == Unshared /\ Conserved /\ HolderKnown

(* No lost wakeup: while somebody sleeps on cond_, every queued stub has a *)
(* thread on its way to take it (returnConnection notifies one waiter per  *)
(* stub, not only when the queue was empty); nobody sleeps on a pool that  *)
(* was closed.                                                             *)
NoLostWakeup ==
    /\ Waiting # {} => Cardinality(AtCall) >= Len(connections_)
    /\ b_stop_ => Waiting = {}

(* No RPC hangs.  (A hypothesis on the other servers, see Rpc.) *)
RpcsEnd == \A t \in Callers : []<>(pc[t] # "rpc")

(* Once no new call arrives and the pool is not destroyed, every call in   *)
(* progress comes back if no RPC hangs: a caller that waits for a stub     *)
(* waits for other callers' RPCs only.  (Not without the first condition:  *)
(* notify_one and std::mutex let a newcomer overtake a woken waiter for    *)
(* ever.)                                                                  *)
CallsReturn ==
    (RpcsEnd /\ <>[][~(\E t \in Callers : Start(t)) /\ ~b_stop_']_vars)
        => \A t \in Callers : pc[t] # "idle" ~> (pc[t] = "idle" \/ b_stop_)

-----------------------------------------------------------------------------
(* The promise this pool implements. *)
Abstract == INSTANCE AbstractPool WITH
    Users <- Callers, Conns <- Stubs, NoConn <- NoStub, Leaky <- FALSE,
    free <- InPool, owner <- stub, stopped <- b_stop_

(* The stub pool implements the abstract pool: every step is an abstract   *)
(* acquire, release, drop after the stop, stop, or nothing.                *)
ImplementsPool == Abstract!Spec
=============================================================================
