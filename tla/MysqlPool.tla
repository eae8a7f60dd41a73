----------------------------- MODULE MysqlPool -----------------------------
(***************************************************************************)
(* MySqlPool and the four statements MysqlDao runs on it                   *)
(* (common/src/MysqlDao.cpp), in GateServer.                               *)
(*                                                                         *)
(*  - Unlike the other pools, the predicate of getConnection is FALSE on a *)
(*    stopped pool.                                                        *)
(*  - Close() sets b_stop_ and notifies without mutex_, which is therefore *)
(*    explicit: "block" is a caller whose predicate was false and which is *)
(*    not yet asleep, "pass" one whose predicate was true.                 *)
(*  - Every path of the statements gives the connection back, broken or    *)
(*    not, except CheckEmail's for a name without a row.                   *)
(*  - A detached thread checks the queued connections every 60 seconds     *)
(*    and reconnects the broken ones; a reconnect that fails throws out of *)
(*    the thread.  The thread exists only if every connect succeeded.      *)
(***************************************************************************)
EXTENDS Naturals, Sequences, FiniteSets

CONSTANTS Callers,      \* IO threads of GateServer
          PoolSize,     \* connections the constructor opens (5)
          MaxOutages    \* bound: how often the database goes down

ASSUME CallersFinite == IsFiniteSet(Callers) /\ "nobody" \notin Callers
ASSUME PoolSizePositive == PoolSize \in Nat \ {0}
ASSUME MaxOutagesNat == MaxOutages \in Nat

VARIABLES b_stop_, pool_, mutex_,
          pc, con,      \* each caller's position and connection
          broken,       \* connections the server has dropped
          lost,         \* connections destroyed outside the pool
          misses,       \* history: CheckEmail calls that found no row
          dbUp, outages,\* the database
          chk,          \* the check thread
          life          \* of the process: Close() and its end

vars == <<b_stop_, pool_, mutex_, pc, con, broken, lost, misses, dbUp,
          outages, chk, life>>

Conns == 1..PoolSize
NoConn == 0
Nobody == "nobody"

InPool  == {pool_[i] : i \in 1..Len(pool_)}
Waiting == {t \in Callers : pc[t] = "wait"}
Coming  == {t \in Callers : pc[t] \in {"call", "pass"}}
Alive   == life \notin {"terminated", "gone"}

(* The constructor.  A connect that throws ends it: the connections opened *)
(* so far stay, the check thread is not started.                           *)
Init == /\ b_stop_ = FALSE
        /\ \E n \in 0..PoolSize :
              /\ pool_ = [i \in 1..n |-> i]
              /\ lost = (n + 1)..PoolSize
              /\ chk = IF n = PoolSize THEN "first" ELSE "none"
        /\ mutex_ = Nobody
        /\ pc = [t \in Callers |-> "idle"]
        /\ con = [t \in Callers |-> NoConn]
        /\ broken = {}
        /\ misses = 0
        /\ dbUp = TRUE
        /\ outages = 0
        /\ life = "up"

-----------------------------------------------------------------------------
(* getConnection, called by RegUser, CheckEmail, UpdatePwd or CheckPwd. *)

Start(t) == /\ Alive
            /\ pc[t] = "idle"
            /\ pc' = [pc EXCEPT ![t] = "call"]
            /\ UNCHANGED <<b_stop_, pool_, mutex_, con, broken, lost, misses,
                           dbUp, outages, chk, life>>

(* Mutant of Predicate: true on a stopped pool, as in the other pools. *)
PredicateStopped == b_stop_ \/ pool_ # <<>>

(* The predicate of cond_.wait. *)
Predicate == ~b_stop_ /\ pool_ # <<>>

EvalPredicate(t) ==
    /\ Alive
    /\ pc[t] = "call"
    /\ mutex_ = Nobody
    /\ mutex_' = t
    /\ pc' = [pc EXCEPT ![t] = IF Predicate THEN "pass" ELSE "block"]
    /\ UNCHANGED <<b_stop_, pool_, con, broken, lost, misses, dbUp,
                   outages, chk, life>>

Sleep(t) == /\ Alive
            /\ pc[t] = "block"
            /\ mutex_' = Nobody
            /\ pc' = [pc EXCEPT ![t] = "wait"]
            /\ UNCHANGED <<b_stop_, pool_, con, broken, lost, misses, dbUp,
                           outages, chk, life>>

SpuriousWake(t) == /\ Alive
                   /\ pc[t] = "wait"
                   /\ pc' = [pc EXCEPT ![t] = "call"]
                   /\ UNCHANGED <<b_stop_, pool_, mutex_, con, broken, lost,
                                  misses, dbUp, outages, chk, life>>

(* Mutant of Take: b_stop_ is not read again. *)
TakeBlindly(t) ==
    /\ Alive
    /\ pc[t] = "pass"
    /\ mutex_' = Nobody
    /\ con' = [con EXCEPT ![t] = Head(pool_)]
    /\ pool_' = Tail(pool_)
    /\ pc' = [pc EXCEPT ![t] = "run"]
    /\ UNCHANGED <<b_stop_, broken, lost, misses, dbUp, outages, chk, life>>

(* b_stop_ is read again: nullptr makes the statement fail, otherwise the  *)
(* front connection is taken.                                              *)
Take(t) ==
    /\ Alive
    /\ pc[t] = "pass"
    /\ mutex_' = Nobody
    /\ \/ /\ b_stop_
          /\ pc' = [pc EXCEPT ![t] = "idle"]
          /\ UNCHANGED <<pool_, con>>
       \/ /\ ~b_stop_
          /\ con' = [con EXCEPT ![t] = Head(pool_)]
          /\ pool_' = Tail(pool_)
          /\ pc' = [pc EXCEPT ![t] = "run"]
    /\ UNCHANGED <<b_stop_, broken, lost, misses, dbUp, outages, chk, life>>

-----------------------------------------------------------------------------
(* The statement.  It throws on a broken connection and may throw anyway;  *)
(* every outcome but one leads to returnConnection.                        *)
Run(t) == /\ Alive
          /\ pc[t] = "run"
          /\ pc' = [pc EXCEPT ![t] = "back"]
          /\ UNCHANGED <<b_stop_, pool_, mutex_, con, broken, lost, misses,
                         dbUp, outages, chk, life>>

(* The statement was CheckEmail, and falls out of its while loop without a *)
(* row: the unique_ptr is destroyed with the function's frame.             *)
Miss(t) == /\ Alive
           /\ pc[t] = "run"
           /\ con[t] \notin broken
           /\ lost' = lost \cup {con[t]}
           /\ misses' = misses + 1
           /\ con' = [con EXCEPT ![t] = NoConn]
           /\ pc' = [pc EXCEPT ![t] = "idle"]
           /\ UNCHANGED <<b_stop_, pool_, mutex_, broken, dbUp, outages,
                          chk, life>>

NotifyOne(nextPc) ==
    IF Waiting = {} THEN pc' = nextPc
    ELSE \E w \in Waiting : pc' = [nextPc EXCEPT ![w] = "call"]

(* Mutant of ReturnConnection: only a live connection goes back. *)
ReturnConnectionLive(t) ==
    /\ Alive
    /\ pc[t] = "back"
    /\ mutex_ = Nobody
    /\ con' = [con EXCEPT ![t] = NoConn]
    /\ IF b_stop_ \/ con[t] \in broken
       THEN /\ lost' = lost \cup {con[t]}
            /\ pc' = [pc EXCEPT ![t] = "idle"]
            /\ UNCHANGED pool_
       ELSE /\ pool_' = Append(pool_, con[t])
            /\ NotifyOne([pc EXCEPT ![t] = "idle"])
            /\ UNCHANGED lost
    /\ UNCHANGED <<b_stop_, mutex_, broken, misses, dbUp, outages, chk, life>>

(* Mutant of ReturnConnection: no notify. *)
ReturnConnectionSilent(t) ==
    /\ Alive
    /\ pc[t] = "back"
    /\ mutex_ = Nobody
    /\ ~b_stop_
    /\ con' = [con EXCEPT ![t] = NoConn]
    /\ pool_' = Append(pool_, con[t])
    /\ pc' = [pc EXCEPT ![t] = "idle"]
    /\ UNCHANGED <<b_stop_, lost, mutex_, broken, misses, dbUp, outages, chk, life>>

(* returnConnection: a stopped pool destroys the connection.  RegUser,     *)
(* CheckEmail and UpdatePwd call it while their PreparedStatement still    *)
(* exists: its destructor then talks on a connection that is back in the   *)
(* pool and maybe in use, which can break it.                              *)
ReturnConnection(t) ==
    /\ Alive
    /\ pc[t] = "back"
    /\ mutex_ = Nobody
    /\ con' = [con EXCEPT ![t] = NoConn]
    /\ \/ /\ b_stop_
          /\ lost' = lost \cup {con[t]}
          /\ pc' = [pc EXCEPT ![t] = "idle"]
          /\ UNCHANGED <<pool_, broken>>
       \/ /\ ~b_stop_
          /\ pool_' = Append(pool_, con[t])
          /\ NotifyOne([pc EXCEPT ![t] = "idle"])
          /\ broken' \in {broken, broken \cup {con[t]}}
          /\ UNCHANGED lost
    /\ UNCHANGED <<b_stop_, mutex_, misses, dbUp, outages, chk, life>>

-----------------------------------------------------------------------------
(* The check thread: while (!b_stop_) { checkConnection(); sleep 60 s }.   *)
(* checkConnection holds mutex_ from end to end and rotates the whole      *)
(* queue, so it is one step.  In the first round every connection was used *)
(* less than 5 seconds ago and is skipped; later none was.                 *)

CheckUnchanged == UNCHANGED <<b_stop_, pool_, pc, con, lost, misses, dbUp, outages>>

CheckFirst == /\ Alive
              /\ chk = "first"
              /\ mutex_ = Nobody
              /\ chk' = "sleep"
              /\ UNCHANGED <<mutex_, broken, life>>
              /\ CheckUnchanged

CheckWake == /\ Alive
             /\ chk = "sleep"
             /\ chk' = IF b_stop_ THEN "exited" ELSE "check"
             /\ UNCHANGED <<mutex_, broken, life>>
             /\ CheckUnchanged

(* Mutant of CheckConnection: broken connections are only logged. *)
CheckConnectionLog == /\ Alive
                      /\ chk = "check"
                      /\ mutex_ = Nobody
                      /\ chk' = "sleep"
                      /\ UNCHANGED <<mutex_, broken, life>>
                      /\ CheckUnchanged

(* SELECT 1 on each queued connection; a broken one is replaced, and when  *)
(* the database cannot be reached the exception ends the process.          *)
CheckConnection ==
    /\ Alive
    /\ chk = "check"
    /\ mutex_ = Nobody
    /\ \/ /\ dbUp \/ InPool \cap broken = {}
          /\ broken' = broken \ InPool
          /\ UNCHANGED life
       \/ /\ ~dbUp /\ InPool \cap broken # {}
          /\ life' = "terminated"
          /\ UNCHANGED broken
    /\ chk' = "sleep"
    /\ UNCHANGED mutex_
    /\ CheckUnchanged

(* The database goes down, dropping every connection, and comes back. *)
DbDown == /\ Alive
          /\ dbUp
          /\ outages < MaxOutages
          /\ outages' = outages + 1
          /\ dbUp' = FALSE
          /\ broken' = Conns \ lost
          /\ UNCHANGED <<b_stop_, pool_, mutex_, pc, con, lost, misses, chk, life>>

DbBack == /\ Alive
          /\ ~dbUp
          /\ dbUp' = TRUE
          /\ UNCHANGED <<b_stop_, pool_, mutex_, pc, con, broken, lost,
                         misses, outages, chk, life>>

-----------------------------------------------------------------------------
(* ~MysqlDao at process exit: Close(), then ~MySqlPool. *)

CloseUnchanged == UNCHANGED <<mutex_, con, broken, misses, dbUp, outages, chk>>

CloseFlag == /\ life = "up"
             /\ b_stop_' = TRUE
             /\ life' = "notify"
             /\ UNCHANGED <<pool_, pc, lost>>
             /\ CloseUnchanged

CloseNotify == /\ life = "notify"
               /\ pc' = [t \in Callers |-> IF t \in Waiting THEN "call" ELSE pc[t]]
               /\ life' = "destroy"
               /\ UNCHANGED <<b_stop_, pool_, lost>>
               /\ CloseUnchanged

(* ~MySqlPool empties the queue under mutex_; the pool is gone. *)
Destroy == /\ life = "destroy"
           /\ mutex_ = Nobody
           /\ lost' = lost \cup InPool
           /\ pool_' = <<>>
           /\ life' = "gone"
           /\ UNCHANGED <<b_stop_, pc>>
           /\ CloseUnchanged

CallerStep(t) == EvalPredicate(t) \/ Sleep(t) \/ Take(t) \/ Run(t) \/ Miss(t)
                 \/ ReturnConnection(t)
CheckStep == CheckFirst \/ CheckWake \/ CheckConnection
CloseStep == CloseNotify \/ Destroy

Next == \/ \E t \in Callers : Start(t) \/ CallerStep(t) \/ SpuriousWake(t)
        \/ CheckStep
        \/ DbDown \/ DbBack
        \/ CloseFlag \/ CloseStep
        \/ ~Alive /\ UNCHANGED vars

(* Threads run and statements end. *)
Fairness == /\ \A t \in Callers : WF_vars(CallerStep(t))
            /\ WF_vars(CheckStep)
            /\ WF_vars(CloseStep)

SafeSpec == Init /\ [][Next]_vars
Spec == SafeSpec /\ Fairness

-----------------------------------------------------------------------------
TypeOK ==
    /\ b_stop_ \in BOOLEAN /\ dbUp \in BOOLEAN
    /\ pool_ \in Seq(Conns)
    /\ mutex_ \in Callers \cup {Nobody}
    /\ pc \in [Callers -> {"idle", "call", "block", "wait", "pass", "run", "back"}]
    /\ con \in [Callers -> Conns \cup {NoConn}]
    /\ broken \subseteq Conns /\ lost \subseteq Conns
    /\ misses \in Nat /\ outages \in 0..MaxOutages
    /\ chk \in {"none", "first", "sleep", "check", "exited"}
    /\ life \in {"up", "notify", "destroy", "gone", "terminated"}

(* A connection is queued, with one caller, or gone; and while the pool    *)
(* runs, those gone are the ones that never opened and one for each        *)
(* CheckEmail that found no row.                                           *)
ConnAccounting ==
    /\ \A i, j \in 1..Len(pool_) : pool_[i] = pool_[j] => i = j
    /\ \A t, u \in Callers : con[t] = con[u] /\ con[t] # NoConn => t = u
    /\ \A t \in Callers : con[t] \notin InPool \cup lost
    /\ InPool \cap lost = {}
    /\ Conns = InPool \cup lost \cup ({con[t] : t \in Callers} \ {NoConn})
    /\ chk # "none" /\ ~b_stop_ => Cardinality(lost) = misses

(* While the pool runs, a queued connection beside a sleeping caller has a *)
(* caller coming for it.                                                   *)
NoLostWakeup ==
    Waiting # {} /\ ~b_stop_ => Cardinality(Coming) >= Len(pool_)

(* The predicate that is false on a stopped pool strands its callers: once *)
(* b_stop_ is set, a caller in getConnection that has not passed its       *)
(* predicate never passes it, Close()'s notify_all notwithstanding.        *)
StoppedCallersStay ==
    [][\A t \in Callers : b_stop_ /\ pc[t] \in {"call", "block", "wait"}
          => pc'[t] \in {"call", "block", "wait"}]_vars

(* From some point on no statement starts and no sleeper wakes by itself. *)
EventuallyQuiet == <>[][~(\E t \in Callers : Start(t) \/ SpuriousWake(t))]_vars

(* Statements come back while fewer CheckEmail calls than connections have *)
(* found no row, once no new one starts and unless the process ends.       *)
StatementsReturn ==
    /\ EventuallyQuiet
    /\ [](chk # "none" /\ misses < PoolSize)
    => \A t \in Callers : pc[t] # "idle" ~> (pc[t] = "idle" \/ b_stop_ \/ ~Alive)

(* After the last outage every queued connection is replaced, if the check *)
(* thread exists and the process lives.                                    *)
ConnectionsHeal ==
    /\ EventuallyQuiet
    /\ <>[](dbUp /\ Alive /\ ~b_stop_ /\ chk # "none")
    => <>[](InPool \cap broken = {})

-----------------------------------------------------------------------------
Abstract == INSTANCE AbstractPool WITH
    Users <- Callers, Conns <- Conns, NoConn <- NoConn, Leaky <- TRUE,
    free <- InPool, owner <- con, stopped <- b_stop_

(* The pool implements the abstract one, checks, outages and the unlocked  *)
(* Close() included: nobody is handed a connection after b_stop_ is set.   *)
ImplementsPool == Abstract!Spec
=============================================================================
