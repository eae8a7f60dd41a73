----------------------------- MODULE RedisPool -----------------------------
(***************************************************************************)
(* RedisConPool and the way RedisMgr and the two servers that use it drive *)
(* it (common/src/RedisMgr.cpp, StatusServer/src/main.cpp).                *)
(*                                                                         *)
(*  - Every RedisMgr command takes a connection and returns without giving *)
(*    it back: no RedisMgr method calls returnConnection.                  *)
(*  - Close() sets b_stop_ and notifies without holding mutex_, so mutex_  *)
(*    is explicit here: a caller whose predicate was false owns it         *)
(*    ("block") until cond_ puts it to sleep ("wait"), and Close() can run *)
(*    in between.                                                          *)
(*  - A checker thread wakes every second and, each CheckPeriod-th time,   *)
(*    rotates the queue under mutex_, one PING per connection.             *)
(*  - GetInstance() returns a shared_ptr by value: a caller keeps RedisMgr *)
(*    alive for as long as its command lasts.  GateServer closes the pool  *)
(*    in ~RedisMgr, when the process exits and the last reference goes;    *)
(*    StatusServer first waits for its handlers (gRPC Shutdown and Wait),  *)
(*    calls Close() in main, and ~RedisMgr calls it again.                 *)
(***************************************************************************)
EXTENDS Naturals, Sequences, FiniteSets

CONSTANTS Callers,      \* threads that issue Redis commands
          PoolSize,     \* connections the constructor tries to open (5)
          MinConnected, \* how many of them succeed at least
          CheckPeriod   \* seconds between two PING rounds (60)

ASSUME CallersFinite == IsFiniteSet(Callers) /\ {"nobody", "checker"} \cap Callers = {}
ASSUME PoolSizePositive == PoolSize \in Nat \ {0}
ASSUME MinConnectedInRange == MinConnected \in 0..PoolSize
ASSUME CheckPeriodPositive == CheckPeriod \in Nat \ {0}

VARIABLES host,         \* the program the pool runs in
          b_stop_, connections_, mutex_, counter_,
          pc,           \* where each caller is
          conn,         \* the connection each caller holds
          leaked,       \* connections held by nobody and not in the queue
          done,         \* commands completed, by any caller
          chk,          \* the checker: where it is, connection, rounds left
          server,       \* life of the process
          missed        \* callers in their blind window when Close notified

vars == <<host, b_stop_, connections_, mutex_, counter_, pc, conn, leaked,
          done, chk, server, missed>>

Conns == 1..PoolSize
NoConn == 0
Checker == "checker"
Nobody == "nobody"

Waiting == {t \in Callers : pc[t] = "wait"}
InPool  == {connections_[i] : i \in 1..Len(connections_)}

(* The constructor: connections that fail are skipped, the checker starts. *)
Init == /\ host \in {"GateServer", "StatusServer"}
        /\ b_stop_ = FALSE
        /\ \E n \in MinConnected..PoolSize :
              /\ connections_ = [i \in 1..n |-> i]
              /\ leaked = (n + 1)..PoolSize
        /\ mutex_ = Nobody
        /\ counter_ = 0
        /\ pc = [t \in Callers |-> "idle"]
        /\ conn = [t \in Callers |-> NoConn]
        /\ done = 0
        /\ chk = [at |-> "loop", conn |-> NoConn, left |-> 0]
        /\ server = "up"
        /\ missed = {}

-----------------------------------------------------------------------------
(* RedisMgr commands. *)

(* A handler issues a command and enters getConnection.  GateServer's IO   *)
(* threads go on doing so while the process exits.  Once the last          *)
(* reference has gone GetInstance() copies a destroyed pointer, which is   *)
(* undefined: while the pool is being closed the call may find it still in *)
(* place, or end the process (LateCommandCrashes).                         *)
Start(t) == /\ server = "up" \/ (host = "GateServer" /\ server # "closed")
            /\ pc[t] = "idle"
            /\ pc' = [pc EXCEPT ![t] = "call"]
            /\ UNCHANGED <<host, b_stop_, connections_, mutex_, counter_, conn,
                           leaked, done, chk, server, missed>>

(* getConnection: lock and evaluate the predicate of cond_.wait. *)
EvalPredicate(t) ==
    /\ pc[t] = "call"
    /\ mutex_ = Nobody
    /\ mutex_' = t
    /\ pc' = [pc EXCEPT ![t] = IF b_stop_ \/ connections_ # <<>>
                               THEN "pass" ELSE "block"]
    /\ UNCHANGED <<host, b_stop_, connections_, counter_, conn, leaked, done,
                   chk, server, missed>>

(* The predicate was false: cond_ releases the mutex and sleeps. *)
Sleep(t) == /\ pc[t] = "block"
            /\ mutex_' = Nobody
            /\ pc' = [pc EXCEPT ![t] = "wait"]
            /\ UNCHANGED <<host, b_stop_, connections_, counter_, conn, leaked,
                           done, chk, server, missed>>

SpuriousWake(t) == /\ pc[t] = "wait"
                   /\ pc' = [pc EXCEPT ![t] = "call"]
                   /\ UNCHANGED <<host, b_stop_, connections_, mutex_, counter_,
                                  conn, leaked, done, chk, server, missed>>

(* Mutant of Take: b_stop_ is not read again after the wait. *)
TakeBlindly(t) ==
    /\ pc[t] = "pass"
    /\ mutex_' = Nobody
    /\ connections_ # <<>>
    /\ conn' = [conn EXCEPT ![t] = Head(connections_)]
    /\ connections_' = Tail(connections_)
    /\ pc' = [pc EXCEPT ![t] = "cmd"]
    /\ UNCHANGED <<host, b_stop_, counter_, leaked, done, chk, server, missed>>

(* Mutant of Take: the front is copied and not popped. *)
TakeNoPop(t) ==
    /\ pc[t] = "pass"
    /\ ~b_stop_
    /\ mutex_' = Nobody
    /\ conn' = [conn EXCEPT ![t] = Head(connections_)]
    /\ pc' = [pc EXCEPT ![t] = "cmd"]
    /\ UNCHANGED <<host, b_stop_, connections_, counter_, leaked, done, chk,
                   server, missed>>

(* The predicate was true: b_stop_ is read again; nullptr makes the command*)
(* return false, otherwise the front connection is popped.                 *)
Take(t) ==
    /\ pc[t] = "pass"
    /\ mutex_' = Nobody
    /\ \/ /\ b_stop_
          /\ pc' = [pc EXCEPT ![t] = "idle"]
          /\ UNCHANGED <<connections_, conn>>
       \/ /\ ~b_stop_
          /\ conn' = [conn EXCEPT ![t] = Head(connections_)]
          /\ connections_' = Tail(connections_)
          /\ pc' = [pc EXCEPT ![t] = "cmd"]
    /\ UNCHANGED <<host, b_stop_, counter_, leaked, done, chk, server, missed>>

(* Mutant of Command: the connection goes back through returnConnection. *)
CommandReturning(t) ==
    /\ pc[t] = "cmd"
    /\ mutex_ = Nobody
    /\ done <= PoolSize
    /\ done' = done + 1
    /\ connections_' = Append(connections_, conn[t])
    /\ conn' = [conn EXCEPT ![t] = NoConn]
    /\ pc' = [pc EXCEPT ![t] = "idle"]
    /\ UNCHANGED <<host, b_stop_, mutex_, counter_, leaked, chk, server, missed>>

(* The command runs, succeeds or fails, and the method returns: on every   *)
(* path the redisContext pointer goes out of scope.                        *)
Command(t) ==
    /\ pc[t] = "cmd"
    /\ leaked' = leaked \cup {conn[t]}
    /\ conn' = [conn EXCEPT ![t] = NoConn]
    /\ done' = done + 1
    /\ pc' = [pc EXCEPT ![t] = "idle"]
    /\ UNCHANGED <<host, b_stop_, connections_, mutex_, counter_, chk, server,
                   missed>>

-----------------------------------------------------------------------------
(* The checker thread: while (!b_stop_) { ++counter_; ... sleep 1 s }. *)

CheckerUnchanged == UNCHANGED <<host, b_stop_, pc, conn, leaked, done, server, missed>>

(* Mutant of CheckerLoop: the loop does not test b_stop_. *)
CheckerLoopForever ==
    /\ chk.at = "loop"
    /\ counter_' = counter_ + 1
    /\ chk' = [chk EXCEPT !.at = IF counter_ + 1 >= CheckPeriod THEN "lock" ELSE "sleep"]
    /\ UNCHANGED <<connections_, mutex_>>
    /\ CheckerUnchanged

(* Loop head: leave when stopped, otherwise count and check when due. *)
CheckerLoop ==
    /\ chk.at = "loop"
    /\ \/ /\ b_stop_
          /\ chk' = [chk EXCEPT !.at = "exited"]
          /\ UNCHANGED counter_
       \/ /\ ~b_stop_
          /\ counter_' = counter_ + 1
          /\ chk' = [chk EXCEPT !.at = IF counter_ + 1 >= CheckPeriod
                                       THEN "lock" ELSE "sleep"]
    /\ UNCHANGED <<connections_, mutex_>>
    /\ CheckerUnchanged

CheckerSleep == /\ chk.at = "sleep"
                /\ chk' = [chk EXCEPT !.at = "loop"]
                /\ UNCHANGED <<connections_, mutex_, counter_>>
                /\ CheckerUnchanged

(* checkThread: lock; pool_size is read once; an already stopped pool is   *)
(* left alone (zero rounds).                                               *)
CheckerLock == /\ chk.at = "lock"
               /\ mutex_ = Nobody
               /\ mutex_' = Checker
               /\ chk' = [chk EXCEPT !.at = "iter",
                                     !.left = IF b_stop_ THEN 0 ELSE Len(connections_)]
               /\ UNCHANGED <<connections_, counter_>>
               /\ CheckerUnchanged

(* Loop head of checkThread: pop the next connection, or leave.  Leaving   *)
(* unlocks and resets counter_.                                            *)
CheckerIter ==
    /\ chk.at = "iter"
    /\ \/ /\ chk.left > 0 /\ ~b_stop_
          /\ chk' = [at |-> "ping", conn |-> Head(connections_), left |-> chk.left - 1]
          /\ connections_' = Tail(connections_)
          /\ UNCHANGED <<mutex_, counter_>>
       \/ /\ chk.left = 0 \/ b_stop_
          /\ chk' = [at |-> "sleep", conn |-> NoConn, left |-> 0]
          /\ mutex_' = Nobody
          /\ counter_' = 0
          /\ UNCHANGED connections_
    /\ CheckerUnchanged

(* PING; answered or not, the same connection goes to the back.  (hiredis  *)
(* is a C library: the catch branch that reconnects is never entered.)     *)
CheckerPing ==
    /\ chk.at = "ping"
    /\ connections_' = Append(connections_, chk.conn)
    /\ chk' = [chk EXCEPT !.at = "iter", !.conn = NoConn]
    /\ UNCHANGED <<mutex_, counter_>>
    /\ CheckerUnchanged

-----------------------------------------------------------------------------
(* The process and Close(). *)

ServerUnchanged == UNCHANGED <<host, connections_, mutex_, counter_, conn, leaked, done, chk>>

(* SIGINT/SIGTERM.  GateServer's main returns and statics are destroyed,   *)
(* in no particular order, while the IO threads still run; StatusServer    *)
(* stops accepting calls.                                                  *)
Signal == /\ server = "up"
          /\ server' = IF host = "GateServer" THEN "exiting" ELSE "draining"
          /\ UNCHANGED <<b_stop_, pc, missed>>
          /\ ServerUnchanged

(* gRPC Shutdown() and Wait() return when no handler is running; the last  *)
(* reference to GateServer's RedisMgr goes when instance_ has been         *)
(* destroyed and no command is in progress.                                *)
Drained == /\ server \in {"exiting", "draining"}
           /\ \A t \in Callers : pc[t] = "idle"
           /\ server' = "close"
           /\ UNCHANGED <<b_stop_, pc, missed>>
           /\ ServerUnchanged

(* Close(), first statement: no lock is taken. *)
CloseFlag == /\ server = "close"
             /\ ~b_stop_
             /\ b_stop_' = TRUE
             /\ server' = "notify"
             /\ UNCHANGED <<pc, missed>>
             /\ ServerUnchanged

(* Mutant of CloseNotify: one waiter only. *)
CloseNotifyOne == /\ server = "notify"
                  /\ missed' = {t \in Callers : pc[t] = "block"}
                  /\ IF Waiting = {} THEN pc' = pc
                     ELSE \E w \in Waiting : pc' = [pc EXCEPT ![w] = "call"]
                  /\ server' = "join"
                  /\ UNCHANGED b_stop_
                  /\ ServerUnchanged

(* Close(), notify_all: wakes the sleepers of this moment. *)
CloseNotify == /\ server = "notify"
               /\ missed' = {t \in Callers : pc[t] = "block"}
               /\ pc' = [t \in Callers |-> IF t \in Waiting THEN "call" ELSE pc[t]]
               /\ server' = "join"
               /\ UNCHANGED b_stop_
               /\ ServerUnchanged

(* Close(), join: the checker has left its loop.  In StatusServer ~RedisMgr*)
(* runs Close() a second time and joins a thread that is no longer         *)
(* joinable: std::system_error in a destructor ends the process.           *)
CloseJoin == /\ server = "join"
             /\ chk.at = "exited"
             /\ server' = IF host = "GateServer" THEN "closed" ELSE "aborted"
             /\ UNCHANGED <<b_stop_, pc, missed>>
             /\ ServerUnchanged

(* A command in an object whose destructor has begun. *)
LateCommandCrashes == /\ host = "GateServer"
                      /\ server \in {"close", "notify", "join", "closed"}
                      /\ \E t \in Callers : pc[t] # "idle"
                      /\ server' = "crashed"
                      /\ UNCHANGED <<b_stop_, pc, missed>>
                      /\ ServerUnchanged

CallerStep(t) == EvalPredicate(t) \/ Sleep(t) \/ Take(t)
CheckerStep == CheckerLoop \/ CheckerSleep \/ CheckerLock \/ CheckerIter
RedisStep == CheckerPing \/ \E t \in Callers : Command(t)
CloseStep == Drained \/ CloseFlag \/ CloseNotify \/ CloseJoin

Alive == server # "crashed"

Next == \/ /\ Alive
           /\ \/ \E t \in Callers : Start(t) \/ CallerStep(t) \/ SpuriousWake(t)
              \/ CheckerStep
              \/ RedisStep
              \/ Signal
              \/ CloseStep
              \/ LateCommandCrashes
        \/ server \in {"closed", "aborted", "crashed"} /\ UNCHANGED vars

(* Threads run, and so do the statements of an exiting main; nothing is    *)
(* assumed of Redis, which answers when it likes (no connection has a      *)
(* timeout).  mutex_ starves nobody: the checker sleeps a second between   *)
(* two rounds, so a thread that wants mutex_ gets it.                      *)
Fairness == /\ \A t \in Callers : WF_vars(Alive /\ CallerStep(t))
            /\ WF_vars(Alive /\ CheckerStep)
            /\ WF_vars(Alive /\ CloseStep)
            /\ \A t \in Callers : SF_vars(Alive /\ EvalPredicate(t))
            /\ SF_vars(Alive /\ CheckerLock)

SafeSpec == Init /\ [][Next]_vars
Spec == SafeSpec /\ Fairness

-----------------------------------------------------------------------------
TypeOK ==
    /\ host \in {"GateServer", "StatusServer"}
    /\ b_stop_ \in BOOLEAN
    /\ connections_ \in Seq(Conns)
    /\ mutex_ \in Callers \cup {Checker, Nobody}
    /\ counter_ \in 0..CheckPeriod
    /\ pc \in [Callers -> {"idle", "call", "pass", "block", "wait", "cmd"}]
    /\ conn \in [Callers -> Conns \cup {NoConn}]
    /\ leaked \subseteq Conns
    /\ done \in Nat
    /\ chk \in [at : {"loop", "sleep", "lock", "iter", "ping", "exited"},
                conn : Conns \cup {NoConn}, left : 0..PoolSize]
    /\ server \in {"up", "exiting", "draining", "close", "notify", "join",
                   "closed", "aborted", "crashed"}
    /\ missed \subseteq Callers

(* A connection is in one place: queue, one caller, the checker or lost.   *)
(* In particular checkThread never PINGs a connection a command uses.      *)
ConnOwnership ==
    /\ \A i, j \in 1..Len(connections_) : connections_[i] = connections_[j] => i = j
    /\ \A t, u \in Callers : conn[t] = conn[u] /\ conn[t] # NoConn => t = u
    /\ \A t \in Callers : conn[t] \notin InPool \cup leaked
    /\ chk.conn \notin InPool \cup leaked
    /\ chk.conn # NoConn => \A t \in Callers : conn[t] # chk.conn
    /\ leaked \cap InPool = {}
    /\ Conns \subseteq InPool \cup leaked \cup {chk.conn} \cup {conn[t] : t \in Callers}

(* A pool serves at most PoolSize commands in the life of the process:     *)
(* each command uses up one connection for good.                           *)
CommandsBounded ==
    done + Len(connections_) + Cardinality({t \in Callers : pc[t] = "cmd"}) <= PoolSize

(* After Close() has notified, only a caller that was between its false    *)
(* predicate and its sleep at that moment can be asleep.  (Such callers    *)
(* are GateServer's, in a command begun too late; StatusServer has none.)  *)
SleepersMissedNotify ==
    server \in {"join", "closed", "aborted"} => Waiting \subseteq missed

(* Redis leaves no command and no PING without an answer. *)
RedisAnswers == []<>(chk.at # "ping") /\ \A t \in Callers : []<>(pc[t] # "cmd")

(* An exiting GateServer reaches Close(), and Close() comes back: the      *)
(* checker sees the flag and gives the mutex up.  That is if Redis         *)
(* answers, once no new command arrives, and if no command sleeps on the   *)
(* used-up pool: a sleeper keeps RedisMgr alive, and ~RedisMgr, which      *)
(* would wake it, never runs.                                              *)
CloseReturns ==
    /\ RedisAnswers
    /\ <>[](Waiting = {})
    /\ <>[][~(\E t \in Callers : Start(t))]_vars
    => (server = "exiting" ~> server \in {"closed", "crashed"})

(* "Graceful shutdown" (StatusServer/src/main.cpp, on server->Shutdown()): *)
(* the Shutdown() of a signalled StatusServer waits for its handlers and   *)
(* comes back, so that main goes on to Close(), at least if Redis answers. *)
GracefulShutdown == RedisAnswers => (server = "draining" ~> server = "close")

-----------------------------------------------------------------------------
Abstract == INSTANCE AbstractPool WITH
    Users <- Callers \cup {Checker}, Conns <- Conns, NoConn <- NoConn, Leaky <- TRUE,
    free <- InPool, stopped <- b_stop_,
    owner <- [u \in Callers \cup {Checker} |->
                IF u = Checker THEN chk.conn ELSE conn[u]]

(* The pool implements the abstract one with the checker as one more user: *)
(* nobody is handed a connection after b_stop_ is set, and the only steps  *)
(* that take a connection out of circulation are RedisMgr's commands.      *)
ImplementsPool == Abstract!Spec
=============================================================================
